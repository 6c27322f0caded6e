------------------------------ MODULE FileStore ------------------------------
(***************************************************************************)
(* memory/fs-store.ts over memory/fs-io.ts: one file per entry, one index  *)
(* file, an in-process lock, and a process that may die between two disk   *)
(* operations. Entry and index files are replaced by rename, so a reader   *)
(* sees the old or the new one: a write and its rename are one step here.  *)
(***************************************************************************)
EXTENDS Naturals, Sequences, FiniteSets, SequencesExt, FiniteSetsExt

CONSTANTS Calls,        \* calls of the store, each made at most once; an entry
                        \* id is the write() call that draws it
          Keys,
          None          \* no file; no id; no argument

Kinds == {"write", "update", "delete", "compact", "clear", "reconcile"}
Entry == [key : Keys, applied : SUBSET Calls, updatedAt : Nat]
Arguments == [kind : Kinds, key : Keys \cup {None}, id : Calls \cup {None}, at : Nat]

ASSUME FileStoreAssumption == /\ IsFiniteSet(Calls)
                              /\ None \notin Calls /\ None \notin Entry
                              /\ None \notin Arguments

VARIABLES file,         \* on disk: {id}.json, or None
          index,        \* on disk: the keys of _index.json
          line,         \* `indexLock`: the calls of this process, oldest first;
                        \* the head is inside
          pc,           \* how far each call is
          op,           \* what it does and with what
          mem,          \* what it has read: an index, an entry or a set of ids
          clock,        \* Date.now(), in steps
          dirty         \* a call broke off between the entries and the index

disk == <<file, index>>
vars == <<disk, line, pc, op, mem, clock, dirty>>

Steps == {"new", "first", "index", "replace", "sweep", "ok", "failed", "dead"}
Memory == [Keys -> Calls \cup {None}] \cup Entry
            \cup [left : SUBSET Calls, kept : SUBSET Calls] \cup {None}
TypeOK == /\ file \in [Calls -> Entry \cup {None}]
          /\ index \in [Keys -> Calls \cup {None}]
          /\ line \in Seq(Calls)
          /\ pc \in [Calls -> Steps]
          /\ op \in [Calls -> Arguments \cup {None}]
          /\ mem \in [Calls -> Memory]
          /\ clock \in Nat /\ dirty \in BOOLEAN

Files == {i \in Calls : file[i] # None}
NoIndex == [k \in Keys |-> None]

Init == /\ file = [i \in Calls |-> None]
        /\ index = NoIndex
        /\ line = <<>>
        /\ pc = [c \in Calls |-> "new"]
        /\ op = [c \in Calls |-> None]
        /\ mem = [c \in Calls |-> None]
        /\ clock = 0
        /\ dirty = FALSE

-----------------------------------------------------------------------------
\* A call starts: it waits for the calls before it. write() reads the clock
\* before it has the lock.
Start(c) ==
  /\ pc[c] = "new"
  /\ \E kind \in Kinds, key \in Keys, id \in Calls :
       /\ op' = [op EXCEPT ![c] = [kind |-> kind,
                                   key |-> IF kind = "write" THEN key ELSE None,
                                   id |-> IF kind \in {"update", "delete"} THEN id ELSE None,
                                   at |-> IF kind = "write" THEN clock ELSE 0]]
       /\ kind \in {"update", "delete"} => op[id] # None /\ op[id].kind = "write"
       /\ clock' = IF kind = "write" THEN clock + 1 ELSE clock
  /\ pc' = [pc EXCEPT ![c] = "first"]
  /\ line' = Append(line, c)
  /\ UNCHANGED <<disk, mem, dirty>>

\* Mutant: update() runs without the lock.
InsideUnlessUpdate(c) == /\ line # <<>>
                         /\ IF op[c].kind = "update" THEN c \in ToSet(line)
                                                     ELSE Head(line) = c

\* withIndexLock(): the chained promise before it has settled.
Inside(c) == line # <<>> /\ Head(line) = c

At(c, kinds, step) == pc[c] = step /\ Inside(c) /\ op[c].kind \in kinds
Goto(c, step) == pc' = [pc EXCEPT ![c] = step] /\ line' = line

\* The call settles and the `finally` releases the lock.
End(c, result) == /\ pc' = [pc EXCEPT ![c] = result]
                  /\ line' = RemoveFirst(line, c)

\* write(): the entry file, then the index is read, then replaced.
WriteEntry(c) ==
  /\ At(c, {"write"}, "first")
  /\ file' = [file EXCEPT ![c] = [key |-> op[c].key, applied |-> {}, updatedAt |-> op[c].at]]
  /\ Goto(c, "index")
  /\ UNCHANGED <<index, op, mem, clock, dirty>>

ReadIndex(c) ==
  /\ At(c, {"write", "delete"}, "index")
  /\ mem' = [mem EXCEPT ![c] = index]
  /\ Goto(c, "replace")
  /\ UNCHANGED <<disk, op, clock, dirty>>

AddKey(c) ==
  /\ At(c, {"write"}, "replace")
  /\ index' = [mem[c] EXCEPT ![op[c].key] = c]
  /\ End(c, "ok")
  /\ UNCHANGED <<file, op, mem, clock, dirty>>

\* update(): the entry is read, merged and replaced; a missing one is an error.
ReadEntry(c) ==
  /\ At(c, {"update"}, "first")
  /\ \/ /\ file[op[c].id] # None
        /\ mem' = [mem EXCEPT ![c] = file[op[c].id]]
        /\ Goto(c, "replace")
     \/ /\ file[op[c].id] = None
        /\ End(c, "failed")
        /\ mem' = mem
  /\ UNCHANGED <<disk, op, clock, dirty>>

ReplaceEntry(c) ==
  /\ At(c, {"update"}, "replace")
  /\ file' = [file EXCEPT ![op[c].id] = [mem[c] EXCEPT !.applied = @ \cup {c},
                                                       !.updatedAt = clock]]
  /\ clock' = clock + 1
  /\ End(c, "ok")
  /\ UNCHANGED <<index, op, mem, dirty>>

\* delete(): unlink, then the index without the id; without a file it answers
\* false before it looks at the index.
Unlink(c) ==
  /\ At(c, {"delete"}, "first")
  /\ \/ /\ file[op[c].id] # None
        /\ file' = [file EXCEPT ![op[c].id] = None]
        /\ Goto(c, "index")
     \/ file[op[c].id] = None /\ End(c, "failed") /\ file' = file
  /\ UNCHANGED <<index, op, mem, clock, dirty>>

\* Mutant: the index is written back with the key of the removed entry.
KeepKey(c) ==
  /\ At(c, {"delete"}, "replace")
  /\ index' = mem[c]
  /\ End(c, "ok")
  /\ UNCHANGED <<file, op, mem, clock, dirty>>

DropKey(c) ==
  /\ At(c, {"delete"}, "replace")
  /\ index' = [k \in Keys |-> IF mem[c][k] = op[c].id THEN None ELSE mem[c][k]]
  /\ End(c, "ok")
  /\ UNCHANGED <<file, op, mem, clock, dirty>>

\* compact() lists the entries and chooses some to remove, by age and by count,
\* that are not critical.
Choose(c) ==
  /\ At(c, {"compact"}, "first")
  /\ \E victims \in SUBSET Files :
       mem' = [mem EXCEPT ![c] = [left |-> victims, kept |-> Files \ victims]]
  /\ Goto(c, "sweep")
  /\ UNCHANGED <<disk, op, clock, dirty>>

\* clear(): all of them.
ChooseAll(c) ==
  /\ At(c, {"clear"}, "first")
  /\ mem' = [mem EXCEPT ![c] = [left |-> Files, kept |-> {}]]
  /\ Goto(c, "sweep")
  /\ UNCHANGED <<disk, op, clock, dirty>>

\* Mutant: an entry that could not be removed is left out of the new index.
SweepForgetful(c) ==
  /\ At(c, {"compact", "clear"}, "sweep")
  /\ \E i \in mem[c].left :
       \/ /\ file' = [file EXCEPT ![i] = None]
          /\ mem' = [mem EXCEPT ![c].left = @ \ {i}]
       \/ /\ mem' = [mem EXCEPT ![c].left = @ \ {i}]
          /\ file' = file
  /\ UNCHANGED <<index, line, pc, op, clock, dirty>>

\* batchUnlink(): each removal succeeds or fails; a failed one is kept.
Sweep(c) ==
  /\ At(c, {"compact", "clear"}, "sweep")
  /\ \E i \in mem[c].left :
       \/ /\ file' = [file EXCEPT ![i] = None]
          /\ mem' = [mem EXCEPT ![c].left = @ \ {i}]
       \/ /\ mem' = [mem EXCEPT ![c].left = @ \ {i}, ![c].kept = @ \cup {i}]
          /\ file' = file
  /\ UNCHANGED <<index, line, pc, op, clock, dirty>>

\* An index that maps each key of S to one of its entries.
IndexOf(S, pick(_)) ==
  [k \in Keys |-> LET same == {i \in S : file[i].key = k}
                  IN IF same = {} THEN None ELSE pick(same)]

\* The rebuilt index: of two kept entries with one key, the one listed last.
Rebuild(c) ==
  /\ At(c, {"compact", "clear"}, "sweep") /\ mem[c].left = {}
  /\ \E last \in [(SUBSET mem[c].kept) \ {{}} -> mem[c].kept] :
       /\ \A S \in DOMAIN last : last[S] \in S
       /\ index' = IndexOf(mem[c].kept, LAMBDA S : last[S])
  /\ End(c, "ok")
  /\ dirty' = FALSE
  /\ UNCHANGED <<file, op, mem, clock>>

Latest(S) == CHOOSE i \in S : \A j \in S : file[j].updatedAt <= file[i].updatedAt

\* reconcileIndex(): the latest entry of each key.
Reconcile(c) ==
  /\ At(c, {"reconcile"}, "first")
  /\ index' = IndexOf(Files, Latest)
  /\ End(c, "ok")
  /\ dirty' = FALSE
  /\ UNCHANGED <<file, op, mem, clock>>

\* A call that has changed entries and not yet the index.
Halfway(c) == \/ op[c].kind \in {"write", "delete"} /\ pc[c] \in {"index", "replace"}
              \/ op[c].kind \in {"compact", "clear"} /\ pc[c] = "sweep"

\* The next disk operation of the call inside fails: it rejects (delete() says
\* false) and leaves what it has done.
Fail(c) == /\ pc[c] \in {"first", "index", "replace", "sweep"} /\ Inside(c)
           /\ End(c, "failed")
           /\ dirty' = (dirty \/ Halfway(c))
           /\ UNCHANGED <<disk, op, mem, clock>>

\* The process dies and a new one starts: calls and lock are gone, the disk stays.
Crash == /\ line # <<>>
         /\ dirty' = (dirty \/ \E c \in ToSet(line) : Halfway(c))
         /\ pc' = [c \in Calls |-> IF c \in ToSet(line) THEN "dead" ELSE pc[c]]
         /\ line' = <<>>
         /\ UNCHANGED <<disk, op, mem, clock>>

Work(c) == \/ WriteEntry(c) \/ ReadIndex(c) \/ AddKey(c) \/ ReadEntry(c)
           \/ ReplaceEntry(c) \/ Unlink(c) \/ DropKey(c) \/ Choose(c) \/ ChooseAll(c)
           \/ Sweep(c) \/ Rebuild(c) \/ Reconcile(c) \/ Fail(c)

Next == Crash \/ \E c \in Calls : Start(c) \/ Work(c)

Spec == Init /\ [][Next]_vars
-----------------------------------------------------------------------------
Quiet == line = <<>>

\* Between calls, unless one broke off halfway since the index was last rebuilt,
\* every key of the index leads to an entry with that key: also after crashes
\* elsewhere, failed removals, and a rebuild that repairs what a crash left.
IndexTrue ==
  /\ TypeOK
  /\ Quiet /\ ~dirty =>
       \A k \in Keys : index[k] # None => index[k] \in Files /\ file[index[k]].key = k

Written(k) == {c \in Calls : op[c] # None /\ op[c].kind = "write" /\ op[c].key = k}

\* And an entry on disk is found by its key, if its key was written only once:
\* one that compact() or clear() failed to remove stays in the index.
KeyKnown == Quiet /\ ~dirty =>
  \A i \in Files : Cardinality(Written(file[i].key)) = 1 => index[file[i].key] = i

\* Every update() that succeeded is in the entry it updated, as long as there is
\* one, whatever else was called between its read and its write.
NoLostUpdate == \A c \in Calls :
  pc[c] = "ok" /\ op[c].kind = "update" /\ op[c].id \in Files => c \in file[op[c].id].applied

=============================================================================

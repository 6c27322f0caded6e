---------------------------- MODULE RedisStoreMC ----------------------------
(* The store of RedisStore.tla under TLC: all entries are of one key. The      *)
(* write() makes the entry "w", which the calls by id are about and those by   *)
(* key may find; each of these may also make one of its own.                   *)
EXTENDS RedisStore, TLC

MCTarget == [o \in Changes \cup Deletes |-> IF o \in ByKey THEN o ELSE "w"]
MCKeyOf == [i \in Ids |-> "k"]

\* Two processes with a client each, or one client for all.
TwoConns == [o \in Calls |-> IF o \in {"u2", "s2", "m"} THEN "b" ELSE "a"]
OneConn == [o \in Calls |-> "a"]
=============================================================================

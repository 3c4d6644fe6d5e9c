-------------------------- MODULE BitcaskRefinement --------------------------
(***************************************************************************)
(* Bitcask implements VersionedStore.  A key holds the version the index   *)
(* gives it and the value of the record the index points to, wherever that *)
(* record is at the moment; a get has seen the value of the item it looked *)
(* up; a set takes effect when bc_set indexes its record.                  *)
(***************************************************************************)
EXTENDS Bitcask

value_at(i) ==
  IF i.bucket = curr /\ i.off >= wbuf_start_pos
  THEN write_buffer[i.off - wbuf_start_pos + 1].val
  ELSE IF i.bucket = flushing_bucket /\ i.off >= fbuf_start_pos
  THEN flush_buffer[i.off - fbuf_start_pos + 1].val
  ELSE data[i.bucket][i.off + 1].val

entry(i) == IF i.ver = 0 THEN Nothing ELSE [ver |-> i.ver, val |-> value_at(i)]

reading(t) == write_lock # t /\ pc[t] \in {"check_curr", "check_flushing", "buffers", "file"}

store_map == [k \in Key |-> entry(tree[k])]
got_of(t) == IF reading(t) THEN entry(item[t]) ELSE IF pc[t] = "return" THEN ret[t] ELSE Nothing
got_map == [t \in Client |-> got_of(t)]

VS == INSTANCE VersionedStore WITH store <- store_map, got <- got_map

\* Until the bucket numbers run out, a bitcask is a versioned store: a set
\* takes effect in one step, and a get answers with what the key held when
\* it was looked up, however flushes and rotations move the record meanwhile.
Implements == VS!VSSpec

----------------------------------------------------------------------------
(***************************************************************************)
(* The inductive invariant behind Implements and VersionsIncrease.         *)
(***************************************************************************)
\* The command of t would change nothing.
same(t) ==
  /\ arg[t].version = 0 /\ it[t].ver > 0 /\ arg[t].ver > 0
  /\ value_at(it[t]) = arg[t].val

\* bc_set holds the item that its key still has, and the version and the value it
\* decided on; what it indexes has both.
set_ok(t) ==
  write_lock = t =>
    /\ it[t] = tree[arg[t].key]
    /\ arg[t].version \in VersionArg /\ (arg[t].version < 0 => arg[t].val = Empty)
    /\ arg[t].ver = NewVersion(arg[t].version, it[t].ver)
    /\ pc[t] \in ReadLabel => item[t] = it[t] /\ it[t].ver > 0
    /\ pc[t] \in {"append", "flush", "grow", "index_curr", "index_tree"} => ~same(t)
    /\ pc[t] = "raise" =>
         arg[t].version # 0 /\ it[t].ver > 0 /\ value_at(it[t]) = arg[t].val
    /\ pc[t] \in {"index_curr", "index_tree"} =>
         /\ item[t].ver = arg[t].ver /\ value_at(item[t]) = arg[t].val
         /\ item[t].ver > 0 => item[t].hash = HashOf[arg[t].val]

\* bc_get has looked up an item.
get_ok(t) == pc[t] \in ReadLabel => item[t].ver # 0

\* The hash of a live item is that of its value.
HashesMatch == \A k \in Key : tree[k].ver > 0 => tree[k].hash = HashOf[value_at(tree[k])]

StoreInv ==
  curr < MAX_BUCKET_COUNT => HashesMatch /\ \A t \in Client : set_ok(t) /\ get_ok(t)

----------------------------------------------------------------------------
(***************************************************************************)
(* The inductive invariant behind IndexIsLatest.  It speaks of all first   *)
(* blocks of records, also where the rest of the record is missing.        *)
(***************************************************************************)
\* What bc_set is about to index is the last record of its key, and the value it
\* compares had the same hash.
log_ok(t) ==
  write_lock = t =>
    /\ pc[t] \in {"index_curr", "index_tree"} =>
         \A p \in starts : p.rec.key = arg[t].key => settled(p, item[t])
    /\ pc[t] \in ReadLabel \cup {"lookup", "raise"} => it[t].hash = hash_of(arg[t].val, arg[t].ver)

Indexed == \A p \in starts : being_indexed(p.rec.key, p) \/ settled(p, tree[p.rec.key])

LogInv ==
  curr < MAX_BUCKET_COUNT => Indexed /\ \A t \in Client : log_ok(t)
=============================================================================

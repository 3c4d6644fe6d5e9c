------------------------------ MODULE Optimize ------------------------------
(***************************************************************************)
(* bc_optimize of bitcask.c with optimizeDataFile of record.c: compaction  *)
(* of the data files of a bitcask while bc_set and bc_get go on.           *)
(*                                                                         *)
(* Flushing is in Bitcask in detail; here a flush is one step, and a flush *)
(* that fills a bucket is followed by bc_rotate.  A record takes one unit. *)
(* Each value is a number of its own, so that no two sets store the same   *)
(* value, except one that only raises the version.                         *)
(*                                                                         *)
(* Allow names the circumstances that are explored beyond the plain ones:  *)
(*   "update": a set comes between the lookup and the update of its key    *)
(*             in update_items;                                            *)
(*   "raise":  a set raises the version of a key while the compaction runs;*)
(*   "reader": a bc_get that has looked a key up finds the file removed, or*)
(*             the key in another file by then, or not yet in its file;    *)
(*   "hint":   a hint thread is late, and the compaction is at its bucket; *)
(*   "opened": the bitcask was opened after the last delete, and bc_scan   *)
(*             keeps no tombstones in the index.                           *)
(* Without them compaction keeps its promises; each of them breaks one.    *)
(***************************************************************************)
EXTENDS Integers, Sequences, FiniteSets, SequencesExt

CONSTANTS Key, Reader, Allow,
          Stored,                       \* data files to begin with: sequences of files,
                                        \* which are sequences of [k, ver, val];
                                        \* <<>> for a number that is not in use
          MaxBucket, MaxSets, MaxRuns,  \* bounds: buckets, calls of bc_set, of bc_optimize
          max_bucket_size,              \* in records
          None

Bucket == 0 .. MaxBucket

VARIABLES
  tree, curr_tree,                \* [Key -> [b, p, ver] or None]
  updating_bucket, updating_tree,
  data, tmp, link, hint,          \* files: data, its .tmp, a symlink to a data file, hints
  buckets, curr, building,        \* building: hint threads that have not run
  wbuf,                           \* records of bucket curr that are not in its file
  write_lock, set,                \* set: [k, how, it, ver], the locals of bc_set
  pc, gc,                         \* of bc_optimize
  rd,                             \* of each bc_get
  want, sets, runs, touched       \* history: the value of each key; counts; buckets
                                  \* written since bc_optimize began

files == <<data, tmp, link, hint>>
index == <<tree, updating_bucket, updating_tree>>
bc    == <<curr_tree, buckets, curr, building, wbuf>>
user  == <<write_lock, set>>
hist  == <<want, sets, runs, touched>>
vars  == <<index, files, bc, user, pc, gc, rd, hist>>

NoTree == [k \in Key |-> None]
Idle == [pc |-> "idle", k |-> None, it |-> None, b |-> None, maybe_tmp |-> FALSE]
Begin == [i |-> 0, last |-> -1, last0 |-> -1, skipped |-> FALSE, phase |-> None, use_tmp |-> FALSE,
          p |-> 0, new |-> NoTree, orig |-> 0, hint |-> <<>>, todo |-> {}, k |-> None, it |-> None]

\* The items of a data file, in bucket b.
items(b, f) ==
  [k \in Key |-> LET mine == {p \in 1 .. Len(f) : f[p].k = k}
                     p == CHOOSE n \in mine : \A m \in mine : m <= n
                 IN IF mine = {} THEN None ELSE [b |-> b, p |-> p - 1, ver |-> f[p].ver]]

entries(t) == SetToSeq({[k |-> k, p |-> t[k].p, ver |-> t[k].ver] : k \in {x \in Key : t[x] # None}})

\* The bitcask has full data files that each have a hint file, and a new current one.
Init ==
  \E stored \in Stored :
    LET file(b) == stored[b + 1]
        In == {b \in 0 .. Len(stored) - 1 : file(b) # <<>>}
        of(k) == {b \in In : items(b, file(b))[k] # None}
        newest(k) == CHOOSE b \in of(k) : \A c \in of(k) : c <= b
        item(k) == items(newest(k), file(newest(k)))[k]
    IN /\ tree = [k \in Key |-> IF of(k) = {} \/ ("opened" \in Allow /\ item(k).ver < 0) THEN None
                                ELSE item(k)]
       /\ curr_tree = NoTree /\ updating_bucket = -1 /\ updating_tree = NoTree
       /\ data = [b \in Bucket |-> IF b \in In THEN file(b) ELSE None]
       /\ hint = [b \in Bucket |-> IF b \in In THEN entries(items(b, file(b))) ELSE None]
       /\ tmp = [b \in Bucket |-> None] /\ link = tmp
       /\ buckets = [b \in Bucket |-> IF b \in In THEN Len(file(b)) ELSE -1]
       /\ curr = Len(stored) /\ building = {} /\ wbuf = <<>>
       /\ want = [k \in Key |-> IF tree[k] = None \/ tree[k].ver < 0 THEN None
                                ELSE data[tree[k].b][tree[k].p + 1].val]
       /\ write_lock = None /\ set = None /\ pc = "off" /\ gc = Begin
       /\ rd = [r \in Reader |-> Idle] /\ sets = 0 /\ runs = 0 /\ touched = {}

content(f) == IF f = None THEN <<>> ELSE f
has(f, p, k) == p < Len(f) /\ f[p + 1].k = k
live(it) == it # None /\ it.ver > 0

-----------------------------------------------------------------------------
\* bc_set up to the comparison of the stored value.
SetBegin(k, how) ==
  LET it == tree[k]
      oldv == IF it = None THEN 0 ELSE it.ver
  IN /\ write_lock = None /\ sets < MaxSets
     /\ how \in {"delete", "raise"} => oldv > 0
     /\ how = "raise" => "raise" \in Allow \/ pc = "off"
     /\ write_lock' = "set" /\ sets' = sets + 1
     /\ set' = [k |-> k, how |-> how, it |-> it,
                ver |-> IF how = "delete" THEN -oldv - 1 ELSE (IF oldv < 0 THEN -oldv ELSE oldv) + 1]
     /\ UNCHANGED <<index, files, bc, pc, gc, rd, want, runs, touched>>

unraced(k) == "update" \in Allow \/ pc # "add" \/ gc.k # k

\* What is found under the path of a data file.
at(b) == content(IF link[b] = None THEN data[b] ELSE data[link[b]])

start == Len(content(data[curr]))   \* wbuf_start_pos

\* A bc_get has come too late for the file it looked the key up in.
late(r) == rd[r].pc \in {"check", "buffer", "open", "again"} /\ ~rd[r].maybe_tmp
           /\ ~has(at(rd[r].b), rd[r].it.p, rd[r].k)

\* bc_set with a new value or a tombstone.
SetAppend ==
  LET k == set.k
      item == [b |-> curr, p |-> start + Len(wbuf), ver |-> set.ver]
      value == 100 + sets        \* none of those in Stored
  IN /\ set # None /\ set.how \in {"new", "delete"} /\ start + Len(wbuf) < max_bucket_size
     /\ unraced(k) /\ ("reader" \in Allow \/ \A r \in Reader : rd[r].k = k => ~late(r))
     /\ wbuf' = Append(wbuf, [k |-> k, ver |-> set.ver, val |-> value])
     /\ tree' = [tree EXCEPT ![k] = item] /\ curr_tree' = [curr_tree EXCEPT ![k] = item]
     /\ want' = [want EXCEPT ![k] = IF set.how = "new" THEN value ELSE None]
     /\ write_lock' = None /\ set' = None
     /\ UNCHANGED <<updating_bucket, updating_tree, files, buckets, curr, building, pc, gc, rd, sets, runs, touched>>

\* bc_set with the stored value and a higher version.
SetRaise ==
  LET item == [set.it EXCEPT !.ver = set.ver]
  IN /\ set # None /\ set.how = "raise" /\ unraced(set.k)
     /\ tree' = [tree EXCEPT ![set.k] = item]
     /\ curr_tree' = IF set.it.b = curr THEN [curr_tree EXCEPT ![set.k] = item] ELSE curr_tree
     /\ write_lock' = None /\ set' = None
     /\ UNCHANGED <<updating_bucket, updating_tree, files, buckets, curr, building, wbuf, pc, gc, rd, hist>>

\* bc_flush.
Flush ==
  /\ wbuf # <<>> /\ write_lock # "gc"
  /\ data' = [data EXCEPT ![curr] = content(@) \o wbuf] /\ wbuf' = <<>>
  /\ buckets' = [buckets EXCEPT ![curr] = start + Len(wbuf)]
  /\ touched' = touched \cup {curr}
  /\ UNCHANGED <<index, tmp, link, hint, curr_tree, curr, building, user, pc, gc, rd, want, sets, runs>>

\* bc_rotate, after a flush that filled the bucket.
Rotate ==
  /\ write_lock # "gc" /\ curr < MaxBucket
  /\ start = max_bucket_size /\ wbuf = <<>>
  /\ building' = building \cup {[b |-> curr, tree |-> curr_tree]}
  /\ curr' = curr + 1 /\ curr_tree' = NoTree
  /\ UNCHANGED <<index, files, buckets, wbuf, user, pc, gc, rd, hist>>

\* build_thread.
BuildHint ==
  \E h \in building :
    /\ building' = building \ {h}
    /\ hint' = [hint EXCEPT ![h.b] = entries(h.tree)]
    /\ UNCHANGED <<index, data, tmp, link, buckets, curr, curr_tree, wbuf, user, pc, gc, rd, hist>>

-----------------------------------------------------------------------------
\* bc_get: ht_get_maybe_tmp first looks the key up, ...
step(r, fields) == rd' = [rd EXCEPT ![r] = fields]

moving == pc = "rename" /\ gc.phase \in {"move", "final"}
\* The index has the new number of the current bucket, bc->curr not yet.
ahead(it) == pc # "off" /\ gc.phase = "final" /\ it.b = gc.last /\ it.p >= start

Lookup(r, k) ==
  /\ rd[r].pc = "idle" /\ live(tree[k])
  /\ "reader" \in Allow \/ ~(moving \/ ahead(tree[k]))
  /\ step(r, [pc |-> "check", k |-> k, it |-> tree[k], b |-> tree[k].b, maybe_tmp |-> FALSE])
  /\ UNCHANGED <<index, files, bc, user, pc, gc, hist>>

\* ... then, if its bucket is being rewritten, again in the tree of the new file.
CheckTmp(r) ==
  LET me == rd[r]
      is_tmp == updating_bucket = me.b
      it == IF is_tmp THEN updating_tree[me.k] ELSE me.it
  IN /\ me.pc = "check"
     /\ step(r, IF ~live(it) THEN Idle
                ELSE [me EXCEPT !.it = it, !.b = it.b, !.maybe_tmp = is_tmp, !.pc = "buffer"])
     /\ UNCHANGED <<index, files, bc, user, pc, gc, hist>>

\* A record of the current bucket may be in the write buffer.
LookInBuffer(r) ==
  LET me == rd[r]
  IN /\ me.pc = "buffer"
     /\ step(r, IF me.b > curr THEN [me EXCEPT !.pc = "remove"]
                ELSE IF me.b = curr /\ me.it.p >= start /\ has(wbuf, me.it.p - start, me.k) THEN Idle
                ELSE [me EXCEPT !.pc = IF me.maybe_tmp THEN "tmp" ELSE "open"])
     /\ UNCHANGED <<index, files, bc, user, pc, gc, hist>>

OpenTmp(r) ==
  LET me == rd[r]
  IN /\ me.pc = "tmp"
     /\ step(r, IF tmp[me.b] = None THEN [me EXCEPT !.pc = "open"]
                ELSE IF has(tmp[me.b], me.it.p, me.k) THEN Idle ELSE [me EXCEPT !.pc = "remove"])
     /\ UNCHANGED <<index, files, bc, user, pc, gc, hist>>

OpenData(r) ==
  LET me == rd[r]
  IN /\ me.pc = "open"
     /\ "reader" \in Allow \/ ~(pc = "rename" /\ gc.phase = "self" /\ me.b = gc.i)
     /\ step(r, IF has(at(me.b), me.it.p, me.k) THEN Idle
                ELSE [me EXCEPT !.pc = IF me.maybe_tmp THEN "remove" ELSE "again"])
     /\ UNCHANGED <<index, files, bc, user, pc, gc, hist>>

\* Mutant: no second look.
LookAgainNever(r) ==
  /\ rd[r].pc \in {"again", "remove"}
  /\ IF rd[r].pc = "again" THEN step(r, [rd[r] EXCEPT !.pc = "remove"]) /\ UNCHANGED tree
     ELSE step(r, Idle) /\ tree' = [tree EXCEPT ![rd[r].k] = None]
  /\ UNCHANGED <<updating_bucket, updating_tree, files, bc, user, pc, gc, hist>>

\* A second look at the index; if the position is another, the same file is read there.
\* In the end a key that cannot be read is taken out of the index.
LookAgain(r) ==
  LET me == rd[r]
      it == tree[me.k]
  IN /\ me.pc \in {"again", "remove"}
     /\ IF me.pc = "remove" THEN step(r, Idle) /\ tree' = [tree EXCEPT ![me.k] = None]
        ELSE /\ step(r, IF it # None /\ it.p # me.it.p THEN [me EXCEPT !.it = it, !.pc = "open"]
                        ELSE [me EXCEPT !.pc = "remove"])
             /\ UNCHANGED tree
     /\ UNCHANGED <<updating_bucket, updating_tree, files, bc, user, pc, gc, hist>>

bc_get(r) == \/ \E k \in Key : Lookup(r, k)
             \/ CheckTmp(r) \/ LookInBuffer(r) \/ OpenTmp(r) \/ OpenData(r) \/ LookAgain(r)

\* A bc_get is on its way to the file of bucket b, not to its .tmp.
bound_for(r, b) == rd[r].pc # "idle" /\ rd[r].b = b /\ ~rd[r].maybe_tmp
away(b) == "reader" \in Allow \/ \A r \in Reader : ~bound_for(r, b)
\* ... and will find the key in it.
staying(b) == "reader" \in Allow
              \/ \A r \in Reader : bound_for(r, b) => live(tree[rd[r].k]) /\ tree[rd[r].k].b = b

-----------------------------------------------------------------------------
\* bc_optimize.
goto(label) == pc' = label

Start ==
  /\ pc = "off" /\ runs < MaxRuns /\ curr > 0
  /\ "raise" \in Allow \/ set = None
  /\ runs' = runs + 1 /\ touched' = {} /\ gc' = Begin /\ goto("bucket")
  /\ UNCHANGED <<index, files, bc, user, rd, want, sets>>

prompt(b) == "hint" \in Allow \/ \A h \in building : h.b # b

SkipEmpty ==
  /\ pc = "bucket" /\ gc.i < curr /\ buckets[gc.i] < 0
  /\ gc' = [gc EXCEPT !.i = @ + 1]
  /\ UNCHANGED <<index, files, bc, user, pc, rd, hist>>

\* A file modified after the limit is kept; it takes the next free number, if its
\* hint file tells which keys to update.  scanHintFile leaves tombstones out.
SkipRecent ==
  /\ pc = "bucket" /\ gc.i < curr /\ buckets[gc.i] >= 0 /\ prompt(gc.i)
  /\ LET last == gc.last + 1
         moved == last # gc.i /\ hint[gc.i] # None
         entry(k) == SelectSeq(content(hint[gc.i]), LAMBDA x : x.k = k)
         keys == {k \in Key : entry(k) # <<>> /\ Last(entry(k)).ver > 0}
         item(k) == [b |-> gc.i, p |-> Last(entry(k)).p, ver |-> Last(entry(k)).ver]
     IN IF moved
        THEN /\ link' = [link EXCEPT ![last] = gc.i]
             /\ gc' = [gc EXCEPT !.skipped = TRUE, !.last = last, !.phase = "move", !.todo = keys,
                                 !.new = [k \in Key |-> IF k \in keys THEN item(k) ELSE None]]
             /\ goto("visit")
        ELSE /\ gc' = [gc EXCEPT !.skipped = TRUE, !.last = gc.i, !.i = @ + 1]
             /\ UNCHANGED <<link, pc>>
  /\ UNCHANGED <<index, data, tmp, hint, bc, user, rd, hist>>

\* count_deleted_record: of the entries of the hint file, those no longer needed.
count_deleted_record ==
  LET h == content(hint[gc.i])
      used(e) == LET it == tree[e.k] IN /\ it # None /\ it.b = gc.i /\ it.p = e.p
                                        /\ it.ver > 0 \/ gc.skipped
  IN Len(SelectSeq(h, LAMBDA e : ~used(e)))

\* Mutant: a file that does not fit into the last one is rewritten in place.
next_last_self == gc.i

next_last == gc.last + 1

\* Any other file is compacted into the last one, if the guess is that it has room.
ChooseLast ==
  /\ pc = "bucket" /\ gc.i < curr /\ buckets[gc.i] >= 0 /\ gc.i \notin touched /\ prompt(gc.i)
  /\ LET total == Len(content(hint[gc.i]))
         guess == (Len(data[gc.i]) * (total - count_deleted_record \div 2)) \div (total + 1)
         full == \/ gc.last = -1
                 \/ Len(content(data[gc.last])) + guess > max_bucket_size
         last == IF full THEN next_last ELSE gc.last
     IN gc' = [gc EXCEPT !.last = last, !.last0 = last]
  /\ goto("open")
  /\ UNCHANGED <<index, files, bc, user, rd, hist>>

-----------------------------------------------------------------------------
\* bc_optimize gives up.
fail == goto("off") /\ gc' = Begin

\* optimizeDataFile could not use the last file: the next one, at most once, unless
\* this was the file itself.
try_next ==
  IF gc.last >= gc.i THEN fail
  ELSE IF gc.last > gc.last0 THEN goto("bucket") /\ gc' = [gc EXCEPT !.last = @ + 1, !.i = @ + 1]
  ELSE goto("open") /\ gc' = [gc EXCEPT !.last = @ + 1]

\* Mutant: the entries of the records that are already in the last file are forgotten.
last_hint_new(orig) == <<>>

last_hint(orig) == IF orig > 0 THEN hint[gc.last] ELSE <<>>

\* optimizeDataFile: append to the last file if there is one, else write a .tmp file.
OpenLast ==
  /\ pc = "open"
  /\ LET use_tmp == gc.last = gc.i \/ buckets[gc.last] < 0
         orig == IF use_tmp THEN 0 ELSE Len(data[gc.last])
         begun == [gc EXCEPT !.use_tmp = use_tmp, !.orig = orig, !.p = 0, !.new = NoTree,
                             !.hint = last_hint(orig)]
     IN IF (buckets[gc.last] >= 0) # (data[gc.last] # None) THEN fail /\ UNCHANGED tmp
        ELSE IF orig > 0 /\ hint[gc.last] = None THEN try_next /\ UNCHANGED tmp
        ELSE /\ gc' = begun /\ goto("scan")
             /\ tmp' = IF use_tmp THEN [tmp EXCEPT ![gc.last] = <<>>] ELSE tmp
  /\ UNCHANGED <<index, data, link, hint, bc, user, rd, hist>>

new_df == IF gc.use_tmp THEN tmp[gc.last] ELSE data[gc.last]

\* new_df becomes f.
write(f) ==
  IF gc.use_tmp THEN tmp' = [tmp EXCEPT ![gc.last] = f] /\ UNCHANGED data
  ELSE data' = [data EXCEPT ![gc.last] = f] /\ UNCHANGED tmp

\* Mutant: a tombstone is dropped although an older file was skipped.
keep_live(rec, it) == it # None /\ it.b = gc.i /\ it.p = gc.p /\ it.ver > 0

\* Is a record, found at position gc.p, the one the index names, and to be kept?
keep(rec, it) == /\ it # None /\ it.b = gc.i /\ it.p = gc.p
                 /\ it.ver > 0 \/ gc.skipped

overflow(pos) == pos >= max_bucket_size

\* One round of the scan.  A tombstone that is dropped is to leave the index, too.
Scan ==
  /\ pc = "scan" /\ gc.p < Len(data[gc.i])
  /\ LET rec == data[gc.i][gc.p + 1]
         it == tree[rec.k]
         pos == Len(new_df)
         item == [b |-> gc.last, p |-> pos, ver |-> it.ver]
         dropped == it # None /\ it.b = gc.i /\ it.p = gc.p /\ it.ver < 0
     IN IF keep(rec, it)
        THEN IF overflow(pos)
             THEN /\ IF gc.use_tmp THEN tmp' = [tmp EXCEPT ![gc.last] = None] /\ UNCHANGED data
                     ELSE write(SubSeq(new_df, 1, gc.orig))
                  /\ try_next
             ELSE /\ write(Append(new_df, [rec EXCEPT !.ver = it.ver]))
                  /\ gc' = [gc EXCEPT !.p = @ + 1, !.new[rec.k] = item,
                                      !.hint = Append(@, [k |-> rec.k, p |-> pos, ver |-> it.ver])]
                  /\ UNCHANGED pc
        ELSE /\ gc' = [gc EXCEPT !.p = @ + 1,
                                 !.new[rec.k] = IF dropped THEN [b |-> 0, p |-> 0, ver |-> it.ver] ELSE @]
             /\ UNCHANGED <<data, tmp, pc>>
  /\ UNCHANGED <<index, link, hint, bc, user, rd, hist>>

copied == {k \in Key : gc.new[k] # None}

\* Rewriting a file in place: readers are sent to the .tmp file while the index changes.
ScannedSelf ==
  /\ pc = "scan" /\ gc.p = Len(data[gc.i]) /\ gc.last = gc.i
  /\ updating_bucket' = gc.i /\ updating_tree' = gc.new
  /\ gc' = [gc EXCEPT !.phase = "self", !.todo = copied] /\ goto("visit")
  /\ UNCHANGED <<tree, files, bc, user, rd, hist>>

\* Merging into another file: a .tmp file takes its name before the index changes.
ScannedOther ==
  /\ pc = "scan" /\ gc.p = Len(data[gc.i]) /\ gc.last # gc.i
  /\ IF gc.use_tmp THEN /\ data' = [data EXCEPT ![gc.last] = tmp[gc.last]]
                        /\ tmp' = [tmp EXCEPT ![gc.last] = None]
     ELSE UNCHANGED <<data, tmp>>
  /\ gc' = [gc EXCEPT !.phase = "merge", !.todo = copied] /\ goto("visit")
  /\ UNCHANGED <<index, link, hint, bc, user, rd, hist>>

-----------------------------------------------------------------------------
\* ht_visit: for each key first a lookup, ...
VisitGet ==
  /\ pc = "visit"
  /\ \E k \in gc.todo : gc' = [gc EXCEPT !.todo = @ \ {k}, !.k = k, !.it = tree[k]]
  /\ goto("add")
  /\ UNCHANGED <<index, files, bc, user, rd, hist>>

same_pos(x, y) == x.b = y.b /\ x.p = y.p

\* Mutant: versions are not compared.
update_items_any(n, old) ==
  IF old = None THEN n
  ELSE IF same_pos(n, old) THEN tree[gc.k]
  ELSE IF n.ver > 0 THEN [n EXCEPT !.ver = old.ver] ELSE None

\* ... then update_items, ...
update_items(n, old) ==
  IF old = None THEN n
  ELSE IF same_pos(n, old) \/ n.ver # old.ver THEN tree[gc.k]
  ELSE IF n.ver > 0 THEN [n EXCEPT !.ver = old.ver] ELSE None

\* ... or update_item_pos.
update_item_pos(n, old) ==
  IF old # None /\ same_pos(n, old) THEN [old EXCEPT !.b = gc.last] ELSE tree[gc.k]

VisitAdd ==
  /\ pc = "add"
  /\ LET n == gc.new[gc.k]
     IN tree' = [tree EXCEPT ![gc.k] = IF gc.phase \in {"self", "merge"} THEN update_items(n, gc.it)
                                       ELSE update_item_pos(n, gc.it)]
  /\ gc' = [gc EXCEPT !.k = None, !.it = None] /\ goto("visit")
  /\ UNCHANGED <<updating_bucket, updating_tree, files, bc, user, rd, hist>>

visited(phase) == pc = "visit" /\ gc.todo = {} /\ gc.phase = phase

\* In place: the old file goes, the .tmp file takes its name, readers return to it.
UnlinkSelf ==
  /\ visited("self") /\ staying(gc.i)
  /\ data' = [data EXCEPT ![gc.i] = None] /\ goto("rename")
  /\ UNCHANGED <<index, tmp, link, hint, bc, user, gc, rd, hist>>

RenameSelf ==
  /\ pc = "rename" /\ gc.phase = "self"
  /\ data' = [data EXCEPT ![gc.i] = tmp[gc.i]] /\ tmp' = [tmp EXCEPT ![gc.i] = None]
  /\ goto("unset")
  /\ UNCHANGED <<index, link, hint, bc, user, gc, rd, hist>>

Unset ==
  /\ pc = "unset"
  /\ updating_bucket' = -1 /\ updating_tree' = NoTree /\ goto("hint")
  /\ UNCHANGED <<tree, files, bc, user, gc, rd, hist>>

UnlinkSource ==
  /\ visited("merge") /\ away(gc.i)
  /\ data' = [data EXCEPT ![gc.i] = None] /\ goto("hint")
  /\ UNCHANGED <<index, tmp, link, hint, bc, user, gc, rd, hist>>

\* Mutant: the size of the file that is gone remains.
resized_last == [buckets EXCEPT ![gc.last] = Len(data[gc.last])]

resized == [buckets EXCEPT ![gc.i] = -1, ![gc.last] = Len(data[gc.last])]

\* The new hint file, and the sizes of the buckets.
WriteHint ==
  /\ pc = "hint"
  /\ hint' = [hint EXCEPT ![gc.i] = None, ![gc.last] = gc.hint]
  /\ buckets' = resized
  /\ gc' = [gc EXCEPT !.i = @ + 1, !.phase = None, !.hint = <<>>, !.new = NoTree] /\ goto("bucket")
  /\ UNCHANGED <<index, data, tmp, link, curr_tree, curr, building, wbuf, user, rd, hist>>

\* A file that is only renumbered: the symlink is replaced by the file itself.
UnlinkSymlink ==
  /\ visited("move") \/ visited("final")
  /\ away(gc.i) /\ away(gc.last)
  /\ link' = [link EXCEPT ![gc.last] = None] /\ goto("rename")
  /\ UNCHANGED <<index, data, tmp, hint, bc, user, gc, rd, hist>>

renumbered(f) == [f EXCEPT ![gc.last] = f[gc.i], ![gc.i] = None]

RenameMoved ==
  /\ pc = "rename" /\ gc.phase = "move"
  /\ data' = renumbered(data) /\ hint' = renumbered(hint)
  /\ buckets' = [buckets EXCEPT ![gc.last] = buckets[gc.i], ![gc.i] = -1]
  /\ gc' = [gc EXCEPT !.i = @ + 1, !.phase = None, !.new = NoTree] /\ goto("bucket")
  /\ UNCHANGED <<index, tmp, link, curr_tree, curr, building, wbuf, user, rd, hist>>

\* At the end the current bucket is renumbered, too, with all writers locked out,
\* unless it is another one by then.
EndLoop ==
  /\ pc = "bucket" /\ gc.i = curr /\ goto("final")
  /\ UNCHANGED <<index, files, bc, user, gc, rd, hist>>

FinalLock ==
  /\ pc = "final" /\ write_lock = None
  /\ IF gc.i = curr /\ gc.last + 1 < curr
     THEN /\ write_lock' = "gc"
          /\ gc' = [gc EXCEPT !.last = @ + 1, !.phase = "final", !.new = curr_tree,
                              !.todo = {k \in Key : curr_tree[k] # None}]
          /\ link' = IF buckets[curr] > 0 THEN [link EXCEPT ![gc.last + 1] = curr] ELSE link
          /\ goto("visit")
     ELSE /\ goto("off") /\ gc' = Begin /\ UNCHANGED <<write_lock, link>>
  /\ UNCHANGED <<index, data, tmp, hint, bc, set, rd, hist>>

FinalMove ==
  /\ pc = "rename" /\ gc.phase = "final"
  /\ data' = IF buckets[curr] > 0 THEN renumbered(data) ELSE data
  /\ buckets' = [buckets EXCEPT ![gc.last] = buckets[gc.i], ![gc.i] = -1]
  /\ curr' = gc.last /\ write_lock' = None
  /\ touched' = {IF b = gc.i THEN gc.last ELSE b : b \in touched}
  /\ goto("off") /\ gc' = Begin
  /\ UNCHANGED <<index, tmp, link, hint, curr_tree, building, wbuf, set, rd, want, sets, runs>>

bc_optimize ==
  \/ Start \/ SkipEmpty \/ SkipRecent \/ ChooseLast \/ OpenLast \/ Scan \/ ScannedSelf \/ ScannedOther
  \/ VisitGet \/ VisitAdd \/ UnlinkSelf \/ RenameSelf \/ Unset \/ UnlinkSource \/ WriteHint
  \/ UnlinkSymlink \/ RenameMoved \/ EndLoop \/ FinalLock \/ FinalMove

Next ==
  \/ \E k \in Key, how \in {"new", "delete", "raise"} : SetBegin(k, how)
  \/ SetAppend \/ SetRaise \/ Flush \/ Rotate \/ BuildHint
  \/ \E r \in Reader : bc_get(r)
  \/ bc_optimize

Spec == Init /\ [][Next]_vars

-----------------------------------------------------------------------------
ItemType == [b : Bucket, p : Nat, ver : Int]
RecordType == [k : Key, ver : Int, val : Nat]
EntryType == [k : Key, p : Nat, ver : Int]

TypeOK ==
  /\ \A k \in Key : tree[k] \in ItemType \cup {None} /\ curr_tree[k] \in ItemType \cup {None}
  /\ \A b \in Bucket : /\ data[b] = None \/ (data[b] \in Seq(RecordType) /\ Len(data[b]) <= max_bucket_size)
                       /\ tmp[b] = None \/ tmp[b] \in Seq(RecordType)
                       /\ hint[b] = None \/ hint[b] \in Seq(EntryType)
                       /\ link[b] \in Bucket \cup {None} /\ buckets[b] \in -1 .. max_bucket_size
  /\ updating_bucket \in Bucket \cup {-1} /\ curr \in Bucket
  /\ wbuf \in Seq(RecordType) /\ write_lock \in {None, "set", "gc"}
  /\ gc.i \in 0 .. MaxBucket /\ gc.last \in -1 .. MaxBucket
  /\ \A r \in Reader : rd[r].pc \in {"idle", "check", "buffer", "tmp", "open", "again", "remove"}

\* The records of bucket b: those under its path, in the .tmp file that readers are
\* sent to, or in the file that is about to get this number; and in the write buffer.
records(b) ==
  LET file == IF updating_bucket = b /\ tmp[b] # None THEN tmp[b]
              ELSE IF moving /\ b = gc.last THEN content(data[gc.i])
              ELSE at(b)
      current == b = curr \/ (pc # "off" /\ gc.phase = "final" /\ b = gc.last)
  IN IF current THEN content(data[curr]) \o wbuf ELSE file

\* The item that bc_get goes by.
lookup(k) == IF tree[k] # None /\ tree[k].b = updating_bucket THEN updating_tree[k] ELSE tree[k]

\* Compaction loses no value, brings none back, and confuses none: at every moment
\* the index leads to the last value stored under each key, and to none for a key
\* that was deleted.
NothingLost ==
  \A k \in Key :
    IF want[k] = None THEN ~live(tree[k])
    ELSE /\ live(lookup(k)) /\ lookup(k).b <= curr
         /\ has(records(lookup(k).b), lookup(k).p, k)
         /\ records(lookup(k).b)[lookup(k).p + 1].val = want[k]

\* No bc_get fails to find the record of a key it found in the index; it would then
\* remove the key.
NoFailedRead == \A r \in Reader : rd[r].pc # "remove"

\* What a restart makes of the data files alone, read in the order of their numbers,
\* and of the write buffer, if it has been written by then.
on_disk == FlattenSeq([n \in 1 .. curr + 1 |-> content(data[n - 1])]) \o wbuf
recovered(log, k) == LET mine == SelectSeq(log, LAMBDA x : x.k = k)
                     IN IF mine = <<>> \/ Last(mine).ver < 0 THEN None ELSE Last(mine).val

\* If the process dies during a compaction, the data files still hold the last value
\* of every key, and no deleted key comes back.  The exception is the moment between
\* mgr_unlink and mgr_rename of a file rewritten in place.
Recoverable ==
  (pc = "rename" /\ gc.phase = "self") \/ LET log == on_disk IN \A k \in Key : recovered(log, k) = want[k]

\* Every hint file that is not being replaced describes its data file: its entries
\* point to records of their keys, and every key of the index in that bucket is there.
HintsMatchData ==
  \A b \in 0 .. curr - 1 :
    (hint[b] # None /\ (\A h \in building : h.b # b) /\ (pc = "off" \/ b \notin {gc.i, gc.last})) =>
       /\ \A n \in 1 .. Len(hint[b]) : has(content(data[b]), hint[b][n].p, hint[b][n].k)
       /\ \A k \in Key : live(tree[k]) /\ tree[k].b = b =>
            LET mine == SelectSeq(hint[b], LAMBDA e : e.k = k)
            IN mine # <<>> /\ Last(mine).p = tree[k].p

\* The table of buckets agrees with the files when bc_optimize compares them.
BucketsMatchFiles ==
  pc \in {"off", "bucket", "open"} => \A b \in Bucket : (buckets[b] >= 0) = (data[b] # None)

\* Once compaction has dealt with a bucket, all its numbers up to the last are in
\* use and those between it and the next bucket are free: numbers are not used up.
NumbersReused ==
  pc = "bucket" => \A b \in 0 .. gc.i - 1 : (data[b] # None) = (b <= gc.last)

\* bc_optimize never gives up on a file, neither because the table of buckets is
\* wrong nor because a file does not fit into itself.
NeverFails == [][(pc \in {"open", "scan"}) => pc' # "off"]_vars
=============================================================================

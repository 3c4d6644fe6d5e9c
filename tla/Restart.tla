------------------------------ MODULE Restart ------------------------------
(***************************************************************************)
(* What a bitcask keeps on disk, and what it makes of it when it starts.   *)
(*                                                                         *)
(* The process may die between any two writes to the disk.  A call of      *)
(* bc_set or bc_get is one step here (module Bitcask has their             *)
(* interleavings); bc_flush, bc_close, the hint threads and the start      *)
(* (bc_open2, skip_empty_file, bc_scan) are split at their writes.         *)
(*                                                                         *)
(* Every record has size 1, and any flush may be the one that fills its    *)
(* bucket, so that sizes do not matter.  curr_bytes is 0 exactly when      *)
(* wbuf_start_pos is: bc_flush adds to both, bc_rotate resets both.        *)
(***************************************************************************)
EXTENDS Versions, Sequences, FiniteSets, FiniteSetsExt, Functions

CONSTANTS
  Key,
  VersionArg,         \* the version arguments of set commands
  MAX_BUCKET_COUNT,
  SAVE_HTREE_LIMIT,
  check_file_size     \* settings.check_file_size, option -C

ASSUME RestartAssumption ==
  /\ MAX_BUCKET_COUNT \in Nat \ {0} /\ SAVE_HTREE_LIMIT \in Nat
  /\ VersionArg \subseteq CInt /\ check_file_size \in BOOLEAN /\ "none" \notin Key

VARIABLES
  \* the disk; the domain of each function is the set of files that exist
  data,             \* the records of each data file
  hint,             \* the index in each hint file
  htree,            \* the snapshots: the index, and whether the file is as new as the hint
  buckets_txt,      \* buckets.txt; a missing or empty file is the empty function
  \* struct bitcask_t
  tree, curr_tree, curr, buckets, last_snapshot,
  write_buffer, wbuf_start_pos, flush_buffer, fbuf_start_pos, flushing_bucket,
  building,         \* the hint threads that have not written their file yet
  \* where the process is
  status, flushing, \* the next write of bc_flush
  i, last, skipping, \* the locals of skip_empty_file and bc_scan
  exposed           \* history: buckets.txt was made to disagree with the files, or
                    \* the files with buckets.txt, and the other has not followed

disk == <<data, hint, htree, buckets_txt>>
index == <<tree, curr_tree, curr, last_snapshot>>
buffers == <<write_buffer, wbuf_start_pos, flush_buffer, fbuf_start_pos, flushing_bucket, flushing>>
scan == <<i, last, skipping>>
vars == <<disk, index, buffers, buckets, building, status, scan, exposed>>

Bucket == 0 .. MAX_BUCKET_COUNT - 1

\* The blocks of a record that was cut off: no key, never decoded.
Junk == [key |-> "none", ver |-> 0]
Record == [key : Key, ver : Int \ {0}]

NoItem == [bucket |-> -1, off |-> -1, ver |-> 0]
Item == [bucket : Bucket, off : Nat, ver : Int \ {0}] \cup {NoItem}
Tree == [Key -> Item]
EmptyTree == [k \in Key |-> NoItem]

without(f, b) == [x \in DOMAIN f \ {b} |-> f[x]]
with(f, b, v) == [x \in DOMAIN f \cup {b} |-> IF x = b THEN v ELSE f[x]]
size_on_disk(b) == IF b \in DOMAIN data THEN Len(data[b]) ELSE -1
sizes_on_disk == [b \in Bucket |-> size_on_disk(b)]

DataOK == DOMAIN data \subseteq Bucket /\ \A b \in DOMAIN data : data[b] \in Seq(Record \cup {Junk})
HintOK == DOMAIN hint \subseteq Bucket /\ \A b \in DOMAIN hint : hint[b] \in Tree
HTreeOK ==
  DOMAIN htree \subseteq Bucket /\ \A b \in DOMAIN htree : htree[b] \in [tree : Tree, fresh : BOOLEAN]
ListOK == DOMAIN buckets_txt \subseteq Bucket /\ \A b \in DOMAIN buckets_txt : buckets_txt[b] \in Nat

IndexOK ==
  /\ tree \in Tree /\ curr_tree \in Tree /\ curr \in 0 .. MAX_BUCKET_COUNT
  /\ last_snapshot \in Bucket \cup {-1}
BucketsOK == buckets \in [Bucket -> Nat \cup {-1}]
BuildingOK == \A h \in building : h \in [bucket : Bucket, tree : Tree]
BuffersOK ==
  /\ write_buffer \in Seq(Record) /\ wbuf_start_pos \in Nat
  /\ flush_buffer \in Seq(Record) /\ fbuf_start_pos \in Nat /\ flushing_bucket \in Bucket \cup {-1}
  /\ flushing \in {"idle", "new_data", "fopen", "dump", "fclose"}
ControlOK ==
  /\ status \in {"down", "refused", "skip", "scan", "open", "closing", "exited"}
  /\ i \in 0 .. MAX_BUCKET_COUNT /\ last \in 0 .. MAX_BUCKET_COUNT
  /\ skipping \in {"data", "hint", "htree"} /\ exposed \in BOOLEAN

TypeOK ==
  /\ DataOK /\ HintOK /\ HTreeOK /\ ListOK
  /\ IndexOK /\ BucketsOK /\ BuildingOK /\ BuffersOK /\ ControlOK

-----------------------------------------------------------------------------
\* bc_open2, and what is left in memory when the process is gone: nothing.
fresh_memory ==
  /\ tree' = EmptyTree /\ curr_tree' = EmptyTree /\ curr' = 0 /\ last_snapshot' = -1
  /\ buckets' = [b \in Bucket |-> -1] /\ building' = {}
  /\ write_buffer' = <<>> /\ wbuf_start_pos' = 0 /\ flush_buffer' = <<>> /\ fbuf_start_pos' = 0
  /\ flushing_bucket' = -1 /\ flushing' = "idle"
  /\ i' = 0 /\ last' = 0 /\ skipping' = "data"

Init ==
  /\ data = <<>> /\ hint = <<>> /\ htree = <<>> /\ buckets_txt = <<>>
  /\ tree = EmptyTree /\ curr_tree = EmptyTree /\ curr = 0 /\ last_snapshot = -1
  /\ buckets = [b \in Bucket |-> -1] /\ building = {}
  /\ write_buffer = <<>> /\ wbuf_start_pos = 0 /\ flush_buffer = <<>> /\ fbuf_start_pos = 0
  /\ flushing_bucket = -1 /\ flushing = "idle"
  /\ i = 0 /\ last = 0 /\ skipping = "data"
  /\ status = "down" /\ exposed = FALSE

\* dump_buckets
dumped(sizes) == [b \in {x \in Bucket : sizes[x] >= 0} |-> sizes[b]]

\* A snapshot stays newer than a hint file that is written after it only when
\* both are written in the same second.
hint_touched(b) ==
  htree' \in IF b \in DOMAIN htree THEN {htree, [htree EXCEPT ![b].fresh = FALSE]} ELSE {htree}

-----------------------------------------------------------------------------
(* bc_set, bc_get *)

\* bc_rotate, when next_tree is what the next curr_tree begins with.
bc_rotate(next_tree) ==
  /\ hint' = without(hint, curr)
  /\ building' = building \cup {[bucket |-> curr, tree |-> curr_tree]}
  /\ buckets' = [buckets EXCEPT ![curr] = IF curr \in DOMAIN data THEN Len(data[curr]) ELSE @]
  /\ buckets_txt' = IF curr \in DOMAIN data THEN dumped(buckets') ELSE buckets_txt
  /\ curr' = curr + 1 /\ curr_tree' = next_tree

\* bc_set appends a record; if it is too large for the buffer it has flushed,
\* and may rotate.
SetAppend(k, n) ==
  LET ver == NewVersion(n, tree[k].ver)
      rec == [key |-> k, ver |-> ver]
      here == [bucket |-> curr, off |-> wbuf_start_pos + Len(write_buffer), ver |-> ver]
      next == [bucket |-> curr + 1, off |-> 0, ver |-> ver]
  IN /\ status = "open" /\ ver # 0 /\ curr \in Bucket
     /\ \/ /\ write_buffer' = Append(write_buffer, rec)
           /\ curr_tree' = [curr_tree EXCEPT ![k] = here]
           /\ tree' = [tree EXCEPT ![k] = here]
           /\ UNCHANGED <<curr, hint, building, buckets, buckets_txt, wbuf_start_pos>>
        \/ /\ write_buffer = <<>> /\ flushing = "idle" /\ curr + 1 \in Bucket
           /\ bc_rotate([EmptyTree EXCEPT ![k] = next])
           /\ write_buffer' = <<rec>> /\ wbuf_start_pos' = 0
           /\ tree' = [tree EXCEPT ![k] = next]
     /\ UNCHANGED <<data, htree, last_snapshot, flush_buffer, fbuf_start_pos, flushing_bucket, flushing,
                    status, scan, exposed>>

\* What bc_get finds at a position: the write buffer, the flush buffer, the file.
at(item) ==
  LET inw == item.bucket = curr /\ item.off >= wbuf_start_pos
      inf == item.bucket = flushing_bucket /\ item.off >= fbuf_start_pos
      s == IF inw THEN write_buffer ELSE IF inf THEN flush_buffer
           ELSE IF item.bucket \in DOMAIN data THEN data[item.bucket] ELSE <<>>
      p == item.off - (IF inw THEN wbuf_start_pos ELSE IF inf THEN fbuf_start_pos ELSE 0)
  IN IF p < Len(s) THEN s[p + 1] ELSE Junk

\* bc_set finds the value it was given in place, and only raises the version.
SetRaise(k, n) ==
  LET ver == NewVersion(n, tree[k].ver)
      raised == [tree[k] EXCEPT !.ver = ver]
  IN /\ status = "open" /\ n > 0 /\ ver # 0
     /\ tree[k].ver > 0 /\ at(tree[k]).key = k
     /\ tree' = [tree EXCEPT ![k] = raised]
     /\ curr_tree' = IF tree[k].bucket = curr THEN [curr_tree EXCEPT ![k] = raised] ELSE curr_tree
     /\ UNCHANGED <<disk, curr, last_snapshot, buffers, buckets, building, status, scan, exposed>>

\* bc_get removes a key whose record it cannot read.
GetFails(k) ==
  /\ status = "open" /\ tree[k].ver > 0 /\ at(tree[k]).key # k
  /\ tree' = [tree EXCEPT ![k] = NoItem]
  /\ UNCHANGED <<disk, curr_tree, curr, last_snapshot, buffers, buckets, building, status, scan, exposed>>

-----------------------------------------------------------------------------
(* bc_flush and the hint threads *)

\* bc_flush takes the write buffer; if that fills the bucket it rotates.
FlushBegin ==
  /\ status = "open" /\ flushing = "idle" /\ write_buffer # <<>> /\ curr \in Bucket
  /\ flushing_bucket' = curr /\ flush_buffer' = write_buffer /\ fbuf_start_pos' = wbuf_start_pos
  /\ write_buffer' = <<>> /\ flushing' = "new_data"
  /\ \/ /\ wbuf_start_pos' = wbuf_start_pos + Len(write_buffer)
        /\ UNCHANGED <<curr, curr_tree, hint, building, buckets, buckets_txt>>
     \/ bc_rotate(EmptyTree) /\ wbuf_start_pos' = 0
  /\ UNCHANGED <<data, htree, tree, last_snapshot, status, scan, exposed>>

\* new_data
FlushNewData ==
  LET b == flushing_bucket
  IN /\ flushing = "new_data" /\ status = "open"
     /\ IF buckets[b] >= 0 THEN UNCHANGED <<status, buckets, buckets_txt>>
        ELSE IF b \in DOMAIN data THEN status' = "exited" /\ UNCHANGED <<buckets, buckets_txt>>
        ELSE /\ buckets' = [buckets EXCEPT ![b] = 0] /\ buckets_txt' = dumped(buckets')
             /\ UNCHANGED status
     /\ exposed' = (flushing_bucket \notin DOMAIN data)
     /\ flushing' = "fopen"
     /\ UNCHANGED <<data, hint, htree, index, write_buffer, wbuf_start_pos, flush_buffer, fbuf_start_pos,
                    flushing_bucket, building, scan>>

\* fopen creates the file; ftello tells where the buffer goes.
FlushOpen ==
  LET b == flushing_bucket
  IN /\ flushing = "fopen" /\ status = "open"
     /\ data' = IF b \in DOMAIN data THEN data ELSE with(data, b, <<>>)
     /\ status' = IF fbuf_start_pos > 0 /\ fbuf_start_pos # Len(data'[b]) THEN "exited" ELSE status
     /\ flushing' = "dump" /\ exposed' = FALSE
     /\ UNCHANGED <<hint, htree, buckets_txt, index, write_buffer, wbuf_start_pos, flush_buffer,
                    fbuf_start_pos, flushing_bucket, buckets, building, scan>>

\* Mutant: the size of the bucket is not kept up to date.
FlushDumpForgets ==
  /\ flushing = "dump" /\ status = "open"
  /\ flushing' = "fclose"
  /\ UNCHANGED <<disk, buckets, index, write_buffer, wbuf_start_pos, flush_buffer, fbuf_start_pos,
                 flushing_bucket, building, status, scan, exposed>>

\* The new size, and buckets.txt for a new file or once an hour.
FlushDump ==
  LET b == flushing_bucket
  IN /\ flushing = "dump" /\ status = "open"
     /\ buckets' = [buckets EXCEPT ![b] = Len(data[b]) + Len(flush_buffer)]
     /\ buckets_txt' \in {dumped(buckets')} \cup IF data[b] = <<>> THEN {} ELSE {buckets_txt}
     /\ flushing' = "fclose"
     /\ UNCHANGED <<data, hint, htree, index, write_buffer, wbuf_start_pos, flush_buffer, fbuf_start_pos,
                    flushing_bucket, building, status, scan, exposed>>

\* By fclose the buffer is in the file; the flush buffer is dropped.
FlushClose ==
  /\ flushing = "fclose" /\ status = "open"
  /\ data' = [data EXCEPT ![flushing_bucket] = @ \o flush_buffer]
  /\ flushing_bucket' = -1 /\ flush_buffer' = <<>> /\ fbuf_start_pos' = 0 /\ flushing' = "idle"
  /\ UNCHANGED <<hint, htree, buckets_txt, index, write_buffer, wbuf_start_pos, buckets, building,
                 status, scan, exposed>>

\* A hint thread: the new file replaces the old one by a rename.
build_hint(h) ==
  /\ status \in {"open", "closing"} /\ building' = building \ {h}
  /\ hint' = with(hint, h.bucket, h.tree) /\ hint_touched(h.bucket)
  /\ UNCHANGED <<data, buckets_txt, index, buffers, buckets, status, scan, exposed>>

-----------------------------------------------------------------------------
(* bc_close, and the end of a process in any other way *)

\* bc_close, once its bc_flush has emptied the buffer.
CloseHint ==
  /\ status = "open" /\ flushing = "idle" /\ write_buffer = <<>> /\ curr \in Bucket
  /\ buckets' = [buckets EXCEPT ![curr] = IF curr \in DOMAIN data THEN Len(data[curr]) ELSE @]
  /\ buckets_txt' = IF curr \in DOMAIN data THEN dumped(buckets') ELSE buckets_txt
  /\ IF wbuf_start_pos > 0 THEN hint' = with(hint, curr, curr_tree) /\ hint_touched(curr)
     ELSE UNCHANGED <<hint, htree>>
  /\ status' = "closing"
  /\ UNCHANGED <<data, index, buffers, building, scan, exposed>>

\* bc_close saves a snapshot if the last one is old.
CloseSave ==
  LET c == IF wbuf_start_pos = 0 THEN curr - 1 ELSE curr
  IN /\ status = "closing"
     /\ htree' = IF c - last_snapshot >= SAVE_HTREE_LIMIT
                 THEN without(with(htree, c, [tree |-> tree, fresh |-> TRUE]), last_snapshot)
                 ELSE htree
     /\ status' = "down" /\ fresh_memory
     /\ UNCHANGED <<data, hint, buckets_txt, exposed>>

\* How much of a write is on disk when the process dies in it.
torn(s) == {SubSeq(s, 1, n) : n \in 0 .. Len(s)} \cup {Append(SubSeq(s, 1, n), Junk) : n \in 0 .. Len(s) - 1}

\* A crash, a kill, or an exit of the process.
Crash ==
  /\ status \in {"skip", "scan", "open", "closing"}
  /\ IF flushing \in {"dump", "fclose"}
     THEN \E s \in torn(flush_buffer) : data' = [data EXCEPT ![flushing_bucket] = @ \o s]
     ELSE UNCHANGED data
  /\ status' = "down" /\ fresh_memory
  /\ UNCHANGED <<hint, htree, buckets_txt, exposed>>

\* A crash in dump_buckets, which truncates buckets.txt before it writes it.
CrashInDump ==
  /\ \/ status = "open" /\ (flushing \in {"new_data", "dump"} \/ write_buffer # <<>>)
     \/ status = "skip" /\ i = MAX_BUCKET_COUNT
  /\ buckets_txt' = <<>> /\ status' = "down" /\ fresh_memory
  /\ UNCHANGED <<data, hint, htree, exposed>>

-----------------------------------------------------------------------------
(* The start *)

\* The comparison of init_buckets, where txt is what buckets.txt says.
listed(txt, b) == IF b \in DOMAIN txt THEN txt[b] ELSE -1
sizes_match(txt, sizes) ==
  \A b \in Bucket :
    listed(txt, b) # sizes[b] => sizes[b] >= 0 /\ \A c \in DOMAIN txt : b >= c

\* bc_open2 with init_buckets
Open ==
  /\ status = "down"
  /\ buckets' = sizes_on_disk
  /\ status' = IF check_file_size /\ ~sizes_match(buckets_txt, buckets') THEN "refused" ELSE "skip"
  /\ UNCHANGED <<disk, index, buffers, building, scan, exposed>>

\* skip_empty_file, one bucket: remove an empty data file, or move a data file
\* down to the first free number.
SkipData ==
  /\ status = "skip" /\ skipping = "data" /\ i < MAX_BUCKET_COUNT
  /\ IF buckets[i] < 0 THEN i' = i + 1 /\ UNCHANGED <<data, last, skipping, exposed>>
     ELSE IF buckets[i] > 0 /\ i = last THEN i' = i + 1 /\ last' = last + 1
                                            /\ UNCHANGED <<data, skipping, exposed>>
     ELSE /\ data' = IF buckets[i] > 0 THEN without(with(data, last, data[i]), i) ELSE without(data, i)
          /\ skipping' = "hint" /\ exposed' = TRUE /\ UNCHANGED <<i, last>>
  /\ UNCHANGED <<hint, htree, buckets_txt, index, buffers, buckets, building, status>>

\* ... its hint file
SkipHint ==
  /\ status = "skip" /\ skipping = "hint" /\ skipping' = "htree"
  /\ IF buckets[i] > 0 /\ i \in DOMAIN hint
     THEN hint' = without(with(hint, last, hint[i]), i) /\ hint_touched(last)
     ELSE hint' = (IF buckets[i] = 0 THEN without(hint, i) ELSE hint) /\ UNCHANGED htree
  /\ UNCHANGED <<data, buckets_txt, index, buffers, buckets, building, status, i, last, exposed>>

\* ... and its snapshot.
SkipHTree ==
  /\ status = "skip" /\ skipping = "htree" /\ skipping' = "data"
  /\ htree' = without(htree, i)
  /\ buckets' = IF buckets[i] > 0 THEN [buckets EXCEPT ![last] = buckets[i], ![i] = -1]
                ELSE [buckets EXCEPT ![i] = -1]
  /\ last' = IF buckets[i] > 0 THEN last + 1 ELSE last
  /\ i' = i + 1
  /\ UNCHANGED <<data, hint, buckets_txt, index, buffers, building, status, exposed>>

\* bc_scan: dump_buckets, and the newest snapshot that is not older than its hint.
LoadSnapshot ==
  LET good == {b \in DOMAIN htree \cap DOMAIN hint : htree[b].fresh}
  IN /\ status = "skip" /\ i = MAX_BUCKET_COUNT
     /\ buckets_txt' = dumped(buckets)
     /\ last_snapshot' = IF good = {} THEN -1 ELSE Max(good)
     /\ tree' = IF good = {} THEN EmptyTree ELSE htree[Max(good)].tree
     /\ status' = "scan" /\ i' = 0 /\ exposed' = FALSE
     /\ UNCHANGED <<data, hint, htree, curr_tree, curr, buffers, buckets, building, last, skipping>>

\* The last record of each key in a data file: the tree of scanDataFile.
collect(b, s) ==
  [k \in Key |->
     LET at_k == {n \in DOMAIN s : s[n].key = k}
     IN IF at_k = {} THEN NoItem
        ELSE [bucket |-> b, off |-> Max(at_k) - 1, ver |-> s[Max(at_k)].ver]]

\* Mutant: tombstones are not applied.
applied_ignoring_tombstones(b, entries) ==
  [k \in Key |-> IF entries[k].ver > 0 THEN [entries[k] EXCEPT !.bucket = b] ELSE tree[k]]

\* Entries of bucket b go into the tree; a tombstone takes the key out.
applied(b, entries) ==
  [k \in Key |-> IF entries[k].ver = 0 THEN tree[k]
                 ELSE IF entries[k].ver > 0 THEN [entries[k] EXCEPT !.bucket = b] ELSE NoItem]

\* bc_scan, one data file: from its hint file, or from its records.
ScanBucket ==
  /\ status = "scan" /\ i < MAX_BUCKET_COUNT /\ i \in DOMAIN data
  /\ IF i <= last_snapshot THEN UNCHANGED <<tree, hint, htree>>
     ELSE IF i \in DOMAIN hint THEN tree' = applied(i, hint[i]) /\ UNCHANGED <<hint, htree>>
     ELSE /\ tree' = applied(i, collect(i, data[i]))
          /\ hint' = with(hint, i, collect(i, data[i])) /\ hint_touched(i)
  /\ i' = i + 1
  /\ UNCHANGED <<data, buckets_txt, curr_tree, curr, last_snapshot, buffers, buckets, building, status,
                 last, skipping, exposed>>

\* Mutant: the last data file is taken for the current one.
ScanEndLow ==
  /\ status = "scan" /\ (i = MAX_BUCKET_COUNT \/ i \notin DOMAIN data)
  /\ curr' = (IF i > 0 THEN i - 1 ELSE 0) /\ status' = "open"
  /\ UNCHANGED <<disk, last_snapshot, tree, curr_tree, buffers, buckets, building, scan, exposed>>

\* bc_scan ends at the first number without a data file.
ScanEnd ==
  /\ status = "scan" /\ (i = MAX_BUCKET_COUNT \/ i \notin DOMAIN data)
  /\ IF i - last_snapshot > SAVE_HTREE_LIMIT
     THEN /\ htree' = without(with(htree, i - 1, [tree |-> tree, fresh |-> TRUE]), last_snapshot)
          /\ last_snapshot' = i - 1
     ELSE UNCHANGED <<htree, last_snapshot>>
  /\ curr' = i /\ status' = "open"
  /\ UNCHANGED <<data, hint, buckets_txt, tree, curr_tree, buffers, buckets, building, scan, exposed>>

Start == Open \/ SkipData \/ SkipHint \/ SkipHTree \/ LoadSnapshot \/ ScanBucket \/ ScanEnd

Next ==
  \/ \E k \in Key, n \in VersionArg : SetAppend(k, n) \/ SetRaise(k, n)
  \/ \E k \in Key : GetFails(k)
  \/ FlushBegin \/ FlushNewData \/ FlushOpen \/ FlushDump \/ FlushClose
  \/ \E h \in building : build_hint(h)
  \/ CloseHint \/ CloseSave \/ Crash \/ CrashInDump
  \/ Start

Spec == Init /\ [][Next]_vars

-----------------------------------------------------------------------------
(* Properties *)

\* What bucket b will hold once the flush in progress is done, and once the
\* write buffer is flushed too.
contents(b) ==
  LET s == IF b \in DOMAIN data THEN data[b] ELSE <<>>
      f == IF b = flushing_bucket THEN flush_buffer ELSE <<>>
      w == IF status = "open" /\ b = curr THEN write_buffer ELSE <<>>
  IN s \o f \o w

place(item) == <<item.bucket, item.off>>

\* The last record of key k in the order in which records were written.
latest(k) ==
  LET bs == {b \in Bucket : \E n \in DOMAIN contents(b) : contents(b)[n].key = k}
  IN IF bs = {} THEN NoItem ELSE collect(Max(bs), contents(Max(bs)))[k]

\* Every hint file lists the last record of each key of its data file, with its
\* version or a version that bc_set raised it to.
HintsHonest ==
  \A b \in DOMAIN hint \cap DOMAIN data : \A k \in Key :
    LET e == collect(b, contents(b))[k]
    IN /\ hint[b][k].off = e.off /\ hint[b][k].ver >= e.ver
       /\ hint[b][k].ver > 0 <=> e.ver > 0

(***************************************************************************)
(* With -C, whatever crashes and restarts came before: while the hint      *)
(* files agree with their data files, the index of a running store names   *)
(* for each key its last record, if that is not a tombstone (bc_scan,      *)
(* skip_empty_file, bc_close and the snapshots together).  Without -C a    *)
(* crash between the move of a data file and that of its hint file leaves  *)
(* a snapshot that names the old number.                                   *)
(***************************************************************************)
IndexIsRecovered ==
  status = "open" /\ check_file_size /\ HintsHonest =>
    \A k \in Key : IF latest(k).ver > 0
                   THEN place(tree[k]) = place(latest(k)) /\ tree[k].ver >= latest(k).ver
                   ELSE tree[k].ver <= 0

(***************************************************************************)
(* The process never stops with "should not exist" (new_data) or "last pos *)
(* not match" (bc_flush): after any crash the numbers and sizes bc_scan    *)
(* leaves in memory fit the files.                                         *)
(***************************************************************************)
NeverExits == status # "exited"

(***************************************************************************)
(* With -C, init_buckets refuses a store only after a crash in one of two  *)
(* windows: between dump_buckets in new_data and the fopen that creates    *)
(* the file, or between the first change that skip_empty_file makes and    *)
(* the dump_buckets after it.                                              *)
(***************************************************************************)
RefusedOnlyIfExposed == status = "refused" => exposed

(***************************************************************************)
(* The inductive invariant behind the last two: how the sizes in memory,   *)
(* the positions of the buffers and buckets.txt relate to the data files   *)
(* between any two writes to the disk.                                     *)
(***************************************************************************)
held(b) == IF b \in DOMAIN data THEN Len(data[b]) ELSE 0

\* skip_empty_file has made files 0 .. last - 1 of those before i.  Between the
\* move of a data file and its new entry in buckets, the two differ.
Skipping ==
  /\ last <= i
  /\ \A b \in Bucket : b < last => buckets[b] > 0
  /\ \A b \in Bucket : last <= b /\ b < i => buckets[b] = -1
  /\ skipping = "data" => \A b \in Bucket : buckets[b] = size_on_disk(b)
  /\ skipping # "data" =>
       /\ i \in Bucket /\ buckets[i] >= 0 /\ i \notin DOMAIN data
       /\ buckets[i] > 0 => last < i /\ size_on_disk(last) = buckets[i]
       /\ \A b \in Bucket \ {i} : b # last \/ buckets[i] = 0 => buckets[b] = size_on_disk(b)

\* bc_scan finds the data files 0 .. last - 1.
Scanning ==
  /\ i <= last /\ DOMAIN data = 0 .. last - 1
  /\ \A b \in Bucket : buckets[b] = size_on_disk(b)

\* No data file is beyond the current bucket, and each buffer starts where the
\* file ends, or will end.
Serving ==
  /\ \A b \in DOMAIN data : b <= curr
  /\ flushing = "idle" => flushing_bucket = -1 /\ wbuf_start_pos = held(curr)
  /\ flushing # "idle" =>
       /\ flushing_bucket \in Bucket /\ fbuf_start_pos = held(flushing_bucket)
       /\ \/ curr = flushing_bucket /\ wbuf_start_pos = fbuf_start_pos + Len(flush_buffer)
          \/ curr = flushing_bucket + 1 /\ wbuf_start_pos = 0 /\ curr \notin DOMAIN data
  /\ flushing \in {"dump", "fclose"} => flushing_bucket \in DOMAIN data
  /\ \A b \in Bucket : b # flushing_bucket => buckets[b] = size_on_disk(b)
  /\ flushing = "new_data" => buckets[flushing_bucket] = size_on_disk(flushing_bucket)
  /\ flushing \in {"fopen", "dump"} => buckets[flushing_bucket] = held(flushing_bucket)
  /\ flushing = "fclose" => buckets[flushing_bucket] = held(flushing_bucket) + Len(flush_buffer)

\* What is in memory when no buffer is in use.
Quiet == flushing = "idle" /\ flushing_bucket = -1 /\ wbuf_start_pos = 0

Sizes ==
  /\ status = "down" => Quiet /\ i = 0 /\ last = 0 /\ skipping = "data"
  /\ status = "skip" => Quiet /\ Skipping
  /\ status = "scan" => Quiet /\ Scanning
  /\ status = "open" => Serving
  /\ status = "closing" => flushing = "idle" /\ curr \in Bucket
  /\ NeverExits

\* buckets.txt passes the comparison of init_buckets, but in the two windows.
Listed ==
  /\ ~exposed => sizes_match(buckets_txt, sizes_on_disk)
  /\ status \in {"scan", "closing"} => ~exposed
  /\ status = "open" =>
       /\ exposed <=> flushing = "fopen" /\ flushing_bucket \notin DOMAIN data
       /\ exposed => buckets_txt = dumped(buckets)
  /\ RefusedOnlyIfExposed

IInv == TypeOK /\ Sizes /\ Listed

(***************************************************************************)
(* A hint file never names a record that its data file does not hold, once *)
(* the process is gone (python_tests/base.py, check_data_hint_integrity).  *)
(***************************************************************************)
DataCoversHint ==
  status = "down" =>
    \A b \in DOMAIN hint \cap DOMAIN data : \A k \in Key : hint[b][k].off < Len(data[b])

(***************************************************************************)
(* "caller guarantee newpath not exist": when skip_empty_file moves a hint *)
(* file, no hint file has the new name (diskmgr.c, mgr_rename).            *)
(***************************************************************************)
RenameTargetFree ==
  status = "skip" /\ skipping = "hint" /\ buckets[i] > 0 /\ i \in DOMAIN hint => last \notin DOMAIN hint
=============================================================================

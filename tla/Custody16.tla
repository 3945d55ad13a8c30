------------------------------ MODULE Custody16 ------------------------------
(***************************************************************************)
(* The Custody16 program (adapters/termux_linux and the core it feeds):    *)
(* it scans a tree of files twice, and if both scans agree seals what it   *)
(* saw and writes the seal, an archive of it and a digest of both.  Other  *)
(* programs change the files meanwhile; the program may be killed, or the  *)
(* power may fail, at any moment, and it is then run again.                *)
(*                                                                         *)
(* A byte of a file is known by the change that wrote it, so that no two   *)
(* changes write the same; hashes are what they are computed from.         *)
(***************************************************************************)
EXTENDS Integers, Sequences, SequencesExt, FiniteSets

CONSTANTS Root,       \* the directory scanned
          Children,   \* the entries of each directory, in the order of strcmp
          Links,      \* entries that are symbolic links
          Absent,     \* what a file that is not there has for bytes
          BaseLane,   \* the lane a path's CRC selects
          LaneBytes, Lanes,     \* 16 and 16
          IoBytes,    \* most bytes of one read, IO_BYTES
          MaxDepth, MaxEntries, \* MAX_DEPTH and MAX_ENTRIES
          FileLengths, \* bound: the lengths each file may have
          MaxChanges, \* bound: changes of files
          MaxRuns     \* bound: runs of the program

Dirs == DOMAIN Children
Entries == UNION {Range(Children[d]) : d \in Dirs}
Files == Entries \ (Dirs \cup Links)

ASSUME Custody16Assumption ==
  /\ Root \in Dirs /\ Links \subseteq Entries /\ Links \cap Dirs = {}
  /\ LaneBytes \in Nat \ {0} /\ Lanes \in Nat \ {0} /\ IoBytes \in Nat \ {0}
  /\ BaseLane \in [Entries -> 0 .. Lanes - 1]
  /\ FileLengths \in [Files -> SUBSET Nat]
  /\ \A d \in Dirs : Children[d] \in Seq(Entries)
  \* A directory tree: each entry has one place, and the depth is finite.
  /\ Root \notin Entries
  /\ \A d, e \in Dirs : \A i \in DOMAIN Children[d], j \in DOMAIN Children[e] :
       Children[d][i] = Children[e][j] => d = e /\ i = j
  /\ IsFiniteSet(Dirs)
  /\ \E height \in [Dirs -> 0 .. Cardinality(Dirs)] :
       \A d \in Dirs : \A e \in Range(Children[d]) \cap Dirs : height[e] < height[d]

VARIABLES
  tree,    \* the bytes of each file, or Absent
  lengths, \* the lengths each file has had
  changes, \* how many changes there were
  quiet,   \* history: whether nothing changed since the run began
  statx,   \* whether the kernel has statx
  run,     \* the number of the run
  pc,      \* "idle", "scan", "count", "begin", "data", "compare", "write" or the outcome
  stack,   \* what is left of each directory being scanned, innermost first
  fd,      \* the open file: its name, position, and bytes if it is no longer in the tree
  ctx,     \* rmr_fc16_context of the scan that runs
  first,   \* once the first scan ended, what it saw and (history) the tree at that moment
  disk,    \* the runs whose seal and archive the three written files hold or name
  had,     \* what each of them has held since the power last failed
  writing  \* the files still to be written

environment == <<tree, lengths, changes, quiet, statx>>
vars == <<environment, run, pc, stack, fd, ctx, first, disk, had, writing>>

Outcomes == {"OK", "ERR_STATE", "ERR_SIZE", "ERR_CAPACITY", "ERR_THERMAL", "MISMATCH", "killed"}
Ended == pc \in {"idle"} \cup Outcomes

Torn == <<-1>>
NoFile == [name |-> "none", position |-> 0, gone |-> Absent, size |-> 0]
Length(bytes) == IF bytes = Absent THEN -1 ELSE Len(bytes)

-----------------------------------------------------------------------------
\* The core: a context logs all that it hashes, and what each lane hashes.
rmr_fc16_init ==
  [log |-> <<>>, lanes |-> [l \in 0 .. Lanes - 1 |-> <<>>], declared |-> 0, seen |-> 0, base |-> 0]

rmr_fc16_entry_begin(c, path, size, kind) ==
  [log |-> Append(c.log, <<"ENTR", path, size, kind>>),
   lanes |-> [c.lanes EXCEPT ![BaseLane[path]] = Append(@, <<"ENTR", path, size, kind>>)],
   declared |-> size, seen |-> 0, base |-> BaseLane[path]]

\* Mutant of lane_of: a whole block is placed by its position in this call.
lane_of_call(c, start, whole) ==
  (c.base + (IF whole THEN start - 1 ELSE c.seen + start - 1) \div LaneBytes) % Lanes

\* The lane of the byte, or of the block that starts with the byte, at a
\* position of the data of this call.
lane_of(c, start, whole) == (c.base + (c.seen + start - 1) \div LaneBytes) % Lanes

\* Bytes one by one up to the end of a block, whole blocks, the other bytes
\* one by one; each at its place within the block, which its fold depends on.
placed(c, data) ==
  LET head == (LaneBytes - (c.seen % LaneBytes)) % LaneBytes
      blocks == IF Len(data) > head THEN (Len(data) - head) \div LaneBytes ELSE 0
      whole(i) == i > head /\ i <= head + blocks * LaneBytes
      start(i) == IF whole(i) THEN i - ((i - head - 1) % LaneBytes) ELSE i
  IN  [i \in DOMAIN data |->
         [lane |-> lane_of(c, start(i), whole(i)),
          item |-> <<data[i], IF whole(i) THEN i - start(i) ELSE (c.seen + i - 1) % LaneBytes>>]]

\* Bytes as the log has them.  The head of an entry has its size, which tells
\* where its bytes end: no byte is taken for the head or the end of an entry.
logged(data) == [i \in DOMAIN data |-> <<"DATA", data[i]>>]

rmr_fc16_entry_data(c, data) ==
  LET p == placed(c, data)
      onto(l) == FlattenSeq([i \in DOMAIN data |-> IF p[i].lane = l THEN <<p[i].item>> ELSE <<>>])
  IN  [c EXCEPT !.log = @ \o logged(data), !.seen = @ + Len(data),
         !.lanes = [l \in DOMAIN @ |-> @[l] \o onto(l)]]

rmr_fc16_entry_end(c, path) == [c EXCEPT !.log = Append(@, <<"ENDR", path, c.seen>>)]

\* Mutant of rmr_fc16_snapshot_equal: the counts of entries and bytes only.
equal_counts(a, b) == Len(a.log) = Len(b.log)

\* rmr_fc16_finalize, and the comparison of every field it fills.
rmr_fc16_finalize(c) == [log |-> c.log, lanes |-> c.lanes]
rmr_fc16_snapshot_equal(a, b) == a = b

-----------------------------------------------------------------------------
Init ==
  /\ tree \in {t \in [Files -> {Absent} \cup {[i \in 1 .. k |-> 0] : k \in UNION Range(FileLengths)}] :
               \A f \in Files : t[f] # Absent => Len(t[f]) \in FileLengths[f]}
  /\ lengths = [f \in Files |-> {Length(tree[f])}]
  /\ changes = 0 /\ quiet = TRUE /\ statx \in BOOLEAN
  /\ run = 0 /\ pc = "idle" /\ stack = <<>> /\ fd = NoFile
  /\ ctx = rmr_fc16_init /\ first = <<>> /\ writing = <<>>
  /\ disk = [w \in {"bin", "zip", "digest"} |-> <<>>]
  /\ had = [w \in DOMAIN disk |-> {<<>>}]

\* Another program writes bytes of a file in place, appends, truncates,
\* creates it, removes it or renames another over it.  It never brings back
\* a byte, a length or an absence: who looks twice sees what it did.  Bound:
\* during the first run; a run keeps nothing in memory of an earlier one.
Change ==
  /\ ~ Ended /\ run = 1 /\ changes < MaxChanges
  /\ \E f \in Files, replaced \in BOOLEAN :
     \E new \in {Absent} \cup UNION {[1 .. k -> 0 .. changes + 1] : k \in FileLengths[f]} :
       LET old == tree[f]
           kept(i) == ~ replaced /\ i <= Len(old) /\ new[i] = old[i]
       IN  /\ new # old
           /\ new = Absent \/ old = Absent => replaced
           /\ new # Absent => \A i \in DOMAIN new : new[i] = changes + 1 \/ kept(i)
           /\ Length(new) = Length(old) \/ Length(new) \notin lengths[f]
           /\ tree' = [tree EXCEPT ![f] = new]
           /\ lengths' = [lengths EXCEPT ![f] = @ \cup {Length(new)}]
           /\ fd' = IF fd.name = f /\ fd.gone = Absent /\ replaced THEN [fd EXCEPT !.gone = old] ELSE fd
  /\ changes' = changes + 1 /\ quiet' = FALSE
  /\ UNCHANGED <<statx, run, pc, stack, ctx, first, disk, had, writing>>

\* The program ends; what it had in memory is gone.
End(outcome) ==
  /\ pc' = outcome /\ stack' = <<>> /\ fd' = NoFile
  /\ ctx' = rmr_fc16_init /\ first' = <<>> /\ writing' = <<>>
  /\ UNCHANGED <<environment, run, disk, had>>

Start ==
  /\ Ended /\ run < MaxRuns
  /\ run' = run + 1 /\ pc' = "scan" /\ quiet' = TRUE
  /\ ctx' = rmr_fc16_init /\ first' = <<>>
  /\ UNCHANGED <<tree, lengths, changes, statx, stack, fd, disk, had, writing>>

\* What getdents returns, sorted, without what this program writes.  Only
\* files come and go.
there(e) == e \in Files => tree[e] # Absent
listed(d) ==
  FlattenSeq([i \in DOMAIN Children[d] |-> IF there(Children[d][i]) THEN <<Children[d][i]>> ELSE <<>>])

\* scan_dir of a directory inside those of frames, with the context c.
scan_dir(d, frames, c) ==
  IF Len(frames) >= MaxDepth \/ Len(listed(d)) > MaxEntries THEN End("ERR_CAPACITY")
  ELSE /\ stack' = <<listed(d)>> \o frames /\ ctx' = c
       /\ UNCHANGED <<environment, run, pc, fd, first, disk, had, writing>>

OpenRoot == pc = "scan" /\ stack = <<>> /\ scan_dir(Root, <<>>, ctx)

\* The entry of the innermost list that is next, and the lists without it.
entry == Head(Head(stack))
others == <<Tail(Head(stack))>> \o Tail(stack)
AtEntry == pc = "scan" /\ stack # <<>> /\ Head(stack) # <<>>

\* The entry of a directory or a link, which has no data.
bare(kind) == rmr_fc16_entry_end(rmr_fc16_entry_begin(ctx, entry, 0, kind), entry)

EnterDirectory == AtEntry /\ entry \in Dirs /\ scan_dir(entry, others, bare("DIRECTORY"))

SkipLink ==
  /\ AtEntry /\ entry \in Links
  /\ ctx' = bare("SYMLINK_SKIPPED") /\ stack' = others
  /\ UNCHANGED <<environment, run, pc, fd, first, disk, had, writing>>

\* statx gives the size; without statx, or if the file is gone since it was
\* listed, the file is opened to count its bytes.
StatFile ==
  /\ AtEntry /\ entry \in Files
  /\ IF tree[entry] = Absent THEN End("ERR_STATE")
     ELSE /\ pc' = IF statx THEN "begin" ELSE "count"
          /\ fd' = [NoFile EXCEPT !.name = entry, !.size = IF statx THEN Len(tree[entry]) ELSE 0]
          /\ UNCHANGED <<environment, run, stack, ctx, first, disk, had, writing>>

\* What reads go on to find: the bytes of the file that was opened.
content == IF fd.gone # Absent THEN fd.gone ELSE tree[fd.name]
left == Len(content) - fd.position

\* One read of count_file; the last one finds the end.
CountFile ==
  /\ pc = "count"
  /\ IF left <= 0
     THEN pc' = "begin" /\ fd' = [NoFile EXCEPT !.name = fd.name, !.size = fd.position]
     ELSE /\ \E k \in 1 .. IoBytes : k <= left /\ fd' = [fd EXCEPT !.position = @ + k]
          /\ UNCHANGED pc
  /\ UNCHANGED <<environment, run, stack, ctx, first, disk, had, writing>>

\* scan_file opens the file, anew after a count, and begins its entry.
BeginFile ==
  /\ pc = "begin"
  /\ IF tree[fd.name] = Absent THEN End("ERR_STATE")
     ELSE /\ pc' = "data"
          /\ fd' = [fd EXCEPT !.position = 0, !.gone = Absent]
          /\ ctx' = rmr_fc16_entry_begin(ctx, fd.name, fd.size, "REGULAR")
          /\ UNCHANGED <<environment, run, stack, first, disk, had, writing>>

ReadFile ==
  /\ pc = "data" /\ left > 0
  /\ \E k \in 1 .. IoBytes :
       /\ k <= left
       /\ IF ctx.seen + k > ctx.declared THEN End("ERR_SIZE")
          ELSE /\ ctx' = rmr_fc16_entry_data(ctx, SubSeq(content, fd.position + 1, fd.position + k))
               /\ fd' = [fd EXCEPT !.position = @ + k]
               /\ UNCHANGED <<environment, run, pc, stack, first, disk, had, writing>>

EndFile ==
  /\ pc = "data" /\ left <= 0
  /\ IF ctx.seen # fd.size THEN End("ERR_SIZE")
     ELSE /\ ctx' = rmr_fc16_entry_end(ctx, fd.name)
          /\ fd' = NoFile /\ stack' = others /\ pc' = "scan"
          /\ UNCHANGED <<environment, run, first, disk, had, writing>>

\* A directory is done, and with the root the scan: the first scan is
\* followed by the second, and the second by the comparison.
LeaveDirectory ==
  /\ pc = "scan" /\ stack # <<>> /\ Head(stack) = <<>>
  /\ stack' = Tail(stack)
  /\ \/ Len(stack) > 1 /\ UNCHANGED <<pc, ctx, first>>
     \/ /\ Len(stack) = 1 /\ first = <<>>
        /\ first' = <<[seen |-> rmr_fc16_finalize(ctx), tree |-> tree]>>
        /\ ctx' = rmr_fc16_init /\ UNCHANGED pc
     \/ Len(stack) = 1 /\ first # <<>> /\ pc' = "compare" /\ UNCHANGED <<ctx, first>>
  /\ UNCHANGED <<environment, run, fd, disk, had, writing>>

\* A call of the kernel fails, or a temperature is beyond its limits.
Fails ==
  \/ pc \in {"scan", "count", "begin", "data", "write"} /\ End("ERR_STATE")
  \/ pc = "compare" /\ End("ERR_THERMAL")

\* Seal what the first scan saw, and make the archive and the digest.
Compare ==
  /\ pc = "compare"
  /\ IF rmr_fc16_snapshot_equal(first[1].seen, rmr_fc16_finalize(ctx))
     THEN /\ pc' = "write" /\ writing' = <<"bin", "zip", "digest">>
          /\ UNCHANGED <<environment, run, stack, fd, ctx, first, disk, had>>
     ELSE End("MISMATCH")

\* Mutant of digest_make: of the archive twice.
digest_of_archive(seal, zip) == zip \o zip

\* The digest names the seal and the archive by their hashes.
digest_make(seal, zip) == seal \o zip

Store(w, bytes) ==
  /\ disk' = [disk EXCEPT ![w] = bytes]
  /\ had' = [had EXCEPT ![w] = @ \cup {bytes}]

\* write_file truncates a file, then writes it; then the next is written.
WriteFile ==
  /\ pc = "write"
  /\ LET w == Head(writing) IN
     IF disk[w] # Torn THEN Store(w, Torn) /\ UNCHANGED <<pc, writing>>
     ELSE /\ Store(w, IF w = "digest" THEN digest_make(<<run>>, <<run>>) ELSE <<run>>)
          /\ writing' = Tail(writing)
          /\ pc' = IF writing' = <<>> THEN "OK" ELSE pc
  /\ UNCHANGED <<environment, run, stack, fd, ctx, first>>

\* The program is killed, and what it wrote remains.
Killed == ~ Ended /\ End("killed")

\* The power fails: none of the files was synced, and each may have become
\* what it was before, or be written in part.  Bound: in the last run.
PowerFails ==
  /\ pc \in {"write", "OK"} /\ run = MaxRuns
  /\ pc' = "killed" /\ writing' = <<>> /\ stack' = <<>> /\ fd' = NoFile
  /\ ctx' = rmr_fc16_init /\ first' = <<>>
  /\ \E bin \in had["bin"] \cup {Torn}, zip \in had["zip"] \cup {Torn}, digest \in had["digest"] \cup {Torn} :
       disk' = [bin |-> bin, zip |-> zip, digest |-> digest]
  /\ had' = [w \in DOMAIN disk |-> {disk'[w]}]
  /\ UNCHANGED <<environment, run>>

Next == Change \/ Start \/ OpenRoot \/ EnterDirectory \/ SkipLink \/ StatFile \/ CountFile
        \/ BeginFile \/ ReadFile \/ EndFile \/ LeaveDirectory \/ Fails \/ Compare \/ WriteFile
        \/ Killed \/ PowerFails

Spec == Init /\ [][Next]_vars

-----------------------------------------------------------------------------
\* What a scan of a tree that stands still logs: an entry, then all below it.
record(e, size, kind, data) == << <<"ENTR", e, size, kind>> >> \o logged(data) \o << <<"ENDR", e, size>> >>

LogOf(t) ==
  LET log[e \in Entries \cup {Root}] ==
        IF e \in Links THEN record(e, 0, "SYMLINK_SKIPPED", <<>>)
        ELSE IF e \in Files
        THEN IF t[e] = Absent THEN <<>> ELSE record(e, Len(t[e]), "REGULAR", t[e])
        ELSE (IF e = Root THEN <<>> ELSE record(e, 0, "DIRECTORY", <<>>))
             \o FlattenSeq([i \in DOMAIN Children[e] |-> log[Children[e][i]]])
  IN  log[Root]

\* The seal is of a tree that existed: two scans, neither of which is atomic
\* and which other programs write under, agree only on what the whole tree was
\* at one moment, when the first had ended and the second had not begun.
SealedIsTreeBetween ==
  pc = "write" => first[1].seen.log = LogOf(first[1].tree)

\* The two scans of a tree that nothing changes agree, however the kernel
\* cuts the bytes of each read: how rmr_fc16_entry_data is called leaves no
\* trace in the lanes or the log, and no size check fails.
NoFalseAlarm == pc \in {"MISMATCH", "ERR_SIZE"} => ~ quiet

\* Whoever finds the three files, after any kill or power failure, and checks
\* that the digest names the seal and the archive has both of one run, though
\* write_file neither syncs nor renames and rewrites one after the other.
VerifiedFilesAreOneRun ==
  /\ disk["bin"] \notin {<<>>, Torn} /\ disk["zip"] \notin {<<>>, Torn}
  /\ disk["digest"] = digest_make(disk["bin"], disk["zip"])
  => disk["bin"] = disk["zip"]
=============================================================================

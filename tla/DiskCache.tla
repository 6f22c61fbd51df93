------------------------------ MODULE DiskCache ------------------------------
(***************************************************************************)
(* The on-disk pipeline cache (src/libs/vkd3d/cache.c).  The disk$ thread  *)
(* merges what the last session wrote into the read-only cache, loads it,  *)
(* and appends what this session compiles to a write file of its own.      *)
(* The process may be killed between any two steps; then the files stay    *)
(* and everything else is gone.                                            *)
(*                                                                         *)
(* One device uses the path.  A file is its whole entries up to the first  *)
(* one that is sliced or fails its checksum: every reader stops there.     *)
(* Data handed to the operating system survives a kill, data in a stdio    *)
(* buffer may be lost from any byte on.                                    *)
(***************************************************************************)
EXTENDS Naturals, Sequences, SequencesExt

CONSTANTS
  Pipeline,     \* keys of pipeline entries
  Shader,       \* keys of SPIR-V entries
  ShaderOf,     \* the SPIR-V entry a pipeline entry refers to
  Build,        \* driver and vkd3d builds, as the stream header records them
  NoBuild,      \* the header of a file that was cut inside it
  NoFile,       \* no file of that name, or no mapping
  MaxItems,     \* bound: queued pipelines
  MaxMishaps    \* bound: kills, teardowns during the setup, failed file
                \* operations and driver updates, all together

Key == Pipeline \cup Shader

ASSUME DiskCacheAssumption ==
  /\ Pipeline \cap Shader = {}
  /\ ShaderOf \in [Pipeline -> Shader]
  /\ NoBuild \notin Build
  /\ NoFile \notin [build : Build \cup {NoBuild}, entries : Seq(Key), sliced : BOOLEAN]
  /\ {MaxItems, MaxMishaps} \subseteq Nat

\* A stream archive: its header, its whole entries, and whether more bytes
\* follow the last of them.
Archive ==
  [build : Build \cup {NoBuild}, entries : Seq(Key), sliced : BOOLEAN]

VARIABLES
  read, write, merge,  \* the files <path>, <path>.write and <path>.merge
  build,               \* the build that runs now
  pc,                  \* where the disk$ thread is
  cancel,              \* stream_archive_cancellation_point
  thread_active,       \* cache->thread_active
  items,               \* cache->items
  lib,                 \* keys in pso_map and spirv_cache_map
  mapped,              \* mapped_write_cache
  pos,                 \* entries the current scan has passed
  seen,                \* the hash map of the merge
  added,               \* entries appended to merge_file, still in its buffer
  sink,                \* stream_archive_write_file: see Sink
  todo,                \* tmp_items
  wake,                \* why the thread woke up
  dirty,
  stale,               \* history: a merge file existed when the session began
  lost,                \* history: a stale merge file has been deleted
  pushed,              \* history: pipelines pushed in this session
  mishaps              \* history: what has gone wrong so far

files == <<read, write, merge>>
scan == <<mapped, pos, seen, added>>
output == <<sink, todo, wake, dirty>>
history == <<stale, lost, pushed>>
vars == <<files, build, pc, cancel, thread_active, items, lib, scan, output,
          history, mishaps>>

\* attempted: stream_archive_attempted_write; open: the file is open; pending:
\* entries in its buffer; broken: an earlier write failed, what follows it
\* cannot be read back.
Sink == [attempted : BOOLEAN, open : BOOLEAN, pending : Seq(Key), broken : BOOLEAN]
Closed == [attempted |-> FALSE, open |-> FALSE, pending |-> <<>>, broken |-> FALSE]

\* What goes wrong, and how often it has.
Mishap == {"kill", "haste", "merge error", "save error", "update"}
happens(mishap) ==
  /\ mishaps["kill"] + mishaps["haste"] + mishaps["merge error"]
       + mishaps["save error"] + mishaps["update"] < MaxMishaps
  /\ mishaps' = [mishaps EXCEPT ![mishap] = @ + 1]

Setup == {"promote", "map", "claim", "open", "discard", "replace", "scan",
          "append", "install", "drop_write", "drop_merge", "load", "parse"}

Init ==
  /\ read = NoFile /\ write = NoFile /\ merge = NoFile
  /\ build \in Build
  /\ pc = "off"
  /\ cancel = FALSE /\ thread_active = FALSE
  /\ items = <<>> /\ lib = {}
  /\ mapped = NoFile /\ pos = 0 /\ seen = {} /\ added = <<>>
  /\ sink = Closed /\ todo = <<>> /\ wake = "signal" /\ dirty = FALSE
  /\ stale = FALSE /\ lost = FALSE /\ pushed = {}
  /\ mishaps = [m \in Mishap |-> 0]

-----------------------------------------------------------------------------
(* Archives.                                                               *)

\* d3d12_pipeline_library_validate_stream_format_header succeeds.
valid(archive) == archive # NoFile /\ archive.build = build

\* What a reader of this build gets out of the file.
Stored(archive) == IF valid(archive) THEN ToSet(archive.entries) ELSE {}

\* Is there another entry header to read behind the first n entries?
more(archive, n) == n < Len(archive.entries) \/ archive.sliced

\* The file after new entries went to its buffer and n of them reached it
\* whole.  Bytes may follow: the rest of a sliced entry, also the old one's.
extended(archive, new, n) ==
  {[archive EXCEPT !.entries = @ \o SubSeq(new, 1, n), !.sliced = s] :
     s \in IF new = <<>> THEN {archive.sliced}
           ELSE IF n = Len(new) THEN {FALSE, archive.sliced}
           ELSE BOOLEAN}

\* fclose of merge_file when every write succeeds.
flushed(archive, new) == extended(archive, new, Len(new))

\* Mutant: nothing is flushed.
written_nothing == write

\* fflush or fclose of the write file: the header and all entries are there.
written ==
  [build |-> build, entries |-> write.entries \o sink.pending, sliced |-> sink.broken]

-----------------------------------------------------------------------------
(* Setup, on the disk$ thread: vkd3d_pipeline_library_disk_cache_merge.    *)

\* Mutant: after a promotion there is nothing left to do.
Promote_returns ==
  /\ pc = "promote"
  /\ IF write # NoFile /\ read = NoFile
     THEN read' = write /\ write' = NoFile /\ pc' = "load"
     ELSE UNCHANGED <<read, write>> /\ pc' = "map"
  /\ UNCHANGED <<merge, build, cancel, thread_active, items, lib, scan, output,
                 history, mishaps>>

\* Without a read-only cache the write cache becomes it.
Promote ==
  /\ pc = "promote"
  /\ IF write # NoFile /\ read = NoFile
     THEN read' = write /\ write' = NoFile /\ pc' = "drop_write"
     ELSE UNCHANGED <<read, write>> /\ pc' = "map"
  /\ UNCHANGED <<merge, build, cancel, thread_active, items, lib, scan, output,
                 history, mishaps>>

\* Map the write cache, which may fail, and look at its header.
Map ==
  /\ pc = "map"
  /\ \/ /\ IF valid(write)
           THEN mapped' = write /\ pc' = "claim"
           ELSE UNCHANGED mapped /\ pc' = "drop_write"
        /\ UNCHANGED mishaps
     \/ /\ write # NoFile /\ happens("merge error")
        /\ UNCHANGED mapped /\ pc' = "drop_write"
  /\ UNCHANGED <<files, build, cancel, thread_active, items, lib, pos, seen,
                 added, output, history>>

\* rename_no_replace(read_path, merge_path).
Claim ==
  /\ pc = "claim"
  /\ IF read # NoFile /\ merge = NoFile
     THEN merge' = read /\ read' = NoFile /\ pc' = "open"
     ELSE UNCHANGED <<read, merge>> /\ pc' = "drop_write"
  /\ UNCHANGED <<write, build, cancel, thread_active, items, lib, scan, output,
                 history, mishaps>>

\* Open the merge file and read its header.
Open ==
  /\ pc = "open"
  /\ pos' = 0
  /\ seen' = {}
  /\ \/ /\ pc' = IF valid(merge) THEN "scan" ELSE "discard"
        /\ UNCHANGED mishaps
     \/ /\ pc' = "drop_write"
        /\ happens("merge error")
  /\ UNCHANGED <<files, build, cancel, thread_active, items, lib, mapped, added,
                 output, history>>

\* The read-only cache is out of date: delete it, and promote the write cache.
Discard ==
  /\ pc = "discard"
  /\ merge' = NoFile
  /\ pc' = "replace"
  /\ UNCHANGED <<read, write, build, cancel, thread_active, items, lib, scan,
                 output, history, mishaps>>

\* rename_overwrite(write_path, read_path), whose failure changes nothing else.
Replace ==
  /\ pc = "replace"
  /\ \/ read' = write /\ write' = NoFile /\ UNCHANGED mishaps
     \/ happens("merge error") /\ UNCHANGED <<read, write>>
  /\ pc' = "drop_write"
  /\ UNCHANGED <<merge, build, cancel, thread_active, items, lib, scan, output,
                 history>>

\* Mutant: the scan of the write cache goes on where this one ended.
Scan_keeps_pos ==
  /\ pc = "scan"
  /\ cancel => pos = Len(merge.entries)
  /\ IF pos < Len(merge.entries)
     THEN /\ seen' = seen \cup {merge.entries[pos + 1]}
          /\ pos' = pos + 1
          /\ UNCHANGED pc
     ELSE pc' = "append" /\ UNCHANGED <<pos, seen>>
  /\ UNCHANGED <<files, build, cancel, thread_active, items, lib, mapped, added,
                 output, history, mishaps>>

\* The next entry of the merge file, if any, is remembered.  The teardown is
\* polled behind a whole header only, which a sliced entry may not have.
Scan ==
  /\ pc = "scan"
  /\ cancel => pos = Len(merge.entries)
  /\ IF pos < Len(merge.entries)
     THEN /\ seen' = seen \cup {merge.entries[pos + 1]}
          /\ pos' = pos + 1
          /\ UNCHANGED pc
     ELSE /\ pc' = "append"
          /\ pos' = 0
          /\ UNCHANGED seen
  /\ UNCHANGED <<files, build, cancel, thread_active, items, lib, mapped, added,
                 output, history, mishaps>>

\* The hash map of the merge does not have the key.
IsNew(key) == key \notin seen

\* The next entry of the write cache, if any, is appended unless the merge
\* file has it.  A failed write ends the loop, perhaps with a part of the entry.
AppendEntry ==
  /\ pc = "append"
  /\ cancel => pos = Len(mapped.entries)
  /\ IF pos = Len(mapped.entries)
     THEN pc' = "install" /\ UNCHANGED <<merge, pos, seen, added, mishaps>>
     ELSE LET key == mapped.entries[pos + 1] IN
          /\ pos' = pos + 1
          /\ seen' = seen \cup {key}
          /\ \/ /\ added' = IF IsNew(key) THEN Append(added, key) ELSE added
                /\ UNCHANGED <<pc, merge, mishaps>>
             \/ /\ IsNew(key)
                /\ pc' = "install"
                /\ merge' \in {merge, [merge EXCEPT !.sliced = TRUE]}
                /\ UNCHANGED added
                /\ happens("merge error")
  /\ UNCHANGED <<read, write, build, cancel, thread_active, items, lib, mapped,
                 output, history>>

\* Mutant: the clean-up of a finished merge follows.
out_cancellation_cleans_up == "drop_write"

\* What follows a merge that was cut short.
out_cancellation == "load"

\* Teardown was asked for: the merge file becomes the read-only cache again,
\* with what was appended to it, and the write cache stays.
MoveBack ==
  /\ \/ pc = "scan" /\ more(merge, pos)
     \/ pc = "append" /\ more(mapped, pos)
  /\ cancel
  /\ read' \in flushed(merge, added)
  /\ merge' = NoFile
  /\ pc' = out_cancellation
  /\ mapped' = NoFile
  /\ seen' = {}
  /\ added' = <<>>
  /\ UNCHANGED <<write, build, cancel, thread_active, items, lib, pos, output,
                 history, mishaps>>

\* fclose, then rename_overwrite(merge_path, read_path).  Neither is checked:
\* the buffer may not reach the file, and the rename may fail.
Install ==
  /\ pc = "install"
  /\ \/ /\ read' \in flushed(merge, added)
        /\ merge' = NoFile
        /\ UNCHANGED mishaps
     \/ /\ happens("merge error")
        /\ \/ /\ \E n \in 0..Len(added) : read' \in extended(merge, added, n)
              /\ merge' = NoFile
           \/ /\ merge' \in flushed(merge, added)
              /\ UNCHANGED read
  /\ added' = <<>>
  /\ pc' = "drop_write"
  /\ UNCHANGED <<write, build, cancel, thread_active, items, lib, mapped, pos,
                 seen, output, history>>

\* out: there shouldn't be any write cache left after merging.
DropWrite ==
  /\ pc = "drop_write"
  /\ write' = NoFile
  /\ mapped' = NoFile
  /\ pc' = "drop_merge"
  /\ UNCHANGED <<read, merge, build, cancel, thread_active, items, lib, pos, seen,
                 added, output, history, mishaps>>

\* Mutant: a stale merge file stays.
DropMerge_keeps ==
  /\ pc = "drop_merge"
  /\ seen' = {}
  /\ pc' = "load"
  /\ UNCHANGED <<files, build, cancel, thread_active, items, lib, mapped, pos,
                 added, output, history, mishaps>>

\* Delete a stale merge file, so that some thread can merge again.
DropMerge ==
  /\ pc = "drop_merge"
  /\ merge' = NoFile
  /\ lost' = (lost \/ merge # NoFile)
  /\ seen' = {}
  /\ pc' = "load"
  /\ UNCHANGED <<read, write, build, cancel, thread_active, items, lib, mapped,
                 pos, added, output, stale, pushed, mishaps>>

-----------------------------------------------------------------------------
(* The rest of vkd3d_pipeline_library_disk_cache_initial_setup: map the    *)
(* read-only cache and parse it.                                           *)

Load ==
  /\ pc = "load"
  /\ pos' = 0
  /\ pc' = IF valid(read) THEN "parse" ELSE "idle"
  /\ UNCHANGED <<files, build, cancel, thread_active, items, lib, mapped, seen,
                 added, output, history, mishaps>>

\* One entry of d3d12_pipeline_library_read_blob_stream_format; teardown, or
\* the end of the whole entries, ends it.
Parse ==
  /\ pc = "parse"
  /\ IF pos < Len(read.entries) /\ ~cancel
     THEN /\ lib' = lib \cup {read.entries[pos + 1]}
          /\ pos' = pos + 1
          /\ UNCHANGED pc
     ELSE /\ pc' = "idle"
          /\ pos' = 0
          /\ UNCHANGED lib
  /\ UNCHANGED <<files, build, cancel, thread_active, items, mapped, seen, added,
                 output, history, mishaps>>

-----------------------------------------------------------------------------
(* Saving, on the disk$ thread.                                            *)

\* The loop's critical section: wait for a second at most while the thread is
\* active, then take the items.
WakeUp ==
  /\ pc = "idle"
  /\ \/ ~thread_active /\ wake' = "stop" /\ UNCHANGED mishaps
     \/ thread_active /\ wake' = "timeout" /\ UNCHANGED mishaps
     \/ thread_active /\ items # <<>> /\ wake' = "signal" /\ UNCHANGED mishaps
     \/ /\ thread_active
        /\ wake' = "error"
        /\ happens("save error")
  /\ todo' = items
  /\ items' = <<>>
  /\ pc' = "save"
  /\ UNCHANGED <<files, build, cancel, thread_active, lib, scan, sink, dirty,
                 history>>

\* vkd3d_pipeline_library_disk_cache_notify_blob_insert for new entries: the
\* first one of the session creates the write file, which must not exist.  A
\* failed write makes it, and what follows, unreadable.
notify(new) ==
  LET open == IF sink.attempted THEN sink.open ELSE write = NoFile
  IN /\ write' = IF open /\ ~sink.open
                 THEN [build |-> NoBuild, entries |-> <<>>, sliced |-> FALSE]
                 ELSE write
     /\ \/ /\ sink' = [attempted |-> TRUE, open |-> open, broken |-> sink.broken,
                       pending |-> IF open /\ ~sink.broken THEN sink.pending \o new
                                   ELSE sink.pending]
           /\ UNCHANGED mishaps
        \/ \* the header
           /\ open /\ ~sink.attempted
           /\ sink' = [sink EXCEPT !.attempted = TRUE]
           /\ happens("save error")
        \/ \* one of the entries
           /\ open /\ ~sink.broken
           /\ \E n \in 0..(Len(new) - 1) :
                sink' = [attempted |-> TRUE, open |-> TRUE, broken |-> TRUE,
                         pending |-> sink.pending \o SubSeq(new, 1, n)]
           /\ happens("save error")

\* Mutant: the pipeline goes first.
Serialized_pipeline_first(p) ==
  <<p>> \o (IF ShaderOf[p] \in lib THEN <<>> ELSE <<ShaderOf[p]>>)

\* The entries a pipeline adds to the library: its SPIR-V while it is
\* serialized, then itself.
Serialized(p) ==
  (IF ShaderOf[p] \in lib THEN <<>> ELSE <<ShaderOf[p]>>) \o <<p>>

\* vkd3d_pipeline_library_disk_cache_save_pipeline_state.
save_pipeline_state(p) ==
  IF p \in lib
  THEN UNCHANGED <<write, lib, sink, dirty, mishaps>>
  ELSE /\ lib' = lib \cup {p, ShaderOf[p]}
       /\ dirty' = TRUE
       /\ notify(Serialized(p))

Save ==
  /\ pc = "save"
  /\ todo # <<>>
  /\ save_pipeline_state(Head(todo))
  /\ todo' = Tail(todo)
  /\ UNCHANGED <<read, merge, build, pc, cancel, thread_active, items, scan, wake,
                 history>>

\* All taken items are saved: flush when it was quiet, and go on.
Saved ==
  /\ pc = "save"
  /\ todo = <<>>
  /\ IF wake = "timeout" /\ dirty
     THEN /\ dirty' = FALSE
          /\ write' = IF sink.open THEN written ELSE write
          /\ sink' = [sink EXCEPT !.pending = <<>>]
     ELSE UNCHANGED <<write, sink, dirty>>
  /\ pc' = IF wake \in {"stop", "error"} THEN "teardown" ELSE "idle"
  /\ wake' = "signal"
  /\ UNCHANGED <<read, merge, build, cancel, thread_active, items, lib, scan, todo,
                 history, mishaps>>

\* Items left in the cache when the loop ended.
SaveRemaining ==
  /\ pc = "teardown"
  /\ items # <<>>
  /\ save_pipeline_state(Head(items))
  /\ items' = Tail(items)
  /\ UNCHANGED <<read, merge, build, pc, cancel, thread_active, scan, todo, wake,
                 history>>

\* Close the write file and end the thread.
Exit ==
  /\ pc = "teardown"
  /\ items = <<>>
  /\ write' = IF sink.open THEN written ELSE write
  /\ sink' = [sink EXCEPT !.open = FALSE, !.pending = <<>>]
  /\ pc' = "exited"
  /\ UNCHANGED <<read, merge, build, cancel, thread_active, items, lib, scan, todo,
                 wake, dirty, history, mishaps>>

-----------------------------------------------------------------------------
(* The application and its surroundings.                                   *)

\* vkd3d_pipeline_library_init_disk_cache.
Start ==
  /\ pc = "off"
  /\ pc' = "promote"
  /\ thread_active' = TRUE
  /\ stale' = (merge # NoFile)
  /\ UNCHANGED <<files, build, cancel, items, lib, scan, output, lost, pushed, mishaps>>

\* vkd3d_pipeline_library_find_cached_blob_from_disk_cache misses, and the
\* pipeline is created: vkd3d_pipeline_library_store_pipeline_to_disk_cache.
Push(p) ==
  /\ thread_active /\ ~cancel
  /\ p \notin lib
  /\ Len(items) < MaxItems
  /\ items' = Append(items, p)
  /\ pushed' = pushed \cup {p}
  /\ UNCHANGED <<files, build, pc, cancel, thread_active, lib, scan, output, stale,
                 lost, mishaps>>

\* vkd3d_pipeline_library_flush_disk_cache, first the atomic store.
Cancel ==
  /\ thread_active /\ ~cancel
  /\ cancel' = TRUE
  /\ IF pc \in Setup
     THEN happens("haste")
     ELSE UNCHANGED mishaps
  /\ UNCHANGED <<files, build, pc, thread_active, items, lib, scan, output, history>>

Deactivate ==
  /\ cancel /\ thread_active
  /\ thread_active' = FALSE
  /\ UNCHANGED <<files, build, pc, cancel, items, lib, scan, output, history, mishaps>>

\* Everything a session keeps in memory is gone.
forget ==
  /\ pc' = "off"
  /\ cancel' = FALSE /\ thread_active' = FALSE
  /\ items' = <<>> /\ lib' = {}
  /\ mapped' = NoFile /\ pos' = 0 /\ seen' = {} /\ added' = <<>>
  /\ sink' = Closed /\ todo' = <<>> /\ wake' = "signal" /\ dirty' = FALSE
  /\ pushed' = {}

\* The thread has been joined.
Join ==
  /\ pc = "exited"
  /\ ~thread_active
  /\ forget
  /\ UNCHANGED <<files, build, stale, lost, mishaps>>

\* The process is killed: a part of each buffer reached its file.
Kill ==
  /\ pc # "off"
  /\ happens("kill")
  /\ IF sink.open
     THEN \/ \E n \in 0..Len(sink.pending) :
               write' \in extended([write EXCEPT !.build = build, !.sliced = sink.broken],
                                  sink.pending, n)
          \/ UNCHANGED write
     ELSE UNCHANGED write
  /\ IF pc \in {"append", "install"}
     THEN \E n \in 0..Len(added) : merge' \in extended(merge, added, n)
     ELSE UNCHANGED merge
  /\ forget
  /\ UNCHANGED <<read, build, stale, lost>>

\* Another driver or vkd3d build is installed while the program is not running.
Update ==
  /\ pc = "off"
  /\ build' \in Build \ {build}
  /\ happens("update")
  /\ UNCHANGED <<files, pc, cancel, thread_active, items, lib, scan, output, history>>

-----------------------------------------------------------------------------
Merge == \/ Promote \/ Map \/ Claim \/ Open \/ Discard \/ Replace \/ Scan
         \/ AppendEntry \/ MoveBack \/ Install \/ DropWrite \/ DropMerge

DiskThread == Merge \/ Load \/ Parse \/ WakeUp \/ Save \/ Saved \/ SaveRemaining \/ Exit

Next ==
  \/ DiskThread
  \/ Start \/ Cancel \/ Deactivate \/ Join \/ Kill \/ Update
  \/ \E p \in Pipeline : Push(p)

Spec == Init /\ [][Next]_vars

\* The disk$ thread runs, a program is started again and quits again.
FairSpec ==
  /\ Spec
  /\ WF_vars(DiskThread)
  /\ WF_vars(Start) /\ WF_vars(Cancel) /\ WF_vars(Deactivate) /\ WF_vars(Join)

-----------------------------------------------------------------------------
(* Properties.                                                             *)

\* The type invariant.
TypeOK ==
  /\ {read, write, merge, mapped} \subseteq Archive \cup {NoFile}
  /\ build \in Build
  /\ pc \in Setup \cup {"off", "idle", "save", "teardown", "exited"}
  /\ {cancel, thread_active, dirty, stale, lost} \subseteq BOOLEAN
  /\ {items, todo} \subseteq Seq(Pipeline)
  /\ lib \subseteq Key /\ seen \subseteq Key /\ pushed \subseteq Pipeline
  /\ pos \in Nat
  /\ pc = "append" => pos <= Len(mapped.entries)
  /\ added \in Seq(Key)
  /\ sink \in Sink
  /\ wake \in {"signal", "timeout", "stop", "error"}
  /\ mishaps \in [Mishap -> Nat]

\* "After this operation, only read_path should remain, and write_path (and
\* temporary merge path) is deleted", except a write cache that a teardown
\* leaves for the next session (cache.c:3172, cache.c:3036).
OnlyReadRemains ==
  pc \notin Setup \cup {"off"} =>
    /\ merge = NoFile
    /\ ~cancel /\ ~sink.attempted => write = NoFile

\* The SPIR-V a stored pipeline refers to is stored as well, unless a stale
\* merge file took it along: otherwise the pipeline would be found, could not
\* be used, and would not be stored again.
ShadersAreStored ==
  LET stored == Stored(read) \cup Stored(write) \cup Stored(merge)
  IN ~lost => \A p \in stored \cap Pipeline : ShaderOf[p] \in stored

\* When the thread has been joined, every pipeline pushed in the session is in
\* the library, and on disk if the write file could be created and written.
SavedBeforeExit ==
  pc = "exited" /\ ~thread_active /\ mishaps["save error"] = 0 =>
    /\ pushed \subseteq lib
    /\ mishaps["haste"] = 0 => pushed \subseteq Stored(read) \cup Stored(write)

\* A step loses stored entries only by deleting a merge file, which a session
\* finds there only when an earlier one was killed, or a merge failed; and
\* entries of the read-only cache are not lost by a failed merge before that.
StoredSurvives ==
  [][build' = build =>
       /\ \/ Stored(read) \cup Stored(merge) \subseteq (Stored(read) \cup Stored(merge))'
          \/ pc = "drop_merge" /\ lost'
       /\ \/ Stored(read) \cup Stored(write) \cup Stored(merge)
                \subseteq (Stored(read) \cup Stored(write) \cup Stored(merge))'
          \/ pc = "drop_merge" /\ stale
          \/ mishaps["merge error"] > 0]_vars

\* What a session wrote gets into the read-only cache (cache.c:3150 "We need to
\* ensure that some thread will eventually be able exclusively create the
\* merge file"), if the build stays and no merge fails, whatever is killed.
EventuallyPromoted ==
  \A k \in Key, b \in Build :
    build = b /\ k \in Stored(write) /\ mishaps["merge error"] = 0
      ~> k \in Stored(read) \/ build # b \/ mishaps["merge error"] > 0
=============================================================================

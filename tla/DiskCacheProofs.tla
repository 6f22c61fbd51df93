---------------------------- MODULE DiskCacheProofs ----------------------------
(***************************************************************************)
(* The files of the pipeline cache are right whatever is killed, torn down *)
(* or fails, for any pipelines, shaders and builds: nothing stored is lost *)
(* but with a stale merge file, a merge keeps the pipelines and the        *)
(* shaders they need together, and a clean exit stores what was pushed.    *)
(***************************************************************************)
EXTENDS DiskCache, SequenceTheorems, TLAPS

-----------------------------------------------------------------------------
(***************************************************************************)
(* The inductive invariants.                                               *)
(***************************************************************************)

\* The states of the disk$ thread behind the setup.
Running == {"idle", "save", "teardown", "exited"}

\* The steps of the setup in which the write cache is mapped, and those in
\* which the read-only cache has become the merge file.
Mapped  == {"claim", "open", "discard", "replace", "scan", "append", "install"}
Merging == {"open", "discard", "scan", "append", "install"}

\* The types, without the bound on pos.
Types ==
  /\ {read, write, merge, mapped} \subseteq Archive \cup {NoFile}
  /\ build \in Build
  /\ pc \in Setup \cup Running \cup {"off"}
  /\ {cancel, thread_active, dirty, stale, lost} \subseteq BOOLEAN
  /\ items \in Seq(Pipeline) /\ todo \in Seq(Pipeline)
  /\ lib \subseteq Key /\ seen \subseteq Key /\ pushed \subseteq Pipeline
  /\ pos \in Nat
  /\ added \in Seq(Key)
  /\ sink \in Sink
  /\ wake \in {"signal", "timeout", "stop", "error"}
  /\ mishaps \in [Mishap -> Nat]

\* What the thread may rely on where it is: which files are there, what it has
\* mapped, and how far its scan is.
Phases ==
  /\ pc = "off" => ~cancel /\ ~thread_active
  /\ pc \notin Running => sink = Closed /\ todo = <<>>
  /\ pc \notin {"append", "install"} => added = <<>>
  /\ pc = "map" => write = NoFile \/ read # NoFile
  /\ pc = "claim" => read # NoFile
  /\ pc \in Mapped => valid(write) /\ mapped = write
  /\ pc \in Merging => read = NoFile /\ merge # NoFile
  /\ pc \in {"scan", "append", "install"} => valid(merge)
  /\ pc = "discard" => ~valid(merge)
  /\ pc = "replace" => read = NoFile /\ merge = NoFile
  /\ pc = "append" => pos <= Len(mapped.entries)
  /\ pc = "drop_merge" => write = NoFile
  /\ pc = "parse" => valid(read)

\* There are never all three files, and what is there when.
Files ==
  /\ read = NoFile \/ write = NoFile \/ merge = NoFile
  /\ pc \in Running \cup {"load", "parse"} =>
       /\ merge = NoFile
       /\ ~sink.attempted /\ write # NoFile => cancel /\ mishaps["haste"] > 0
  /\ pc \in Setup /\ cancel => mishaps["haste"] > 0
  /\ sink.open => sink.attempted /\ write # NoFile /\ pc # "exited"
  /\ ~sink.open => sink.pending = <<>>

\* The merge knows what it has seen, and does not drop a write cache it has
\* not merged.
MergeIsComplete ==
  /\ pc = "scan" => pos <= Len(merge.entries) /\ seen = {merge.entries[i] : i \in 1..pos}
  /\ pc = "append" =>
       /\ seen = ToSet(merge.entries) \cup {write.entries[i] : i \in 1..pos}
       /\ seen = ToSet(merge.entries) \cup ToSet(added)
  /\ pc = "install" /\ mishaps["merge error"] = 0 =>
       ToSet(write.entries) \subseteq ToSet(merge.entries) \cup ToSet(added)
  /\ pc = "drop_write" /\ mishaps["merge error"] = 0 =>
       Stored(write) \subseteq Stored(read) \cup Stored(merge)
  /\ pc \in {"promote", "map", "claim"} /\ merge # NoFile => stale
  /\ pc \in {"drop_write", "drop_merge"} /\ merge # NoFile =>
       stale \/ mishaps["merge error"] > 0


\* The library in memory is backed by the files and the buffer of the write
\* file, as long as that file works.
LibIsStored ==
  /\ pc \notin Running =>
       lib \subseteq Stored(read) /\ (pc # "parse" => lib = {})
  /\ pc \in Running =>
       /\ ~sink.attempted => lib \subseteq Stored(read)
       /\ sink.open /\ ~sink.broken =>
            lib \subseteq Stored(read) \cup ToSet(write.entries) \cup ToSet(sink.pending)
       /\ mishaps["save error"] = 0 /\ mishaps["haste"] = 0 =>
            /\ ~sink.broken
            /\ sink.attempted => sink.open \/ pc = "exited"
            /\ pc = "exited" => lib \subseteq Stored(read) \cup Stored(write)
  /\ sink.open => write.build = build \/ write.entries = <<>>

\* A pushed pipeline waits, is being saved, or is in the library, and the
\* thread ends only when no more can come.
PushedIsKept ==
  /\ pushed \subseteq lib \cup ToSet(items) \cup ToSet(todo)
  /\ pc # "save" => todo = <<>> /\ wake = "signal"
  /\ mishaps["save error"] = 0 =>
       /\ wake # "error"
       /\ wake = "stop" => ~thread_active
       /\ pc \in {"teardown", "exited"} => ~thread_active
       /\ pc = "exited" => items = <<>>

\* What a build b reads out of a file.
Keys(b, archive) ==
  IF archive # NoFile /\ archive.build = b THEN ToSet(archive.entries) ELSE {}

\* Every pipeline of the sequence has its shader in the base or earlier in it.
Ordered(base, seq) ==
  \A i \in 1..Len(seq) :
    seq[i] \in Pipeline =>
      ShaderOf[seq[i]] \in base \cup {seq[j] : j \in 1..(i - 1)}

\* Whose entries the write file holds.
Writer == IF sink.open THEN build ELSE write.build

\* The two files have, for every build, the shaders of their pipelines.
ShadersWith(r, m) ==
  \A b \in Build : \A p \in Pipeline :
    p \in Keys(b, r) \cup Keys(b, m) => ShaderOf[p] \in Keys(b, r) \cup Keys(b, m)

\* The read-only cache needs no shader of the write cache, the write cache has
\* its shaders first, and so has what a merge appends.
WriteInOrder ==
  write # NoFile =>
    Ordered(Keys(Writer, read) \cup Keys(Writer, merge), write.entries \o sink.pending)
AddedInOrder == pc \in {"append", "install"} => Ordered(ToSet(merge.entries), added)
ShadersComeFirst ==
  ~lost => ShadersWith(read, merge) /\ WriteInOrder /\ AddedInOrder

Inv == Types /\ Phases /\ Files /\ MergeIsComplete

-----------------------------------------------------------------------------
(***************************************************************************)
(* Sequences and archives.                                                 *)
(***************************************************************************)

\* What ToSet and Len say of sequences that are put together or cut.
LEMMA ToSetFacts ==
  ASSUME NEW S, NEW s \in Seq(S)
  PROVE  /\ ToSet(s) = {s[i] : i \in 1..Len(s)} /\ ToSet(s) \subseteq S
         /\ s # <<>> => Head(s) \in S /\ Tail(s) \in Seq(S)
                        /\ ToSet(s) = {Head(s)} \cup ToSet(Tail(s))
<1>1. ToSet(s) = {s[i] : i \in 1..Len(s)} /\ ToSet(s) \subseteq S
  BY DEF ToSet
<1>2. ASSUME s # <<>>
      PROVE  Head(s) \in S /\ Tail(s) \in Seq(S)
             /\ ToSet(s) = {Head(s)} \cup ToSet(Tail(s))
  <2>1. /\ Head(s) = s[1] /\ Tail(s) \in Seq(S) /\ Len(Tail(s)) = Len(s) - 1
        /\ Len(s) \in Nat /\ Len(s) >= 1
    BY <1>2
  <2>2. \A i \in 1..Len(Tail(s)) : Tail(s)[i] = s[i + 1]
    BY <1>2, <2>1
  <2>a. ToSet(Tail(s)) = {Tail(s)[i] : i \in 1..(Len(s) - 1)}
    <3>1. DOMAIN Tail(s) = 1..(Len(s) - 1)
      BY <2>1
    <3> QED
      BY <3>1 DEF ToSet
  <2>3. ToSet(Tail(s)) = {s[i + 1] : i \in 1..(Len(s) - 1)}
    BY <2>1, <2>2, <2>a
  <2>4. \A i \in 1..Len(s) : i = 1 \/ (i - 1 \in 1..(Len(s) - 1) /\ s[i] = s[(i - 1) + 1])
    BY <2>1
  <2>5. ToSet(s) \subseteq {Head(s)} \cup ToSet(Tail(s))
    BY <1>1, <2>1, <2>3, <2>4
  <2>6. ToSet(Tail(s)) \subseteq ToSet(s)
    <3>1. \A i \in 1..(Len(s) - 1) : i + 1 \in 1..Len(s)
      BY <2>1
    <3> QED
      BY <1>1, <2>3, <3>1
  <2>7. Head(s) \in ToSet(s)
    BY <1>1, <2>1
  <2> QED
    BY <2>1, <2>5, <2>6, <2>7, <1>1
<1> QED
  BY <1>1, <1>2

\* Appending an element.
LEMMA AppendFacts ==
  ASSUME NEW S, NEW s \in Seq(S), NEW e \in S
  PROVE  /\ Append(s, e) \in Seq(S) /\ Len(Append(s, e)) = Len(s) + 1
         /\ \A i \in 1..Len(s) : Append(s, e)[i] = s[i]
         /\ Append(s, e)[Len(s) + 1] = e
         /\ ToSet(Append(s, e)) = ToSet(s) \cup {e}
<1>1. /\ Append(s, e) \in Seq(S) /\ Len(Append(s, e)) = Len(s) + 1 /\ Len(s) \in Nat
      /\ \A i \in 1..Len(s) : Append(s, e)[i] = s[i]
      /\ Append(s, e)[Len(s) + 1] = e
  OBVIOUS
<1>2. /\ ToSet(Append(s, e)) = {Append(s, e)[i] : i \in 1..(Len(s) + 1)}
      /\ ToSet(s) = {s[i] : i \in 1..Len(s)}
  BY <1>1, ToSetFacts
<1>3. \A i : i \in 1..(Len(s) + 1) <=> i \in 1..Len(s) \/ i = Len(s) + 1
  BY <1>1
<1>4. ToSet(Append(s, e)) = ToSet(s) \cup {e}
  BY <1>1, <1>2, <1>3
<1> QED
  BY <1>1, <1>4

\* Joining a sequence and the first part of another.
LEMMA JoinFacts ==
  ASSUME NEW S, NEW s \in Seq(S), NEW t \in Seq(S), NEW n \in 0..Len(t)
  PROVE  LET r == s \o SubSeq(t, 1, n)
         IN  /\ r \in Seq(S) /\ Len(r) = Len(s) + n
             /\ \A i \in 1..Len(s) : r[i] = s[i]
             /\ \A i \in 1..Len(r) : r[i] = (s \o t)[i] /\ i \in 1..Len(s \o t)
             /\ ToSet(s) \subseteq ToSet(r)
             /\ ToSet(r) \subseteq ToSet(s) \cup ToSet(t)
             /\ n = Len(t) => r = s \o t /\ ToSet(r) = ToSet(s) \cup ToSet(t)
<1> DEFINE u == SubSeq(t, 1, n)
           r == s \o u
<1>0. Len(s) \in Nat /\ Len(t) \in Nat /\ n \in Nat /\ n <= Len(t)
  OBVIOUS
<1>1. u \in Seq(S) /\ Len(u) = n /\ \A i \in 1..n : u[i] = t[i]
  BY <1>0
<1> HIDE DEF u
<1>2. /\ r \in Seq(S) /\ Len(r) = Len(s) + n
      /\ \A i \in 1..Len(s) : r[i] = s[i]
      /\ \A i \in 1..n : r[Len(s) + i] = u[i]
  BY <1>0, <1>1
<1>3. /\ s \o t \in Seq(S) /\ Len(s \o t) = Len(s) + Len(t)
      /\ \A i \in 1..Len(s) : (s \o t)[i] = s[i]
      /\ \A i \in 1..Len(t) : (s \o t)[Len(s) + i] = t[i]
  BY <1>0
<1>4. \A i \in 1..(Len(s) + n) :
        i \in 1..Len(s) \/ (i - Len(s) \in 1..n /\ i = Len(s) + (i - Len(s)))
  BY <1>0
<1> HIDE DEF r
<1>5. \A i \in 1..Len(r) : r[i] = (s \o t)[i] /\ i \in 1..Len(s \o t)
  <2> TAKE i \in 1..Len(r)
  <2>1. i \in 1..(Len(s) + Len(t))
    BY <1>0, <1>2
  <2>2. CASE i \in 1..Len(s)
    BY <1>2, <1>3, <2>1, <2>2
  <2>3. CASE i - Len(s) \in 1..n /\ i = Len(s) + (i - Len(s))
    <3>1. r[i] = u[i - Len(s)] /\ i - Len(s) \in 1..Len(t)
      BY <1>0, <1>2, <2>3
    <3>2. (s \o t)[i] = t[i - Len(s)]
      BY <1>3, <2>3, <3>1
    <3> QED
      BY <1>1, <1>3, <2>1, <2>3, <3>1, <3>2
  <2> QED
    BY <1>2, <1>4, <2>2, <2>3
<1>6. ToSet(r) = {r[i] : i \in 1..(Len(s) + n)} /\ ToSet(s) = {s[i] : i \in 1..Len(s)}
      /\ ToSet(t) = {t[i] : i \in 1..Len(t)}
  BY <1>2, ToSetFacts
<1>7. ToSet(s) \subseteq ToSet(r)
  <2>1. \A i \in 1..Len(s) : i \in 1..(Len(s) + n)
    BY <1>0
  <2> QED
    BY <1>2, <1>6, <2>1
<1>8. ToSet(r) \subseteq ToSet(s) \cup ToSet(t)
  <2> SUFFICES ASSUME NEW i \in 1..(Len(s) + n) PROVE r[i] \in ToSet(s) \cup ToSet(t)
    BY <1>6
  <2>1. CASE i \in 1..Len(s)
    BY <1>2, <1>6, <2>1
  <2>2. CASE i - Len(s) \in 1..n /\ i = Len(s) + (i - Len(s))
    <3>1. r[i] = t[i - Len(s)]
      BY <1>1, <1>2, <2>2
    <3>2. i - Len(s) \in 1..Len(t)
      BY <1>0, <2>2
    <3> QED
      BY <1>6, <3>1, <3>2
  <2> QED
    BY <1>4, <2>1, <2>2
<1>9. ASSUME n = Len(t) PROVE r = s \o t /\ ToSet(r) = ToSet(s) \cup ToSet(t)
  <2>1. u = t
    BY <1>0, <1>1, <1>9
  <2>2. r = s \o t
    BY <2>1 DEF r
  <2>3. \A i \in 1..Len(t) : Len(s) + i \in 1..(Len(s) + n)
    BY <1>0, <1>9
  <2>4. ToSet(t) \subseteq ToSet(r)
    BY <1>2, <1>6, <1>9, <2>1, <2>3
  <2> QED
    BY <2>2, <2>4, <1>7, <1>8
<1> QED
  BY <1>2, <1>5, <1>7, <1>8, <1>9 DEF r, u

\* The empty sequence.
LEMMA EmptyFacts ==
  ASSUME NEW S
  PROVE  <<>> \in Seq(S) /\ ToSet(<<>>) = {} /\ Len(<<>>) = 0
BY DEF ToSet

\* Joining two sequences.
LEMMA ConcatFacts ==
  ASSUME NEW S, NEW s \in Seq(S), NEW t \in Seq(S)
  PROVE  s \o t \in Seq(S) /\ ToSet(s \o t) = ToSet(s) \cup ToSet(t)
<1>1. Len(t) \in 0..Len(t) /\ s \o t \in Seq(S)
  OBVIOUS
<1> QED
  BY <1>1, JoinFacts

\* A file can be told from no file.
LEMMA ArchiveFacts ==
  ASSUME NEW a \in Archive
  PROVE  a # NoFile /\ a.build \in Build \cup {NoBuild} /\ a.entries \in Seq(Key)
         /\ a.sliced \in BOOLEAN
  BY DiskCacheAssumption DEF Archive

\* A file after a part of what was in its buffer reached it.
LEMMA ExtendedFacts ==
  ASSUME NEW a \in Archive, NEW s \in Seq(Key), NEW e,
         \E n \in 0..Len(s) : e \in extended(a, s, n)
  PROVE  /\ e \in Archive /\ e # NoFile
         /\ e.build = a.build
         /\ \E n \in 0..Len(s) : e.entries = a.entries \o SubSeq(s, 1, n)
         /\ ToSet(a.entries) \subseteq ToSet(e.entries)
         /\ ToSet(e.entries) \subseteq ToSet(a.entries) \cup ToSet(s)
<1>1. a.build \in Build \cup {NoBuild} /\ a.entries \in Seq(Key) /\ a.sliced \in BOOLEAN
  BY ArchiveFacts
<1>2. \E n \in 0..Len(s), x \in BOOLEAN :
        e = [a EXCEPT !.entries = a.entries \o SubSeq(s, 1, n), !.sliced = x]
  BY <1>1 DEF extended
<1>3. PICK n \in 0..Len(s), x \in BOOLEAN :
        e = [a EXCEPT !.entries = a.entries \o SubSeq(s, 1, n), !.sliced = x]
  BY <1>2
<1>4. /\ a.entries \o SubSeq(s, 1, n) \in Seq(Key)
      /\ ToSet(a.entries) \subseteq ToSet(a.entries \o SubSeq(s, 1, n))
      /\ ToSet(a.entries \o SubSeq(s, 1, n)) \subseteq ToSet(a.entries) \cup ToSet(s)
  BY <1>1, JoinFacts
<1>5. e \in Archive /\ e.build = a.build /\ e.entries = a.entries \o SubSeq(s, 1, n)
  BY <1>1, <1>3, <1>4 DEF Archive
<1>6. e # NoFile
  BY <1>5, ArchiveFacts
<1> QED
  BY <1>4, <1>5, <1>6

\* A file after all that was in its buffer reached it.
LEMMA FlushedFacts ==
  ASSUME NEW a \in Archive, NEW s \in Seq(Key), NEW e, e \in flushed(a, s)
  PROVE  /\ e \in Archive /\ e # NoFile
         /\ e.build = a.build
         /\ e.entries = a.entries \o s
         /\ ToSet(e.entries) = ToSet(a.entries) \cup ToSet(s)
<1>1. a.build \in Build \cup {NoBuild} /\ a.entries \in Seq(Key) /\ a.sliced \in BOOLEAN
      /\ Len(s) \in 0..Len(s)
  BY ArchiveFacts
<1>2. a.entries \o SubSeq(s, 1, Len(s)) \in Seq(Key)
  BY <1>1, JoinFacts
<1>3. /\ a.entries \o SubSeq(s, 1, Len(s)) = a.entries \o s
      /\ ToSet(a.entries \o SubSeq(s, 1, Len(s))) = ToSet(a.entries) \cup ToSet(s)
  BY <1>1, JoinFacts
<1>4. PICK x \in BOOLEAN :
        e = [a EXCEPT !.entries = a.entries \o SubSeq(s, 1, Len(s)), !.sliced = x]
  BY <1>1 DEF flushed, extended
<1>5. /\ e \in Archive /\ e.build = a.build
      /\ e.entries = a.entries \o SubSeq(s, 1, Len(s))
  BY <1>1, <1>2, <1>4 DEF Archive
<1>6. e # NoFile
  BY <1>5, ArchiveFacts
<1> QED
  BY <1>3, <1>5, <1>6

-----------------------------------------------------------------------------
(***************************************************************************)
(* Failures, and what a pipeline adds to the write file.                   *)
(***************************************************************************)

\* A mishap is counted, the others are left alone.
LEMMA HappensFacts ==
  ASSUME mishaps \in [Mishap -> Nat], NEW m \in Mishap, happens(m)
  PROVE  /\ mishaps' \in [Mishap -> Nat] /\ mishaps'[m] > 0 /\ mishaps'[m] # 0
         /\ \A k \in Mishap : mishaps'[k] >= mishaps[k] /\ (k # m => mishaps'[k] = mishaps[k])
<1>1. mishaps' = [mishaps EXCEPT ![m] = mishaps[m] + 1]
  BY DEF happens
<1>2. \A k \in Mishap : mishaps[k] \in Nat
  OBVIOUS
<1>3. mishaps'[m] = mishaps[m] + 1 /\ \A k \in Mishap : k # m => mishaps'[k] = mishaps[k]
  BY <1>1
<1>4. mishaps' \in [Mishap -> Nat]
  BY <1>1, <1>2
<1> QED
  BY <1>2, <1>3, <1>4

\* A mishap has happened or it has not.
LEMMA MishapFacts ==
  ASSUME mishaps \in [Mishap -> Nat], NEW m \in Mishap
  PROVE  mishaps[m] = 0 <=> ~(mishaps[m] > 0)
<1>1. mishaps[m] \in Nat
  OBVIOUS
<1> QED
  BY <1>1

\* The state of the write file.
LEMMA SinkFacts ==
  ASSUME sink \in Sink
  PROVE  /\ sink.attempted \in BOOLEAN /\ sink.open \in BOOLEAN /\ sink.broken \in BOOLEAN
         /\ sink.pending \in Seq(Key)
BY DEF Sink

\* Two sequences of one element.
LEMMA PairFacts ==
  ASSUME NEW S, NEW x \in S, NEW y \in S
  PROVE  <<x>> \o <<y>> = <<x, y>>
<1>1. <<x>> \in Seq(S) /\ <<y>> \in Seq(S) /\ <<x, y>> \in Seq(S)
  OBVIOUS
<1>2. /\ Len(<<x>>) = 1 /\ Len(<<y>>) = 1 /\ Len(<<x, y>>) = 2
      /\ <<x>>[1] = x /\ <<y>>[1] = y /\ <<x, y>>[1] = x /\ <<x, y>>[2] = y
  OBVIOUS
<1> DEFINE r == <<x>> \o <<y>>
<1>3. r \in Seq(S) /\ Len(r) = 2 /\ r[1] = x
  BY <1>1, <1>2
<1>4. r[2] = y
  BY <1>1, <1>2
<1> HIDE DEF r
<1>5. r = <<x, y>>
  BY <1>1, <1>2, <1>3, <1>4
<1> QED
  BY <1>5 DEF r

\* The entries of a pipeline: its shader if that is not stored yet, and itself.
LEMMA SerializedFacts ==
  ASSUME Types, NEW p \in Pipeline
  PROVE  /\ Serialized(p) \in Seq(Key) /\ ShaderOf[p] \in Shader
         /\ \/ ShaderOf[p] \in lib /\ Serialized(p) = <<p>>
            \/ ShaderOf[p] \notin lib /\ Serialized(p) = <<ShaderOf[p], p>>
         /\ ToSet(Serialized(p)) \cup lib = lib \cup {p, ShaderOf[p]}
         /\ Len(Serialized(p)) > 0
<1>1. ShaderOf[p] \in Shader /\ p \in Key /\ ShaderOf[p] \in Key
  BY DiskCacheAssumption DEF Key
<1>2. CASE ShaderOf[p] \in lib
  <2>1. Serialized(p) = <<p>>
    <3>1. Serialized(p) = <<>> \o <<p>>
      BY <1>2 DEF Serialized
    <3> QED
      BY <1>1, <3>1
  <2>2. ToSet(<<p>>) = {p}
    BY DEF ToSet
  <2> QED
    BY <1>1, <1>2, <2>1, <2>2
<1>3. CASE ShaderOf[p] \notin lib
  <2>1. Serialized(p) = <<ShaderOf[p], p>>
    <3>1. Serialized(p) = <<ShaderOf[p]>> \o <<p>>
      BY <1>3 DEF Serialized
    <3>2. <<ShaderOf[p]>> \in Seq(Key) /\ <<p>> \in Seq(Key)
      BY <1>1
    <3>3. <<ShaderOf[p]>> \o <<p>> = <<ShaderOf[p], p>>
      BY <1>1, PairFacts
    <3> QED
      BY <3>1, <3>3
  <2>2. ToSet(<<ShaderOf[p], p>>) = {p, ShaderOf[p]}
    BY DEF ToSet
  <2> QED
    BY <1>1, <1>3, <2>1, <2>2
<1> QED
  BY <1>2, <1>3

\* What becomes of new entries: all of them are in the buffer of the file, or
\* something failed and some of them are, or the file cannot be had.
LEMMA NotifyFacts ==
  ASSUME Types, Files, NEW new \in Seq(Key), Len(new) > 0, notify(new)
  PROVE  /\ sink' \in Sink /\ sink'.attempted
         /\ \/ write' = write
            \/ /\ ~sink.attempted /\ write = NoFile
               /\ write' = [build |-> NoBuild, entries |-> <<>>, sliced |-> FALSE]
         /\ sink'.open => sink.open \/ (~sink.attempted /\ write = NoFile /\ write' # NoFile)
         /\ \/ sink'.pending = sink.pending
            \/ /\ sink'.open /\ ~sink.broken
               /\ \E n \in 0..Len(new) : sink'.pending = sink.pending \o SubSeq(new, 1, n)
         /\ sink'.open /\ ~sink'.broken =>
              ~sink.broken /\ sink'.pending = sink.pending \o new
         /\ sink.open => sink'.open
         /\ mishaps' \in [Mishap -> Nat]
         /\ \A k \in Mishap : mishaps'[k] >= mishaps[k]
                              /\ (k # "save error" => mishaps'[k] = mishaps[k])
         /\ mishaps'["save error"] = 0 =>
              /\ sink'.broken = sink.broken
              /\ sink'.open = IF sink.attempted THEN sink.open ELSE write = NoFile
<1> DEFINE o == IF sink.attempted THEN sink.open ELSE write = NoFile
<1>0. /\ sink.attempted \in BOOLEAN /\ sink.open \in BOOLEAN /\ sink.broken \in BOOLEAN
      /\ sink.pending \in Seq(Key) /\ mishaps \in [Mishap -> Nat]
      /\ sink = [attempted |-> sink.attempted, open |-> sink.open,
                 pending |-> sink.pending, broken |-> sink.broken]
  BY DEF Types, Sink
<1>1. o \in BOOLEAN
  BY <1>0
<1>2. sink.open => sink.attempted /\ o
  BY DEF Files
<1>3. write' = IF o /\ ~sink.open
               THEN [build |-> NoBuild, entries |-> <<>>, sliced |-> FALSE] ELSE write
  BY DEF notify
<1>4. o /\ ~sink.open => ~sink.attempted /\ write = NoFile
  OBVIOUS
<1>5. [build |-> NoBuild, entries |-> <<>>, sliced |-> FALSE] # NoFile
  <2>1. [build |-> NoBuild, entries |-> <<>>, sliced |-> FALSE] \in Archive
    BY DEF Archive
  <2> QED
    BY <2>1, ArchiveFacts
<1>6. "save error" \in Mishap
  BY DEF Mishap
<1>a. CASE /\ sink' = [attempted |-> TRUE, open |-> o, broken |-> sink.broken,
                       pending |-> IF o /\ ~sink.broken THEN sink.pending \o new
                                   ELSE sink.pending]
           /\ UNCHANGED mishaps
  <2>1. sink.pending \o new \in Seq(Key)
    BY <1>0
  <2>2. sink'.attempted /\ sink'.open = o /\ sink'.broken = sink.broken
        /\ sink'.pending = IF o /\ ~sink.broken THEN sink.pending \o new ELSE sink.pending
    BY <1>a
  <2>3. sink' \in Sink
    BY <1>0, <1>1, <1>a, <2>1 DEF Sink
  <2>4. SubSeq(new, 1, Len(new)) = new /\ Len(new) \in 0..Len(new)
    OBVIOUS
  <2>5. \A k \in Mishap : mishaps'[k] >= mishaps[k] /\ mishaps'[k] = mishaps[k]
    BY <1>0, <1>a
  <2> HIDE DEF o
  <2> QED
    BY <1>0, <1>1, <1>2, <1>3, <1>4, <1>5, <1>a, <2>2, <2>3, <2>4, <2>5 DEF o
<1>b. CASE o /\ ~sink.attempted /\ sink' = [sink EXCEPT !.attempted = TRUE] /\ happens("save error")
  <2>1. sink' \in Sink /\ sink'.attempted /\ sink'.open = sink.open
        /\ sink'.broken = sink.broken /\ sink'.pending = sink.pending
    BY <1>0, <1>b DEF Sink
  <2>2. /\ mishaps' \in [Mishap -> Nat] /\ mishaps'["save error"] # 0
        /\ \A k \in Mishap : mishaps'[k] >= mishaps[k]
                             /\ (k # "save error" => mishaps'[k] = mishaps[k])
    BY <1>0, <1>6, <1>b, HappensFacts
  <2>3. ~sink.open
    BY <1>2, <1>b
  <2>4. ~sink'.open
    BY <2>1, <2>3
  <2> HIDE DEF o
  <2> QED
    BY <1>3, <1>4, <1>5, <2>1, <2>2, <2>3, <2>4
<1>c. CASE /\ o /\ ~sink.broken /\ happens("save error")
           /\ \E n \in 0..(Len(new) - 1) :
                sink' = [attempted |-> TRUE, open |-> TRUE, broken |-> TRUE,
                         pending |-> sink.pending \o SubSeq(new, 1, n)]
  <2>1. PICK n \in 0..(Len(new) - 1) :
                sink' = [attempted |-> TRUE, open |-> TRUE, broken |-> TRUE,
                         pending |-> sink.pending \o SubSeq(new, 1, n)]
    BY <1>c
  <2>2. n \in 0..Len(new)
    OBVIOUS
  <2>3. sink.pending \o SubSeq(new, 1, n) \in Seq(Key)
    BY <1>0, <2>2, JoinFacts
  <2>4. sink' \in Sink /\ sink'.attempted /\ sink'.open /\ sink'.broken
        /\ sink'.pending = sink.pending \o SubSeq(new, 1, n)
    BY <2>1, <2>3 DEF Sink
  <2>5. /\ mishaps' \in [Mishap -> Nat] /\ mishaps'["save error"] # 0
        /\ \A k \in Mishap : mishaps'[k] >= mishaps[k]
                             /\ (k # "save error" => mishaps'[k] = mishaps[k])
    BY <1>0, <1>6, <1>c, HappensFacts
  <2>7. sink.open \/ (~sink.attempted /\ write = NoFile /\ write' # NoFile)
    BY <1>0, <1>3, <1>5, <1>c
  <2> HIDE DEF o
  <2> QED
    BY <1>c, <1>0, <1>1, <1>3, <1>4, <2>2, <2>4, <2>5, <2>7
<1> QED
  BY <1>a, <1>b, <1>c DEF notify

\* Saving a pipeline: it is there already, or it and its shader are stored.
LEMMA SaveFacts ==
  ASSUME Types, NEW p \in Pipeline, save_pipeline_state(p)
  PROVE  \/ p \in lib /\ UNCHANGED <<write, lib, sink, dirty, mishaps>>
         \/ /\ p \notin lib /\ dirty' = TRUE
            /\ lib' = lib \cup ToSet(Serialized(p)) /\ notify(Serialized(p))
            /\ p \in lib'
BY SerializedFacts DEF save_pipeline_state

-----------------------------------------------------------------------------
(***************************************************************************)
(* Types.                                                                  *)
(***************************************************************************)

\* The write file after a flush.
LEMMA WrittenFacts ==
  ASSUME write \in Archive, build \in Build, sink \in Sink
  PROVE  /\ written \in Archive /\ written # NoFile /\ written.build = build
         /\ written.entries = write.entries \o sink.pending
         /\ ToSet(written.entries) = ToSet(write.entries) \cup ToSet(sink.pending)
<1>1. write.entries \in Seq(Key) /\ sink.pending \in Seq(Key) /\ sink.broken \in BOOLEAN
  BY ArchiveFacts, SinkFacts
<1>2. /\ write.entries \o sink.pending \in Seq(Key)
      /\ ToSet(write.entries \o sink.pending) = ToSet(write.entries) \cup ToSet(sink.pending)
  BY <1>1, ConcatFacts
<1>3. written = [build |-> build, entries |-> write.entries \o sink.pending,
                 sliced |-> sink.broken]
  BY DEF written
<1>4. written \in Archive
  BY <1>1, <1>2, <1>3 DEF Archive
<1> QED
  BY <1>2, <1>3, <1>4, ArchiveFacts

\* A killed process leaves a part of its buffers.
LEMMA KillFacts ==
  ASSUME Types, Phases, Files, Kill
  PROVE  /\ \/ write' = write
            \/ /\ sink.open /\ write # NoFile
               /\ write' \in Archive /\ write' # NoFile /\ write'.build = build
               /\ ToSet(write.entries) \subseteq ToSet(write'.entries)
               /\ \E n \in 0..Len(sink.pending) :
                    write'.entries = write.entries \o SubSeq(sink.pending, 1, n)
         /\ \/ merge' = merge
            \/ /\ pc \in {"append", "install"} /\ merge # NoFile
               /\ merge' \in Archive /\ merge' # NoFile /\ merge'.build = merge.build
               /\ ToSet(merge.entries) \subseteq ToSet(merge'.entries)
               /\ \E n \in 0..Len(added) :
                    merge'.entries = merge.entries \o SubSeq(added, 1, n)
         /\ UNCHANGED <<read, build, stale, lost>> /\ pc' = "off"
         /\ mishaps' \in [Mishap -> Nat]
         /\ \A k \in Mishap : mishaps'[k] >= mishaps[k]
         /\ mishaps'["merge error"] = mishaps["merge error"]
<1>1. \/ write' = write
      \/ /\ sink.open /\ write # NoFile
         /\ write' \in Archive /\ write' # NoFile /\ write'.build = build
         /\ ToSet(write.entries) \subseteq ToSet(write'.entries)
         /\ \E n \in 0..Len(sink.pending) :
              write'.entries = write.entries \o SubSeq(sink.pending, 1, n)
  <2> SUFFICES ASSUME write' # write
               PROVE  /\ sink.open /\ write # NoFile
                      /\ write' \in Archive /\ write' # NoFile /\ write'.build = build
                      /\ ToSet(write.entries) \subseteq ToSet(write'.entries)
                      /\ \E n \in 0..Len(sink.pending) :
                           write'.entries = write.entries \o SubSeq(sink.pending, 1, n)
    OBVIOUS
  <2> DEFINE w == [write EXCEPT !.build = build, !.sliced = sink.broken]
  <2>1. sink.open /\ \E n \in 0..Len(sink.pending) : write' \in extended(w, sink.pending, n)
    BY DEF Kill
  <2>3. write \in Archive /\ write # NoFile /\ build \in Build
        /\ sink.broken \in BOOLEAN /\ sink.pending \in Seq(Key)
    BY <2>1, SinkFacts DEF Files, Types
  <2>4. w \in Archive /\ w.build = build /\ w.entries = write.entries
    BY <2>3, ArchiveFacts DEF Archive
  <2> HIDE DEF w
  <2>5. /\ write' \in Archive /\ write' # NoFile /\ write'.build = build
        /\ ToSet(write.entries) \subseteq ToSet(write'.entries)
        /\ \E n \in 0..Len(sink.pending) :
             write'.entries = write.entries \o SubSeq(sink.pending, 1, n)
    BY <2>1, <2>3, <2>4, ExtendedFacts
  <2> QED
    BY <2>1, <2>3, <2>5
<1>2. \/ merge' = merge
      \/ /\ pc \in {"append", "install"} /\ merge # NoFile
         /\ merge' \in Archive /\ merge' # NoFile /\ merge'.build = merge.build
         /\ ToSet(merge.entries) \subseteq ToSet(merge'.entries)
         /\ \E n \in 0..Len(added) :
              merge'.entries = merge.entries \o SubSeq(added, 1, n)
  <2> SUFFICES ASSUME pc \in {"append", "install"}
               PROVE  /\ merge # NoFile
                      /\ merge' \in Archive /\ merge' # NoFile /\ merge'.build = merge.build
                      /\ ToSet(merge.entries) \subseteq ToSet(merge'.entries)
                      /\ \E n \in 0..Len(added) :
                           merge'.entries = merge.entries \o SubSeq(added, 1, n)
    BY DEF Kill
  <2>1. \E n \in 0..Len(added) : merge' \in extended(merge, added, n)
    BY DEF Kill
  <2>2. merge \in Archive /\ merge # NoFile /\ added \in Seq(Key)
    BY DEF Types, Phases, Merging
  <2>3. /\ merge' \in Archive /\ merge' # NoFile /\ merge'.build = merge.build
        /\ ToSet(merge.entries) \subseteq ToSet(merge'.entries)
        /\ \E n \in 0..Len(added) :
             merge'.entries = merge.entries \o SubSeq(added, 1, n)
    BY <2>1, <2>2, ExtendedFacts
  <2> QED
    BY <2>2, <2>3
<1>3. "kill" \in Mishap /\ "merge error" \in Mishap /\ mishaps \in [Mishap -> Nat]
  BY DEF Mishap, Types
<1>4. /\ mishaps' \in [Mishap -> Nat] /\ \A k \in Mishap : mishaps'[k] >= mishaps[k]
      /\ mishaps'["merge error"] = mishaps["merge error"]
  BY <1>3, HappensFacts DEF Kill
<1>5. UNCHANGED <<read, build, stale, lost>> /\ pc' = "off"
  BY DEF Kill, forget
<1> QED
  BY <1>1, <1>2, <1>4, <1>5

\* The entries of a file, one by one, are keys.
LEMMA EntryFacts ==
  ASSUME NEW a \in Archive, NEW n, n \in Nat, n < Len(a.entries)
  PROVE  a.entries[n + 1] \in Key /\ n + 1 <= Len(a.entries) /\ n + 1 \in 1..Len(a.entries)
<1>1. a.entries \in Seq(Key) /\ n + 1 \in 1..Len(a.entries)
  BY ArchiveFacts
<1> QED
  BY <1>1

\* Appending leaves the files as they are, up to a part of an entry at the end of
\* the merge file.
LEMMA AppendEntryFiles ==
  ASSUME Types, Phases, AppendEntry
  PROVE  /\ UNCHANGED <<read, write, build, mapped>> /\ merge \in Archive
         /\ merge' \in Archive /\ merge' # NoFile
         /\ merge'.build = merge.build /\ merge'.entries = merge.entries
<1>1. UNCHANGED <<read, write, build, mapped>> /\ merge \in Archive
  BY DEF AppendEntry, Types, Phases, Merging
<1>2. merge' = merge \/ merge' = [merge EXCEPT !.sliced = TRUE]
  BY DEF AppendEntry
<1>3. /\ merge' \in Archive
      /\ merge'.build = merge.build /\ merge'.entries = merge.entries
  BY <1>1, <1>2 DEF Archive
<1> QED
  BY <1>1, <1>3, ArchiveFacts

\* The steps of the merge keep the types.
LEMMA MergeKeepsTypes ==
  ASSUME Inv, Merge
  PROVE  Types'
<1> USE DEF Inv
<1>1. CASE Promote
  BY <1>1 DEF Promote, Types, scan, output, history, Setup
<1>2. CASE Map
  <2>1. mishaps' \in [Mishap -> Nat]
    BY <1>2, HappensFacts DEF Map, Mishap, Types
  <2> QED
    BY <1>2, <2>1 DEF Map, Types, files, output, history, Setup
<1>3. CASE Claim
  BY <1>3 DEF Claim, Types, scan, output, history, Setup
<1>4. CASE Open
  <2>1. mishaps' \in [Mishap -> Nat]
    BY <1>4, HappensFacts DEF Open, Mishap, Types
  <2> QED
    BY <1>4, <2>1 DEF Open, Types, files, output, history, Setup
<1>5. CASE Discard
  BY <1>5 DEF Discard, Types, scan, output, history, Setup
<1>6. CASE Replace
  <2>1. mishaps' \in [Mishap -> Nat]
    BY <1>6, HappensFacts DEF Replace, Mishap, Types
  <2> QED
    BY <1>6, <2>1 DEF Replace, Types, scan, output, history, Setup
<1>7. CASE Scan
  <2>1. merge \in Archive
    BY <1>7 DEF Scan, Types, Phases, Merging
  <2>2. pos < Len(merge.entries) => merge.entries[pos + 1] \in Key
    BY <2>1, EntryFacts DEF Types
  <2>3. seen' \subseteq Key /\ pos' \in Nat /\ pc' \in Setup
    <3>1. CASE pos < Len(merge.entries)
      <4>1. pos' = pos + 1 /\ seen' = seen \cup {merge.entries[pos + 1]} /\ pc' = pc
        BY <1>7, <3>1 DEF Scan
      <4>2. pc' \in Setup
        BY <1>7, <4>1 DEF Scan, Setup
      <4> QED
        BY <2>2, <3>1, <4>1, <4>2 DEF Types
    <3>2. CASE ~(pos < Len(merge.entries))
      BY <1>7, <3>2 DEF Scan, Types, Setup
    <3> QED
      BY <3>1, <3>2
  <2> QED
    BY <1>7, <2>3 DEF Scan, Types, files, output, history
<1>8. CASE AppendEntry
  <2>1. mapped \in Archive /\ pos \in Nat /\ pos <= Len(mapped.entries)
    BY <1>8, DiskCacheAssumption DEF AppendEntry, Types, Phases, Mapped, valid
  <2>2. pos # Len(mapped.entries) => mapped.entries[pos + 1] \in Key
    <3>1. mapped.entries \in Seq(Key)
      BY <2>1, ArchiveFacts
    <3> QED
      BY <2>1, <3>1
  <2>3. seen' \subseteq Key /\ pos' \in Nat /\ added' \in Seq(Key)
    <3>1. CASE pos = Len(mapped.entries)
      BY <1>8, <3>1 DEF AppendEntry, Types
    <3>2. CASE pos # Len(mapped.entries)
      <4> DEFINE key == mapped.entries[pos + 1]
      <4>1. pos' = pos + 1 /\ seen' = seen \cup {key}
            /\ (added' = Append(added, key) \/ added' = added)
        BY <1>8, <3>2 DEF AppendEntry
      <4>2. added \in Seq(Key) /\ key \in Key /\ seen \subseteq Key
        BY <2>2, <3>2 DEF Types
      <4>3. Append(added, key) \in Seq(Key)
        BY <4>2
      <4> QED
        BY <2>1, <4>1, <4>2, <4>3
    <3> QED
      BY <3>1, <3>2
  <2>4. mishaps' \in [Mishap -> Nat]
    BY <1>8, HappensFacts DEF AppendEntry, Mishap, Types
  <2>5. pc' \in Setup
    BY <1>8 DEF AppendEntry, Setup
  <2> QED
    BY <1>8, <2>3, <2>4, <2>5, AppendEntryFiles DEF AppendEntry, Types, output, history
<1>9. CASE MoveBack
  <2>1. merge \in Archive /\ added \in Seq(Key)
    BY <1>9 DEF MoveBack, Types, Phases, Merging
  <2>2. read' \in Archive /\ <<>> \in Seq(Key)
    BY <1>9, <2>1, FlushedFacts DEF MoveBack
  <2> QED
    BY <1>9, <2>2 DEF MoveBack, Types, output, history, Setup, out_cancellation
<1>10. CASE Install
  <2>1. merge \in Archive /\ added \in Seq(Key)
    BY <1>10 DEF Install, Types, Phases, Merging
  <2>4. added' \in Seq(Key)
    BY <1>10, EmptyFacts DEF Install
  <2>2. read' \in Archive \cup {NoFile} /\ merge' \in Archive \cup {NoFile}
    BY <1>10, <2>1, FlushedFacts, ExtendedFacts DEF Install, Types
  <2>3. mishaps' \in [Mishap -> Nat]
    BY <1>10, HappensFacts DEF Install, Mishap, Types
  <2> QED
    BY <1>10, <2>2, <2>3, <2>4 DEF Install, Types, output, history, Setup
<1>11. CASE DropWrite
  BY <1>11 DEF DropWrite, Types, output, history, Setup
<1>12. CASE DropMerge
  BY <1>12 DEF DropMerge, Types, output, Setup
<1> QED
  BY <1>1, <1>2, <1>3, <1>4, <1>5, <1>6, <1>7, <1>8, <1>9, <1>10, <1>11, <1>12 DEF Merge

\* Saving a pipeline keeps the types.
LEMMA SaveKeepsTypes ==
  ASSUME Inv, NEW p \in Pipeline, save_pipeline_state(p)
  PROVE  /\ write' \in Archive \cup {NoFile} /\ lib' \subseteq Key /\ sink' \in Sink
         /\ dirty' \in BOOLEAN /\ mishaps' \in [Mishap -> Nat]
<1>1. CASE UNCHANGED <<write, lib, sink, dirty, mishaps>>
  BY <1>1 DEF Inv, Types
<1>2. CASE /\ dirty' = TRUE
           /\ lib' = lib \cup ToSet(Serialized(p)) /\ notify(Serialized(p))
  <2>1. /\ Serialized(p) \in Seq(Key) /\ Len(Serialized(p)) > 0
        /\ ToSet(Serialized(p)) \subseteq Key
    BY SerializedFacts, ToSetFacts DEF Inv
  <2>2. sink' \in Sink /\ mishaps' \in [Mishap -> Nat]
    BY <1>2, <2>1, NotifyFacts DEF Inv
  <2>3. write' = write \/ write' = [build |-> NoBuild, entries |-> <<>>, sliced |-> FALSE]
    BY <1>2, <2>1, NotifyFacts DEF Inv
  <2>4. [build |-> NoBuild, entries |-> <<>>, sliced |-> FALSE] \in Archive
    BY DEF Archive
  <2> QED
    BY <1>2, <2>1, <2>2, <2>3, <2>4 DEF Inv, Types
<1> QED
  BY <1>1, <1>2, SaveFacts DEF Inv

\* What is written when the write file is flushed.
LEMMA FlushKeepsTypes ==
  ASSUME Inv, write' = IF sink.open THEN written ELSE write
  PROVE  write' \in Archive \cup {NoFile}
BY WrittenFacts DEF Inv, Types, Files

\* All steps keep the types.
LEMMA TypesStep ==
  ASSUME Inv, [Next]_vars
  PROVE  Types'
<1> USE DEF Inv
<1>1. CASE Merge
  BY <1>1, MergeKeepsTypes
<1>2. CASE Load
  BY <1>2 DEF Load, Types, files, output, history, Setup, Running
<1>3. CASE Parse
  <2>1. read \in Archive
    BY <1>3 DEF Parse, Types, Phases, valid
  <2>3. pos < Len(read.entries) => read.entries[pos + 1] \in Key
    BY <2>1, EntryFacts DEF Types
  <2>2. lib' \subseteq Key /\ pos' \in Nat
    <3>1. CASE pos < Len(read.entries) /\ ~cancel
      BY <1>3, <2>3, <3>1 DEF Parse, Types
    <3>2. CASE ~(pos < Len(read.entries) /\ ~cancel)
      BY <1>3, <3>2 DEF Parse, Types
    <3> QED
      BY <3>1, <3>2
  <2> QED
    BY <1>3, <2>2 DEF Parse, Types, files, output, history, Setup, Running
<1>4. CASE WakeUp
  <2>1. mishaps' \in [Mishap -> Nat]
    BY <1>4, HappensFacts DEF WakeUp, Mishap, Types
  <2>2. wake' \in {"signal", "timeout", "stop", "error"}
    BY <1>4 DEF WakeUp
  <2>3. items' \in Seq(Pipeline) /\ todo' \in Seq(Pipeline)
    BY <1>4, EmptyFacts DEF WakeUp, Types
  <2>4. pc' \in Running
    BY <1>4 DEF WakeUp, Running
  <2> QED
    BY <1>4, <2>1, <2>2, <2>3, <2>4 DEF WakeUp, Types, files, scan, history
<1>5. CASE Save
  <2>1. Head(todo) \in Pipeline /\ todo' \in Seq(Pipeline)
    BY <1>5, ToSetFacts DEF Save, Types
  <2>2. /\ write' \in Archive \cup {NoFile} /\ lib' \subseteq Key /\ sink' \in Sink
        /\ dirty' \in BOOLEAN /\ mishaps' \in [Mishap -> Nat]
    BY <1>5, <2>1, SaveKeepsTypes DEF Save
  <2> QED
    BY <1>5, <2>1, <2>2 DEF Save, Types, scan, history
<1>6. CASE Saved
  <2>1. write' \in Archive \cup {NoFile}
    BY <1>6, FlushKeepsTypes DEF Saved, Types
  <2>2. sink' \in Sink
    <3>1. sink' = sink \/ sink' = [sink EXCEPT !.pending = <<>>]
      BY <1>6 DEF Saved
    <3>2. [sink EXCEPT !.pending = <<>>] \in Sink
      BY EmptyFacts DEF Types, Sink
    <3> QED
      BY <3>1, <3>2 DEF Types
  <2>3. pc' \in Running /\ dirty' \in BOOLEAN
    BY <1>6 DEF Saved, Running, Types
  <2> QED
    BY <1>6, <2>1, <2>2, <2>3 DEF Saved, Types, scan, history
<1>7. CASE SaveRemaining
  <2>1. Head(items) \in Pipeline /\ items' \in Seq(Pipeline)
    BY <1>7, ToSetFacts DEF SaveRemaining, Types
  <2>2. /\ write' \in Archive \cup {NoFile} /\ lib' \subseteq Key /\ sink' \in Sink
        /\ dirty' \in BOOLEAN /\ mishaps' \in [Mishap -> Nat]
    BY <1>7, <2>1, SaveKeepsTypes DEF SaveRemaining
  <2> QED
    BY <1>7, <2>1, <2>2 DEF SaveRemaining, Types, scan, history
<1>8. CASE Exit
  <2>1. write' \in Archive \cup {NoFile}
    BY <1>8, FlushKeepsTypes DEF Exit
  <2>2. sink' \in Sink
    <3>1. sink' = [sink EXCEPT !.open = FALSE, !.pending = <<>>]
      BY <1>8 DEF Exit
    <3> QED
      BY <3>1, EmptyFacts DEF Types, Sink
  <2> QED
    BY <1>8, <2>1, <2>2 DEF Exit, Types, scan, history, Running
<1>9. CASE Start
  BY <1>9 DEF Start, Types, files, scan, output, Setup
<1>10. CASE Cancel
  <2>1. mishaps' \in [Mishap -> Nat]
    BY <1>10, HappensFacts DEF Cancel, Mishap, Types
  <2> QED
    BY <1>10, <2>1 DEF Cancel, Types, files, scan, output, history
<1>11. CASE Deactivate
  BY <1>11 DEF Deactivate, Types, files, scan, output, history
<1>12. CASE Join \/ Kill
  <2>1. forget /\ UNCHANGED <<read, build, stale, lost>>
    BY <1>12 DEF Join, Kill, files
  <2>2. {write', merge'} \subseteq Archive \cup {NoFile} /\ mishaps' \in [Mishap -> Nat]
    BY <1>12, KillFacts DEF Join, files, Types
  <2>3. sink' \in Sink
    BY <2>1 DEF forget, Closed, Sink
  <2>4. items' \in Seq(Pipeline) /\ todo' \in Seq(Pipeline) /\ added' \in Seq(Key)
    BY <2>1 DEF forget
  <2> QED
    BY <2>1, <2>2, <2>3, <2>4 DEF forget, Types
<1>13. CASE Update
  <2>1. mishaps' \in [Mishap -> Nat] /\ build' \in Build
    BY <1>13, HappensFacts DEF Update, Mishap, Types
  <2> QED
    BY <1>13, <2>1 DEF Update, Types, files, scan, output, history
<1>14. ASSUME NEW p \in Pipeline, Push(p) PROVE Types'
  <2>1. items' \in Seq(Pipeline)
    BY <1>14, AppendFacts DEF Push, Types
  <2> QED
    BY <1>14, <2>1 DEF Push, Types, files, scan, output
<1>15. CASE UNCHANGED vars
  BY <1>15 DEF vars, Types, files, scan, output, history
<1> QED
  BY <1>1, <1>2, <1>3, <1>4, <1>5, <1>6, <1>7, <1>8, <1>9, <1>10, <1>11, <1>12, <1>13,
     <1>14, <1>15 DEF Next, DiskThread

-----------------------------------------------------------------------------
(***************************************************************************)
(* Where the thread is, and the files there are.                           *)
(***************************************************************************)

\* A valid file is a file.
LEMMA ValidFacts ==
  ASSUME NEW a, valid(a), a \in Archive \cup {NoFile}
  PROVE  a \in Archive /\ a # NoFile /\ a.build = build
BY DEF valid

\* The steps of the merge keep track of the phases.
LEMMA MergeKeepsPhases ==
  ASSUME Inv, Merge
  PROVE  Phases'
<1> USE DEF Inv
<1>1. CASE Promote
  BY <1>1 DEF Promote, Phases, scan, output, history, Running, Mapped, Merging, valid
<1>2. CASE Map
  BY <1>2 DEF Map, Phases, files, output, history, Running, Mapped, Merging, valid
<1>3. CASE Claim
  BY <1>3 DEF Claim, Phases, scan, output, history, Running, Mapped, Merging, valid
<1>4. CASE Open
  BY <1>4 DEF Open, Phases, files, output, history, Running, Mapped, Merging, valid
<1>5. CASE Discard
  BY <1>5 DEF Discard, Phases, scan, output, history, Running, Mapped, Merging, valid
<1>6. CASE Replace
  BY <1>6 DEF Replace, Phases, scan, output, history, Running, Mapped, Merging, valid
<1>7. CASE Scan
  <2>1. 0 <= Len(mapped.entries)
    <3>1. mapped \in Archive
      BY <1>7, ValidFacts DEF Scan, Phases, Mapped, Types
    <3> QED
      BY <3>1, ArchiveFacts
  <2> QED
    BY <1>7, <2>1 DEF Scan, Phases, files, output, history, Running, Mapped, Merging, valid
<1>8. CASE AppendEntry
  <2>1. mapped \in Archive /\ pos \in Nat /\ pos <= Len(mapped.entries)
    BY <1>8, ValidFacts DEF AppendEntry, Types, Phases, Mapped
  <2>2. mapped.entries \in Seq(Key)
    BY <2>1, ArchiveFacts
  <2>3. pc' = "append" => pos' <= Len(mapped'.entries)
    BY <1>8, <2>1, <2>2 DEF AppendEntry
  <2>4. pc' \in {"append", "install"} /\ UNCHANGED <<mapped, build, read, write, sink, todo>>
    BY <1>8 DEF AppendEntry, Phases, output
  <2>5. merge' # NoFile /\ merge'.build = merge.build
    BY <1>8, AppendEntryFiles
  <2> QED
    BY <1>8, <2>3, <2>4, <2>5 DEF AppendEntry, Phases, output, Running, Mapped, Merging, valid
<1>9. CASE MoveBack
  BY <1>9 DEF MoveBack, Phases, output, history, Running, Mapped, Merging, out_cancellation
<1>10. CASE Install
  BY <1>10 DEF Install, Phases, output, history, Running, Mapped, Merging
<1>11. CASE DropWrite
  BY <1>11 DEF DropWrite, Phases, output, history, Running, Mapped, Merging
<1>12. CASE DropMerge
  BY <1>12 DEF DropMerge, Phases, output, Running, Mapped, Merging
<1> QED
  BY <1>1, <1>2, <1>3, <1>4, <1>5, <1>6, <1>7, <1>8, <1>9, <1>10, <1>11, <1>12 DEF Merge

\* A thread that has finished the setup has nothing to do with the merge.
LEMMA RunningPhases ==
  ASSUME Phases, pc \in Running, pc' \in Running, UNCHANGED added
  PROVE  Phases'
BY DEF Phases, Running, Mapped, Merging

\* All steps do.
LEMMA PhasesStep ==
  ASSUME Inv, [Next]_vars
  PROVE  Phases'
<1> USE DEF Inv
<1>1. CASE Merge
  BY <1>1, MergeKeepsPhases
<1>2. CASE Load
  BY <1>2 DEF Load, Phases, files, output, history, Running, Mapped, Merging, valid
<1>3. CASE Parse
  BY <1>3 DEF Parse, Phases, files, output, history, Running, Mapped, Merging, valid
<1>4. CASE WakeUp \/ Save \/ Saved \/ SaveRemaining \/ Exit
  <2>1. pc \in Running /\ pc' \in Running /\ UNCHANGED added
    BY <1>4 DEF WakeUp, Save, Saved, SaveRemaining, Exit, scan, Running
  <2> QED
    BY <2>1, RunningPhases
<1>5. CASE Start
  BY <1>5 DEF Start, Phases, files, scan, output, Running, Mapped, Merging, valid
<1>6. CASE Cancel \/ Deactivate \/ \E p \in Pipeline : Push(p)
  <2>1. /\ UNCHANGED <<read, write, merge, build, pc, mapped, pos, added, sink, todo>>
        /\ pc # "off"
    BY <1>6 DEF Cancel, Deactivate, Push, files, scan, output, Phases
  <2> QED
    BY <2>1 DEF Phases, valid
<1>7. CASE Join \/ Kill
  <2>1. /\ pc' = "off" /\ added' = <<>> /\ sink' = Closed /\ todo' = <<>>
        /\ ~cancel' /\ ~thread_active'
    BY <1>7 DEF Join, Kill, forget
  <2> QED
    BY <2>1 DEF Phases, Running, Mapped, Merging
<1>8. CASE Update
  <2>1. pc' = "off" /\ UNCHANGED <<added, sink, todo, cancel, thread_active>> /\ pc = "off"
    BY <1>8 DEF Update, scan, output
  <2> QED
    BY <2>1 DEF Phases, Running, Mapped, Merging
<1>9. CASE UNCHANGED vars
  BY <1>9 DEF vars, Phases, files, scan, output, history, valid
<1> QED
  BY <1>1, <1>2, <1>3, <1>4, <1>5, <1>6, <1>7, <1>8, <1>9 DEF Next, DiskThread

\* The steps of the merge keep track of the files.
LEMMA MergeKeepsFiles ==
  ASSUME Inv, Merge
  PROVE  Files'
<1> USE DEF Inv
<1>0. sink = Closed /\ ~sink.open /\ ~sink.attempted /\ sink.pending = <<>> /\ sink' = sink
  <2>1. pc \notin Running /\ sink' = sink
    BY DEF Merge, Promote, Map, Claim, Open, Discard, Replace, Scan, AppendEntry, MoveBack,
           Install, DropWrite, DropMerge, output, Running
  <2> QED
    BY <2>1 DEF Phases, Closed
<1>a. mishaps'["haste"] = mishaps["haste"] /\ cancel' = cancel /\ pc \in Setup
  <2>1. CASE UNCHANGED mishaps
    BY <2>1 DEF Merge, Promote, Map, Claim, Open, Discard, Replace, Scan, AppendEntry, MoveBack,
                Install, DropWrite, DropMerge, Setup
  <2>2. CASE happens("merge error")
    <3>1. mishaps'["haste"] = mishaps["haste"]
      BY <2>2, HappensFacts DEF Types, Mishap
    <3> QED
      BY <3>1 DEF Merge, Promote, Map, Claim, Open, Discard, Replace, Scan, AppendEntry,
                  MoveBack, Install, DropWrite, DropMerge, Setup
  <2>3. (UNCHANGED mishaps) \/ happens("merge error")
    BY DEF Merge, Promote, Map, Claim, Open, Discard, Replace, Scan, AppendEntry, MoveBack,
           Install, DropWrite, DropMerge, history
  <2> QED
    BY <2>1, <2>2, <2>3
<1>b. cancel => mishaps["haste"] > 0
  BY <1>a DEF Files
<1>1. read' = NoFile \/ write' = NoFile \/ merge' = NoFile
  BY DEF Merge, Promote, Map, Claim, Open, Discard, Replace, Scan, AppendEntry, MoveBack,
         Install, DropWrite, DropMerge, Files, Phases, Merging, files
<1>2. pc' \in Running \cup {"load", "parse"} =>
        merge' = NoFile /\ (write' = NoFile \/ cancel)
  BY DEF Merge, Promote, Map, Claim, Open, Discard, Replace, Scan, AppendEntry, MoveBack,
         Install, DropWrite, DropMerge, Running, Phases, out_cancellation
<1> QED
  BY <1>0, <1>a, <1>b, <1>1, <1>2 DEF Files

\* So does saving a pipeline.
LEMMA SaveKeepsFiles ==
  ASSUME Inv, NEW p \in Pipeline, save_pipeline_state(p), pc \in Running \ {"exited"},
         UNCHANGED <<read, merge, pc, cancel>>
  PROVE  Files'
<1> USE DEF Inv
<1>1. CASE UNCHANGED <<write, lib, sink, dirty, mishaps>>
  BY <1>1 DEF Files
<1>2. CASE notify(Serialized(p))
  <2>0. Serialized(p) \in Seq(Key) /\ Len(Serialized(p)) > 0
    BY SerializedFacts
  <2>1. /\ sink'.attempted
        /\ write' = write \/ ~sink.attempted
        /\ sink'.open => sink.open \/ (~sink.attempted /\ write = NoFile /\ write' # NoFile)
        /\ sink'.pending = sink.pending \/ sink'.open
        /\ sink.open => sink'.open
        /\ sink.open => write' = write
    BY <1>2, <2>0, NotifyFacts DEF Files
  <2>2. merge = NoFile
    BY DEF Files
  <2>3. pc \notin Setup /\ pc # "exited"
    BY DEF Running, Setup
  <2> QED
    BY <2>1, <2>2, <2>3 DEF Files
<1> QED
  BY <1>1, <1>2, SaveFacts

\* All steps do.
LEMMA FilesStep ==
  ASSUME Inv, [Next]_vars
  PROVE  Files'
<1> USE DEF Inv
<1>1. CASE Merge
  BY <1>1, MergeKeepsFiles
<1>2. CASE Load \/ Parse \/ Start \/ UNCHANGED vars
  <2>1. UNCHANGED <<files, sink, cancel, mishaps>> /\ (sink.open => pc' = pc)
    BY <1>2 DEF Load, Parse, Start, vars, output, Phases, Running, Closed
  <2>2. /\ pc' \in Running \cup {"load", "parse"} => pc \in Running \cup {"load", "parse"}
        /\ pc' \in Setup => pc \in Setup \/ ~cancel
    <3>1. CASE Start
      BY <3>1 DEF Start, Running, Phases
    <3>2. CASE ~Start
      BY <1>2, <3>2 DEF Load, Parse, vars, Running, Setup
    <3> QED
      BY <3>1, <3>2
  <2> QED
    BY <2>1, <2>2 DEF Files, files
<1>3. CASE WakeUp
  <2>1. mishaps'["haste"] = mishaps["haste"]
    <3>1. (UNCHANGED mishaps) \/ happens("save error")
      BY <1>3 DEF WakeUp
    <3> QED
      BY <3>1, HappensFacts DEF Types, Mishap
  <2> QED
    BY <1>3, <2>1 DEF WakeUp, Files, files, Running, Setup
<1>4. CASE Save
  <2>1. Head(todo) \in Pipeline /\ pc \in Running \ {"exited"}
    BY <1>4, ToSetFacts DEF Save, Types, Running
  <2> QED
    BY <1>4, <2>1, SaveKeepsFiles DEF Save
<1>5. CASE SaveRemaining
  <2>1. Head(items) \in Pipeline /\ pc \in Running \ {"exited"}
    BY <1>5, ToSetFacts DEF SaveRemaining, Types, Running
  <2> QED
    BY <1>5, <2>1, SaveKeepsFiles DEF SaveRemaining
<1>6. CASE Saved \/ Exit
  <2>1. /\ sink' = sink \/ sink' = [sink EXCEPT !.pending = <<>>]
           \/ (sink' = [sink EXCEPT !.open = FALSE, !.pending = <<>>])
        /\ pc' = "exited" => sink' = [sink EXCEPT !.open = FALSE, !.pending = <<>>]
    BY <1>6 DEF Saved, Exit
  <2>2. /\ sink'.attempted = sink.attempted
        /\ sink'.open => sink.open /\ pc' # "exited"
        /\ ~sink'.open => sink'.pending = <<>>
    BY <2>1, SinkFacts DEF Files, Types, Sink
  <2>3. write' = write \/ (sink.open /\ write' # NoFile)
    BY <1>6, WrittenFacts DEF Saved, Exit, Files, Types
  <2>4. /\ pc \in Running /\ pc' \in Running /\ pc' \notin Setup
        /\ UNCHANGED <<read, merge, cancel, mishaps>>
    BY <1>6 DEF Saved, Exit, Running, Setup
  <2> QED
    BY <2>2, <2>3, <2>4 DEF Files
<1>7. CASE Cancel
  <2>1. pc \in Setup => mishaps'["haste"] > 0
    BY <1>7, HappensFacts DEF Cancel, Types, Mishap
  <2>2. mishaps["haste"] > 0 => mishaps'["haste"] > 0
    <3>1. CASE UNCHANGED mishaps
      BY <3>1
    <3>2. CASE happens("haste")
      BY <3>2, HappensFacts DEF Types, Mishap
    <3> QED
      BY <1>7, <3>1, <3>2 DEF Cancel
  <2>3. {"load", "parse"} \subseteq Setup
    BY DEF Setup
  <2> QED
    BY <1>7, <2>1, <2>2, <2>3 DEF Cancel, Files, files, output
<1>8. CASE Deactivate \/ \E p \in Pipeline : Push(p)
  BY <1>8 DEF Deactivate, Push, Files, files, output
<1>9. CASE Join \/ Kill \/ Update
  <2>1. pc' = "off" /\ sink' = Closed
    BY <1>9 DEF Join, Kill, Update, forget, output, Phases, Running
  <2>2. read' = NoFile \/ write' = NoFile \/ merge' = NoFile
    BY <1>9, KillFacts DEF Join, Update, files, Files
  <2> QED
    BY <2>1, <2>2 DEF Files, Closed, Running, Setup
<1> QED
  BY <1>1, <1>2, <1>3, <1>4, <1>5, <1>6, <1>7, <1>8, <1>9 DEF Next, DiskThread

-----------------------------------------------------------------------------
(***************************************************************************)
(* A finished merge has everything.                                        *)
(***************************************************************************)

\* One more entry is passed.
LEMMA NextEntry ==
  ASSUME NEW s \in Seq(Key), NEW n, n \in Nat, n < Len(s)
  PROVE  {s[i] : i \in 1..(n + 1)} = {s[i] : i \in 1..n} \cup {s[n + 1]}
<1>1. \A i : i \in 1..(n + 1) <=> i \in 1..n \/ i = n + 1
  OBVIOUS
<1> QED
  BY <1>1

\* Nothing is passed yet.
LEMMA NoEntry ==
  ASSUME NEW s
  PROVE  {s[i] : i \in 1..0} = {}
OBVIOUS

\* The scans.
LEMMA ScanStep ==
  ASSUME Inv, Scan
  PROVE  MergeIsComplete'
<1> USE DEF Inv
<1>1. /\ pc = "scan" /\ UNCHANGED <<merge, write, added>> /\ added = <<>>
      /\ pos <= Len(merge.entries) /\ seen = {merge.entries[i] : i \in 1..pos}
      /\ merge \in Archive /\ pos \in Nat
  BY DEF Scan, MergeIsComplete, Phases, files, Types, Merging
<1>2. merge.entries \in Seq(Key)
  BY <1>1, ArchiveFacts
<1>3. CASE pos < Len(merge.entries)
  <2>1. /\ seen' = seen \cup {merge.entries[pos + 1]} /\ pos' = pos + 1 /\ pc' = "scan"
    BY <1>1, <1>3 DEF Scan
  <2>2. seen' = {merge.entries[i] : i \in 1..(pos + 1)}
    BY <1>1, <1>2, <1>3, <2>1, NextEntry
  <2>3. pos + 1 <= Len(merge.entries)
    BY <1>1, <1>2, <1>3
  <2> QED
    BY <1>1, <2>1, <2>2, <2>3 DEF MergeIsComplete
<1>4. CASE ~(pos < Len(merge.entries))
  <2>1. pc' = "append" /\ pos' = 0 /\ seen' = seen
    BY <1>4 DEF Scan
  <2>2. pos = Len(merge.entries)
    BY <1>1, <1>2, <1>4
  <2>3. seen = ToSet(merge.entries)
    BY <1>1, <1>2, <2>2, ToSetFacts
  <2>4. {write.entries[i] : i \in 1..0} = {} /\ ToSet(added) = {}
    BY <1>1, EmptyFacts, NoEntry
  <2> QED
    BY <1>1, <2>1, <2>3, <2>4 DEF MergeIsComplete
<1> QED
  BY <1>3, <1>4

\* An entry of the write cache is appended, unless the merge file has it.
LEMMA AppendEntryStep ==
  ASSUME Inv, AppendEntry
  PROVE  MergeIsComplete'
<1> USE DEF Inv
<1>1. /\ pc = "append" /\ UNCHANGED <<write, mapped>> /\ mapped = write
      /\ merge'.entries = merge.entries
      /\ seen = ToSet(merge.entries) \cup {write.entries[i] : i \in 1..pos}
      /\ seen = ToSet(merge.entries) \cup ToSet(added)
      /\ write \in Archive /\ pos \in Nat /\ pos <= Len(write.entries)
      /\ added \in Seq(Key)
  BY ValidFacts, AppendEntryFiles DEF AppendEntry, MergeIsComplete, Phases, Types, Mapped
<1>2. write.entries \in Seq(Key)
  BY <1>1, ArchiveFacts
<1>3. CASE pos = Len(write.entries)
  <2>1. pc' = "install" /\ UNCHANGED <<seen, added>>
    BY <1>1, <1>3 DEF AppendEntry
  <2>2. ToSet(write.entries) \subseteq ToSet(merge.entries) \cup ToSet(added)
    BY <1>1, <1>2, <1>3, ToSetFacts
  <2> QED
    BY <1>1, <2>1, <2>2 DEF MergeIsComplete
<1>4. CASE pos # Len(write.entries)
  <2> DEFINE key == write.entries[pos + 1]
  <2>1. /\ pos' = pos + 1 /\ seen' = seen \cup {key}
        /\ \/ pc' = pc /\ added' = IF IsNew(key) THEN Append(added, key) ELSE added
           \/ pc' = "install" /\ happens("merge error")
    BY <1>1, <1>4 DEF AppendEntry
  <2>2. pos < Len(write.entries) /\ key \in Key
    BY <1>1, <1>2, <1>4, EntryFacts
  <2>3. {write.entries[i] : i \in 1..(pos + 1)} = {write.entries[i] : i \in 1..pos} \cup {key}
    BY <1>1, <1>2, <2>2, NextEntry
  <2>4. CASE pc' = pc /\ added' = IF IsNew(key) THEN Append(added, key) ELSE added
    <3>1. CASE key \notin seen
      <4>1. added' = Append(added, key)
        BY <2>4, <3>1 DEF IsNew
      <4>2. ToSet(added') = ToSet(added) \cup {key}
        BY <1>1, <2>2, <4>1, AppendFacts
      <4> QED
        BY <1>1, <2>1, <2>3, <2>4, <4>2 DEF MergeIsComplete
    <3>2. CASE key \in seen
      <4>1. added' = added /\ seen' = seen
        BY <2>1, <2>4, <3>2 DEF IsNew
      <4> QED
        BY <1>1, <2>1, <2>3, <2>4, <3>2, <4>1 DEF MergeIsComplete
    <3> QED
      BY <3>1, <3>2
  <2>5. CASE pc' = "install" /\ happens("merge error")
    <3>1. mishaps'["merge error"] # 0
      BY <2>5, HappensFacts DEF Types, Mishap
    <3> QED
      BY <2>5, <3>1 DEF MergeIsComplete
  <2> QED
    BY <2>1, <2>4, <2>5
<1> QED
  BY <1>3, <1>4

\* The merge file, or what it has become, has the write cache before that goes.
LEMMA InstallStep ==
  ASSUME Inv, Install
  PROVE  MergeIsComplete'
<1> USE DEF Inv
<1>1. /\ pc = "install" /\ pc' = "drop_write" /\ UNCHANGED <<write, build>>
      /\ merge \in Archive /\ merge.build = build /\ added \in Seq(Key)
  BY ValidFacts DEF Install, Phases, Merging, Types
<1>2. CASE happens("merge error")
  <2>1. mishaps'["merge error"] > 0 /\ mishaps'["merge error"] # 0
    BY <1>2, HappensFacts DEF Types, Mishap
  <2> QED
    BY <1>1, <2>1 DEF MergeIsComplete
<1>3. CASE read' \in flushed(merge, added) /\ merge' = NoFile /\ UNCHANGED mishaps
  <2>1. /\ read' # NoFile /\ read'.build = build
        /\ ToSet(read'.entries) = ToSet(merge.entries) \cup ToSet(added)
    BY <1>1, <1>3, FlushedFacts
  <2>2. Stored(read)' = ToSet(merge.entries) \cup ToSet(added)
    BY <1>1, <2>1 DEF Stored, valid
  <2>3. Stored(write)' \subseteq ToSet(write.entries)
    BY <1>1 DEF Stored, valid
  <2> QED
    BY <1>1, <1>3, <2>2, <2>3 DEF MergeIsComplete
<1> QED
  BY <1>2, <1>3 DEF Install

\* All steps keep track of the merge.
LEMMA MergeIsCompleteStep ==
  ASSUME Inv, [Next]_vars
  PROVE  MergeIsComplete'
<1> USE DEF Inv
<1>1. CASE Promote
  <2>1. pc = "promote" /\ pc' \in {"drop_write", "map"} /\ UNCHANGED <<merge, stale, mishaps>>
        /\ (pc' = "drop_write" => write' = NoFile)
    BY <1>1 DEF Promote, history
  <2> QED
    BY <2>1 DEF MergeIsComplete, Stored, valid
<1>2. CASE Map
  <2>1. pc = "map" /\ UNCHANGED <<files, build, stale>> /\ pc' \in {"claim", "drop_write"}
    BY <1>2 DEF Map, history
  <2>2. CASE UNCHANGED mishaps /\ (pc' = "drop_write" => ~valid(write))
    BY <2>1, <2>2 DEF MergeIsComplete, Stored, valid, files
  <2>3. CASE pc' = "drop_write" /\ happens("merge error")
    <3>1. mishaps'["merge error"] > 0 /\ mishaps'["merge error"] # 0
      BY <2>3, HappensFacts DEF Types, Mishap
    <3> QED
      BY <2>3, <3>1 DEF MergeIsComplete
  <2> QED
    BY <1>2, <2>2, <2>3 DEF Map
<1>3. CASE Claim
  <2>1. pc = "claim" /\ pc' = "open"
    BY <1>3 DEF Claim, Phases, Mapped, Files, valid
  <2> QED
    BY <2>1 DEF MergeIsComplete
<1>4. CASE Open
  <2>1. CASE pc' = "scan"
    <3>1. pos' = 0 /\ seen' = {} /\ merge' = merge /\ merge \in Archive
      BY <1>4, <2>1 DEF Open, files, Phases, Merging, Types
    <3>2. 0 <= Len(merge.entries)
      BY <3>1, ArchiveFacts
    <3>3. {merge.entries[i] : i \in 1..0} = {}
      BY NoEntry
    <3> QED
      BY <2>1, <3>1, <3>2, <3>3 DEF MergeIsComplete
  <2>2. CASE pc' = "discard"
    BY <2>2 DEF MergeIsComplete
  <2>3. CASE pc' = "drop_write" /\ happens("merge error")
    <3>1. mishaps'["merge error"] > 0 /\ mishaps'["merge error"] # 0
      BY <2>3, HappensFacts DEF Types, Mishap
    <3> QED
      BY <2>3, <3>1 DEF MergeIsComplete
  <2> QED
    BY <1>4, <2>1, <2>2, <2>3 DEF Open
<1>5. CASE Discard \/ MoveBack \/ Load \/ Parse
  <2>1. pc' \in {"replace", "load", "parse", "idle"}
    BY <1>5 DEF Discard, MoveBack, Load, Parse, out_cancellation
  <2> QED
    BY <2>1 DEF MergeIsComplete
<1>6. CASE Replace
  <2>1. pc' = "drop_write" /\ merge' = NoFile
    BY <1>6 DEF Replace, Phases
  <2>2. CASE write' = NoFile
    BY <2>1, <2>2 DEF MergeIsComplete, Stored, valid
  <2>3. CASE happens("merge error")
    <3>1. mishaps'["merge error"] # 0
      BY <2>3, HappensFacts DEF Types, Mishap
    <3> QED
      BY <2>1, <3>1 DEF MergeIsComplete
  <2> QED
    BY <1>6, <2>2, <2>3 DEF Replace
<1>7. CASE Scan
  BY <1>7, ScanStep
<1>8. CASE AppendEntry
  BY <1>8, AppendEntryStep
<1>9. CASE Install
  BY <1>9, InstallStep
<1>10. CASE DropWrite
  <2>1. pc = "drop_write" /\ pc' = "drop_merge" /\ UNCHANGED <<merge, stale, mishaps>>
    BY <1>10 DEF DropWrite, history
  <2> QED
    BY <2>1 DEF MergeIsComplete
<1>11. CASE DropMerge \/ WakeUp \/ Save \/ Saved \/ SaveRemaining \/ Exit
  <2>1. pc' \in Running \cup {"load"}
    BY <1>11 DEF DropMerge, WakeUp, Save, Saved, SaveRemaining, Exit, Running
  <2> QED
    BY <2>1 DEF MergeIsComplete, Running
<1>12. CASE Start
  BY <1>12 DEF Start, MergeIsComplete, files
<1>13. CASE Cancel
  <2>1. UNCHANGED <<files, build, pc, pos, seen, added, stale>>
    BY <1>13 DEF Cancel, scan, history
  <2>2. mishaps'["merge error"] = mishaps["merge error"]
    BY <1>13, HappensFacts DEF Cancel, Types, Mishap
  <2> QED
    BY <2>1, <2>2 DEF MergeIsComplete, files, Stored, valid
<1>14. CASE Deactivate \/ (\E p \in Pipeline : Push(p)) \/ UNCHANGED vars
  <2>1. UNCHANGED <<files, build, pc, pos, seen, added, stale, mishaps>>
    BY <1>14 DEF Deactivate, Push, vars, scan, history
  <2> QED
    BY <2>1 DEF MergeIsComplete, files, Stored, valid
<1>15. CASE Join \/ Kill \/ Update
  <2>1. pc' = "off"
    BY <1>15 DEF Join, Kill, Update, forget
  <2> QED
    BY <2>1 DEF MergeIsComplete
<1> QED
  BY <1>1, <1>2, <1>3, <1>4, <1>5, <1>6, <1>7, <1>8, <1>9, <1>10, <1>11, <1>12, <1>13,
     <1>14, <1>15 DEF Next, DiskThread, Merge

-----------------------------------------------------------------------------
(***************************************************************************)
(* The first theorems.                                                     *)
(***************************************************************************)

\* Before the first session there are no files.
LEMMA InvInit == Init => Inv
<1> SUFFICES ASSUME Init PROVE Inv
  OBVIOUS
<1>1. Types
  <2>1. sink \in Sink /\ <<>> \in Seq(Pipeline) /\ <<>> \in Seq(Key)
    BY EmptyFacts DEF Init, Closed, Sink
  <2>2. mishaps \in [Mishap -> Nat]
    BY DEF Init
  <2> QED
    BY <2>1, <2>2 DEF Init, Types
<1>2. Phases /\ Files
  BY DEF Init, Phases, Files, Running, Mapped, Merging, Closed, Setup
<1>3. MergeIsComplete
  BY DEF Init, MergeIsComplete
<1> QED
  BY <1>1, <1>2, <1>3 DEF Inv

\* The invariant holds in every reachable state.
LEMMA Invariance == Spec => []Inv
<1>1. Inv /\ [Next]_vars => Inv'
  BY TypesStep, PhasesStep, FilesStep, MergeIsCompleteStep DEF Inv
<1> QED
  BY <1>1, InvInit, PTL DEF Spec

\* Every variable keeps its type, and a merge does not read behind the entries of
\* the mapped write cache.
THEOREM TypeCorrect == Spec => []TypeOK
<1>1. Inv => TypeOK
  <2> SUFFICES ASSUME Inv PROVE TypeOK
    OBVIOUS
  <2>1. {items, todo} \subseteq Seq(Pipeline)
    BY DEF Inv, Types
  <2>2. pc = "append" => pos <= Len(mapped.entries)
    BY DEF Inv, Phases
  <2> QED
    BY <2>1, <2>2 DEF Inv, Types, TypeOK, Running
<1> QED
  BY <1>1, Invariance, PTL

\* Behind the setup, of the three files only the read-only cache remains, with
\* what this session writes, unless it is being torn down.
THEOREM OnlyReadRemainsAlways == Spec => []OnlyReadRemains
<1>1. Inv => OnlyReadRemains
  BY DEF Inv, Types, Files, OnlyReadRemains
<1> QED
  BY <1>1, Invariance, PTL

-----------------------------------------------------------------------------
(***************************************************************************)
(* What is stored stays.                                                   *)
(***************************************************************************)

\* The steps of the merge that move or delete a file.
LEMMA MergeKeepsStored ==
  ASSUME Inv, Merge
  PROVE  /\ \/ Stored(read) \cup Stored(merge) \subseteq (Stored(read) \cup Stored(merge))'
            \/ pc = "drop_merge" /\ lost'
         /\ \/ Stored(read) \cup Stored(write) \cup Stored(merge)
                  \subseteq (Stored(read) \cup Stored(write) \cup Stored(merge))'
            \/ pc = "drop_merge" /\ stale
            \/ mishaps["merge error"] > 0
<1> USE DEF Inv
<1>0. build' = build
  BY DEF Merge, Promote, Map, Claim, Open, Discard, Replace, Scan, AppendEntry, MoveBack,
         Install, DropWrite, DropMerge
<1>1. CASE UNCHANGED files
  BY <1>0, <1>1 DEF files, Stored, valid
<1>2. CASE Promote
  BY <1>0, <1>2 DEF Promote, Stored, valid
<1>3. CASE Claim
  <2>1. merge = NoFile /\ merge' = read /\ read' = NoFile /\ write' = write
    BY <1>3 DEF Claim, Phases, Mapped, Files, valid
  <2>2. Stored(merge) = {} /\ Stored(merge)' = Stored(read) /\ Stored(write)' = Stored(write)
    BY <1>0, <2>1 DEF Stored, valid
  <2> QED
    BY <2>2
<1>4. CASE Discard
  <2>1. ~valid(merge) /\ UNCHANGED <<read, write>>
    BY <1>4 DEF Discard, Phases
  <2> QED
    BY <1>0, <2>1 DEF Stored, valid
<1>5. CASE Replace
  <2>1. read = NoFile /\ merge = NoFile /\ merge' = NoFile
        /\ ((read' = write /\ write' = NoFile) \/ UNCHANGED <<read, write>>)
    BY <1>5 DEF Replace, Phases
  <2> QED
    BY <1>0, <2>1 DEF Stored, valid
<1>6. CASE MoveBack \/ Install
  <2>1. /\ pc \in {"scan", "append", "install"} /\ write' = write
        /\ read = NoFile /\ merge \in Archive /\ added \in Seq(Key)
        /\ merge # NoFile /\ merge.build = build
    BY <1>6, ValidFacts DEF MoveBack, Install, Phases, Merging, Types
  <2>2. \/ /\ merge' = NoFile /\ read' # NoFile /\ read'.build = build
           /\ ToSet(merge.entries) \subseteq ToSet(read'.entries)
        \/ /\ read' = NoFile /\ merge' # NoFile /\ merge'.build = build
           /\ ToSet(merge.entries) \subseteq ToSet(merge'.entries)
    <3>1. ASSUME NEW e, e \in flushed(merge, added)
          PROVE  e # NoFile /\ e.build = build /\ ToSet(merge.entries) \subseteq ToSet(e.entries)
      <4>1. e # NoFile /\ e.build = merge.build
            /\ ToSet(e.entries) = ToSet(merge.entries) \cup ToSet(added)
        BY <2>1, <3>1, FlushedFacts
      <4> QED
        BY <2>1, <4>1
    <3>2. ASSUME NEW e, \E n \in 0..Len(added) : e \in extended(merge, added, n)
          PROVE  e # NoFile /\ e.build = build /\ ToSet(merge.entries) \subseteq ToSet(e.entries)
      <4>1. e # NoFile /\ e.build = merge.build
            /\ ToSet(merge.entries) \subseteq ToSet(e.entries)
        BY <2>1, <3>2, ExtendedFacts
      <4> QED
        BY <2>1, <4>1
    <3>3. CASE merge' = NoFile /\ read' \in flushed(merge, added)
      BY <3>1, <3>3
    <3>4. CASE merge' = NoFile /\ \E n \in 0..Len(added) : read' \in extended(merge, added, n)
      BY <3>2, <3>4
    <3>5. CASE read' = read /\ merge' \in flushed(merge, added)
      BY <2>1, <3>1, <3>5
    <3> QED
      BY <1>6, <3>3, <3>4, <3>5 DEF MoveBack, Install
  <2>3. Stored(read) = {} /\ Stored(merge) = ToSet(merge.entries) /\ Stored(write)' = Stored(write)
    BY <1>0, <2>1 DEF Stored, valid
  <2>4. ToSet(merge.entries) \subseteq Stored(read)' \cup Stored(merge)'
    BY <1>0, <2>2 DEF Stored, valid
  <2> QED
    BY <2>3, <2>4
<1>7. CASE DropWrite
  <2>1. UNCHANGED <<read, merge>> /\ pc = "drop_write"
    BY <1>7 DEF DropWrite
  <2>2. Stored(read)' = Stored(read) /\ Stored(merge)' = Stored(merge)
    BY <1>0, <2>1 DEF Stored, valid
  <2>3. mishaps["merge error"] = 0 => Stored(write) \subseteq Stored(read) \cup Stored(merge)
    BY <2>1 DEF MergeIsComplete
  <2>4. mishaps["merge error"] = 0 \/ mishaps["merge error"] > 0
    BY MishapFacts DEF Types, Mishap
  <2> QED
    BY <2>2, <2>3, <2>4
<1>8. CASE DropMerge
  <2>1. /\ pc = "drop_merge" /\ UNCHANGED <<read, write>> /\ merge' = NoFile
        /\ lost' = (lost \/ merge # NoFile)
        /\ merge # NoFile => stale \/ mishaps["merge error"] > 0
    BY <1>8 DEF DropMerge, MergeIsComplete
  <2>2. CASE merge = NoFile
    BY <1>0, <2>1, <2>2 DEF Stored, valid
  <2>3. CASE merge # NoFile
    BY <2>1, <2>3
  <2> QED
    BY <2>2, <2>3
<1>9. CASE AppendEntry
  <2>1. /\ UNCHANGED <<read, write, build>> /\ merge # NoFile /\ merge' # NoFile
        /\ merge'.build = merge.build /\ merge'.entries = merge.entries
    BY <1>9, AppendEntryFiles, ArchiveFacts
  <2>2. /\ Stored(read)' = Stored(read) /\ Stored(write)' = Stored(write)
        /\ Stored(merge)' = Stored(merge)
    BY <2>1 DEF Stored, valid
  <2> QED
    BY <2>2
<1>10. UNCHANGED files \/ Promote \/ Claim \/ Discard \/ Replace \/ MoveBack \/ Install
         \/ DropWrite \/ DropMerge \/ AppendEntry
  BY DEF Merge, Map, Open, Scan
<1> QED
  BY <1>1, <1>2, <1>3, <1>4, <1>5, <1>6, <1>7, <1>8, <1>9, <1>10

\* The write file only grows while the program runs.
LEMMA WriteGrows ==
  ASSUME Inv, Save \/ Saved \/ SaveRemaining \/ Exit \/ Kill, build' = build
  PROVE  Stored(write) \subseteq Stored(write)'
<1> USE DEF Inv
<1>1. \/ write' = write \/ write = NoFile
      \/ /\ write' # NoFile /\ write'.build = build
         /\ ToSet(write.entries) \subseteq ToSet(write'.entries)
  <2>1. ASSUME NEW p \in Pipeline, save_pipeline_state(p)
        PROVE  write' = write \/ write = NoFile
    <3>1. Serialized(p) \in Seq(Key) /\ Len(Serialized(p)) > 0
      BY SerializedFacts
    <3>2. notify(Serialized(p)) => write' = write \/ write = NoFile
      BY <3>1, NotifyFacts
    <3> QED
      BY <2>1, <3>2, SaveFacts
  <2>2. CASE Save
    <3>1. Head(todo) \in Pipeline
      BY <2>2, ToSetFacts DEF Save, Types
    <3> QED
      BY <2>1, <2>2, <3>1 DEF Save
  <2>3. CASE SaveRemaining
    <3>1. Head(items) \in Pipeline
      BY <2>3, ToSetFacts DEF SaveRemaining, Types
    <3> QED
      BY <2>1, <2>3, <3>1 DEF SaveRemaining
  <2>4. CASE Saved \/ Exit
    <3>1. write' = write \/ (sink.open /\ write' = written)
      BY <2>4 DEF Saved, Exit
    <3>2. sink.open => write \in Archive /\ build \in Build /\ sink \in Sink
      BY DEF Files, Types
    <3> QED
      BY <3>1, <3>2, WrittenFacts
  <2>5. CASE Kill
    BY <2>5, KillFacts
  <2> QED
    BY <2>2, <2>3, <2>4, <2>5
<1> QED
  BY <1>1 DEF Stored, valid

\* Stored entries survive every step but the deletion of a stale merge file, as
\* long as the build stays the same and no merge fails.
THEOREM StoredSurvivesAlways == Spec => StoredSurvives
<1>1. ASSUME Inv, [Next]_vars, build' = build
      PROVE  /\ \/ Stored(read) \cup Stored(merge) \subseteq (Stored(read) \cup Stored(merge))'
                \/ pc = "drop_merge" /\ lost'
             /\ \/ Stored(read) \cup Stored(write) \cup Stored(merge)
                      \subseteq (Stored(read) \cup Stored(write) \cup Stored(merge))'
                \/ pc = "drop_merge" /\ stale
                \/ mishaps["merge error"] > 0
  <2>1. CASE Merge
    BY <1>1, <2>1, MergeKeepsStored
  <2>2. CASE Load \/ Parse \/ WakeUp \/ Start \/ Cancel \/ Deactivate \/ Join \/ Update
             \/ (\E p \in Pipeline : Push(p)) \/ UNCHANGED vars
    <3>1. UNCHANGED <<read, write, merge, build>>
      BY <1>1, <2>2 DEF Load, Parse, WakeUp, Start, Cancel, Deactivate, Join, Update, Push,
                        vars, files
    <3> QED
      BY <3>1 DEF Stored, valid
  <2>3. CASE Save \/ Saved \/ SaveRemaining \/ Exit \/ Kill
    <3>1. Stored(write) \subseteq Stored(write)'
      BY <1>1, <2>3, WriteGrows
    <3>2. read' = read
      BY <1>1, <2>3, KillFacts DEF Save, Saved, SaveRemaining, Exit, Inv
    <3>3. \/ merge' = merge
          \/ merge' # NoFile /\ merge'.build = merge.build
             /\ ToSet(merge.entries) \subseteq ToSet(merge'.entries)
      BY <1>1, <2>3, KillFacts DEF Save, Saved, SaveRemaining, Exit, Inv
    <3>4. Stored(read)' = Stored(read) /\ Stored(merge) \subseteq Stored(merge)'
      BY <1>1, <3>2, <3>3 DEF Stored, valid
    <3> QED
      BY <3>1, <3>4
  <2> QED
    BY <1>1, <2>1, <2>2, <2>3 DEF Next, DiskThread
<1>2. Inv /\ [Next]_vars =>
        [build' = build =>
           /\ \/ Stored(read) \cup Stored(merge) \subseteq (Stored(read) \cup Stored(merge))'
              \/ pc = "drop_merge" /\ lost'
           /\ \/ Stored(read) \cup Stored(write) \cup Stored(merge)
                    \subseteq (Stored(read) \cup Stored(write) \cup Stored(merge))'
              \/ pc = "drop_merge" /\ stale
              \/ mishaps["merge error"] > 0]_vars
  BY <1>1
<1> QED
  BY <1>2, Invariance, PTL DEF Spec, StoredSurvives

-----------------------------------------------------------------------------
(***************************************************************************)
(* What is pushed is saved.                                                *)
(***************************************************************************)

\* What has not gone wrong after a step had not before.
LEMMA MishapsStay ==
  ASSUME Inv, [Next]_vars
  PROVE  \A k \in Mishap : mishaps'[k] = 0 => mishaps[k] = 0
<1>0. mishaps \in [Mishap -> Nat] /\ mishaps' \in [Mishap -> Nat]
  BY TypesStep DEF Types, Inv
<1>1. ASSUME \A k \in Mishap : mishaps'[k] >= mishaps[k]
      PROVE  \A k \in Mishap : mishaps'[k] = 0 => mishaps[k] = 0
  <2> TAKE k \in Mishap
  <2>1. mishaps[k] \in Nat /\ mishaps'[k] \in Nat /\ mishaps'[k] >= mishaps[k]
    BY <1>0, <1>1
  <2> QED
    BY <2>1
<1>2. ASSUME NEW m \in Mishap, happens(m)
      PROVE  \A k \in Mishap : mishaps'[k] >= mishaps[k]
  BY <1>0, <1>2, HappensFacts
<1>3. ASSUME NEW p \in Pipeline, save_pipeline_state(p)
      PROVE  UNCHANGED mishaps \/ \A k \in Mishap : mishaps'[k] >= mishaps[k]
  <2>1. Serialized(p) \in Seq(Key) /\ Len(Serialized(p)) > 0
    BY SerializedFacts DEF Inv
  <2>2. notify(Serialized(p)) => \A k \in Mishap : mishaps'[k] >= mishaps[k]
    BY <2>1, NotifyFacts DEF Inv
  <2> QED
    BY <1>3, <2>2, SaveFacts DEF Inv
<1>4. CASE Save
  <2>1. Head(todo) \in Pipeline
    BY <1>4, ToSetFacts DEF Save, Inv, Types
  <2> QED
    BY <1>1, <1>3, <1>4, <2>1 DEF Save
<1>5. CASE SaveRemaining
  <2>1. Head(items) \in Pipeline
    BY <1>5, ToSetFacts DEF SaveRemaining, Inv, Types
  <2> QED
    BY <1>1, <1>3, <1>5, <2>1 DEF SaveRemaining
<1>6. CASE ~Save /\ ~SaveRemaining
  <2>1. UNCHANGED mishaps \/ \E m \in Mishap : happens(m)
    BY <1>6 DEF Next, DiskThread, Merge, Promote, Map, Claim, Open, Discard, Replace, Scan,
      AppendEntry, MoveBack, Install, DropWrite, DropMerge, Load, Parse, WakeUp, Saved, Exit,
      Start, Cancel, Deactivate, Join, Kill, Update, Push, vars, history, Mishap
  <2> QED
    BY <1>1, <1>2, <2>1
<1> QED
  BY <1>4, <1>5, <1>6

\* Saving a pipeline stores what it adds to the library, or something failed.
LEMMA SaveKeepsLib ==
  ASSUME Inv, LibIsStored, [Next]_vars, NEW p \in Pipeline, save_pipeline_state(p),
         pc \in Running \ {"exited"}, pc' = pc, UNCHANGED <<read, build>>
  PROVE  LibIsStored'
<1> USE DEF Inv
<1>1. CASE UNCHANGED <<write, lib, sink, dirty, mishaps>>
  BY <1>1 DEF LibIsStored, Stored, valid
<1>2. CASE lib' = lib \cup ToSet(Serialized(p)) /\ notify(Serialized(p))
  <2> DEFINE new == Serialized(p)
  <2>0. new \in Seq(Key) /\ Len(new) > 0
    BY SerializedFacts
  <2> HIDE DEF new
  <2>1. /\ sink' \in Sink /\ sink'.attempted
        /\ \/ write' = write
           \/ /\ ~sink.attempted /\ write = NoFile
              /\ write' = [build |-> NoBuild, entries |-> <<>>, sliced |-> FALSE]
        /\ sink'.open => sink.open \/ (~sink.attempted /\ write = NoFile /\ write' # NoFile)
        /\ sink'.open /\ ~sink'.broken =>
             ~sink.broken /\ sink'.pending = sink.pending \o new
        /\ mishaps'["save error"] = 0 =>
             /\ sink'.broken = sink.broken
             /\ sink'.open = IF sink.attempted THEN sink.open ELSE write = NoFile
    BY <1>2, <2>0, NotifyFacts DEF new
  <2>2. pc \in Running /\ pc' # "exited" /\ Stored(read)' = Stored(read)
    BY DEF Stored, valid
  <2>3. sink'.open => write'.build = build' \/ write'.entries = <<>>
    <3>1. CASE sink.open
      <4>1. write' = write
        BY <2>1, <3>1 DEF Files
      <4> QED
        BY <3>1, <4>1 DEF LibIsStored
    <3>2. CASE write' # write
      <4>1. write' = [build |-> NoBuild, entries |-> <<>>, sliced |-> FALSE]
        BY <2>1, <3>2
      <4>2. write'.entries = <<>>
        BY <4>1
      <4> QED
        BY <4>2
    <3>3. sink'.open /\ write' = write => sink.open
      BY <2>1
    <3> QED
      BY <3>1, <3>2, <3>3
  <2>4. ASSUME sink'.open /\ ~sink'.broken
        PROVE  lib' \subseteq Stored(read) \cup ToSet(write'.entries) \cup ToSet(sink'.pending)
    <3>0. sink.pending \in Seq(Key)
      BY SinkFacts DEF Types
    <3>a. sink'.pending = sink.pending \o new
      BY <2>1, <2>4
    <3>b. ToSet(sink.pending \o new) = ToSet(sink.pending) \cup ToSet(new)
      BY <2>0, <3>0, ConcatFacts
    <3>1. ToSet(sink'.pending) = ToSet(sink.pending) \cup ToSet(new)
      BY <3>a, <3>b
    <3>2. CASE sink.open
      <4>1. sink.attempted /\ write' = write
        BY <2>1, <3>2 DEF Files
      <4>2. lib \subseteq Stored(read) \cup ToSet(write.entries) \cup ToSet(sink.pending)
        BY <2>1, <2>2, <2>4, <3>2 DEF LibIsStored
      <4> QED
        BY <1>2, <3>1, <4>1, <4>2 DEF new
    <3>3. CASE ~sink.attempted
      <4>1. lib \subseteq Stored(read)
        BY <2>2, <3>3 DEF LibIsStored
      <4> QED
        BY <1>2, <3>1, <4>1 DEF new
    <3> QED
      BY <2>1, <2>4, <3>2, <3>3
  <2>5. ASSUME mishaps'["save error"] = 0, mishaps'["haste"] = 0
        PROVE  ~sink'.broken /\ sink'.open
    <3>1. mishaps["save error"] = 0 /\ mishaps["haste"] = 0
      BY <2>5, MishapsStay DEF Mishap
    <3>2. mishaps["haste"] > 0 => mishaps["haste"] # 0
      BY MishapFacts DEF Types, Mishap
    <3>3. ~sink.attempted => write = NoFile
      BY <2>2, <3>1, <3>2 DEF Files
    <3> QED
      BY <2>1, <2>2, <2>5, <3>1, <3>3 DEF LibIsStored
  <2> QED
    BY <2>1, <2>2, <2>3, <2>4, <2>5 DEF LibIsStored
<1> QED
  BY <1>1, <1>2, SaveFacts

\* A flush moves what was in the buffer to the file.
LEMMA FlushKeepsLib ==
  ASSUME Inv, LibIsStored, Saved \/ Exit
  PROVE  LibIsStored'
<1> USE DEF Inv
<1>1. /\ pc \in Running \ {"exited"} /\ pc' \in Running /\ UNCHANGED <<read, build, lib, mishaps>>
      /\ pc' # "exited" => sink' = sink \/ sink' = [sink EXCEPT !.pending = <<>>]
      /\ pc' = "exited" => sink' = [sink EXCEPT !.open = FALSE, !.pending = <<>>]
      /\ \/ write' = write /\ (sink' = sink \/ ~sink.open)
         \/ sink.open /\ write' = written
  BY DEF Saved, Exit, Running
<1>2. /\ sink'.attempted = sink.attempted /\ sink'.broken = sink.broken
      /\ sink'.open => sink.open
      /\ pc' # "exited" => sink'.open = sink.open
      /\ sink'.pending = sink.pending \/ sink'.pending = <<>>
  BY <1>1 DEF Types, Sink
<1>3. Stored(read)' = Stored(read)
  BY <1>1 DEF Stored, valid
<1>4. CASE sink.open /\ write' = written
  <2>1. /\ write' # NoFile /\ write'.build = build
        /\ ToSet(write'.entries) = ToSet(write.entries) \cup ToSet(sink.pending)
    BY <1>4, WrittenFacts DEF Files, Types
  <2>2. Stored(write)' = ToSet(write.entries) \cup ToSet(sink.pending)
    BY <1>1, <2>1 DEF Stored, valid
  <2>3. ~sink.broken =>
          lib \subseteq Stored(read) \cup ToSet(write.entries) \cup ToSet(sink.pending)
    BY <1>1, <1>4 DEF LibIsStored
  <2>4. ~sink'.broken => lib' \subseteq Stored(read)' \cup Stored(write)'
    BY <1>1, <1>2, <1>3, <2>2, <2>3
  <2>5. Stored(write)' = ToSet(write'.entries)
    BY <2>1, <2>2
  <2>6. mishaps["save error"] = 0 /\ mishaps["haste"] = 0 => ~sink.broken
    BY <1>1 DEF LibIsStored
  <2>7. sink.attempted
    BY <1>4 DEF Files
  <2> QED
    BY <1>1, <1>2, <1>3, <1>4, <2>1, <2>4, <2>5, <2>6, <2>7 DEF LibIsStored
<1>5. CASE write' = write /\ ~sink.open
  <2>1. sink.attempted => ~(mishaps["save error"] = 0 /\ mishaps["haste"] = 0)
    BY <1>1, <1>5 DEF LibIsStored
  <2>2. ~sink.attempted => lib' \subseteq Stored(read)'
    BY <1>1, <1>3 DEF LibIsStored
  <2>3. mishaps["save error"] = 0 /\ mishaps["haste"] = 0 => ~sink.broken
    BY <1>1 DEF LibIsStored
  <2> QED
    BY <1>1, <1>2, <1>3, <1>5, <2>1, <2>2, <2>3 DEF LibIsStored
<1>6. CASE write' = write /\ sink' = sink
  <2>1. pc' # "exited" \/ ~sink.open
    BY <1>1, <1>6 DEF Types, Sink
  <2> QED
    BY <1>1, <1>3, <1>5, <1>6, <2>1 DEF LibIsStored
<1> QED
  BY <1>1, <1>4, <1>5, <1>6

\* All steps keep the library backed.
LEMMA LibIsStoredStep ==
  ASSUME Inv, LibIsStored, [Next]_vars
  PROVE  LibIsStored'
<1> USE DEF Inv
<1>0. \A k \in Mishap : mishaps'[k] = 0 => mishaps[k] = 0
  BY MishapsStay
<1>1. CASE Merge
  <2>1. /\ pc \notin Running /\ pc # "parse" /\ pc' \notin Running /\ pc' # "parse"
        /\ UNCHANGED <<lib, sink>>
    BY <1>1 DEF Merge, Promote, Map, Claim, Open, Discard, Replace, Scan, AppendEntry, MoveBack,
         Install, DropWrite, DropMerge, output, Running, out_cancellation
  <2>2. ~sink.open
    BY <2>1 DEF Phases, Closed
  <2> QED
    BY <2>1, <2>2 DEF LibIsStored
<1>2. CASE Load
  <2>1. pc = "load" /\ sink = Closed /\ UNCHANGED <<lib, sink>> /\ lib = {}
    BY <1>2 DEF Load, output, Phases, LibIsStored, Running
  <2>2. ~sink.open /\ ~sink.attempted /\ ~sink.broken /\ pc' # "exited"
    BY <1>2, <2>1 DEF Closed, Load
  <2> QED
    BY <2>1, <2>2 DEF LibIsStored
<1>3. CASE Parse
  <2>1. pc = "parse" /\ sink = Closed /\ UNCHANGED <<read, build, sink>> /\ lib \subseteq Stored(read)
    BY <1>3 DEF Parse, files, output, Phases, LibIsStored, Running
  <2>2. ~sink.open /\ ~sink.attempted /\ ~sink.broken /\ pc' \in {"parse", "idle"}
    BY <1>3, <2>1 DEF Closed, Parse
  <2>3. read \in Archive /\ read.entries \in Seq(Key) /\ Stored(read) = ToSet(read.entries)
    BY <2>1, ValidFacts, ArchiveFacts DEF Phases, Types, Stored
  <2>4. pos < Len(read.entries) => read.entries[pos + 1] \in ToSet(read.entries)
    BY <2>3, EntryFacts, ToSetFacts DEF Types
  <2>5. lib' \subseteq Stored(read)
    <3>1. CASE pos < Len(read.entries) /\ ~cancel
      BY <1>3, <2>1, <2>3, <2>4, <3>1 DEF Parse
    <3>2. CASE ~(pos < Len(read.entries) /\ ~cancel)
      BY <1>3, <2>1, <3>2 DEF Parse
    <3> QED
      BY <3>1, <3>2
  <2>6. Stored(read)' = Stored(read)
    BY <2>1 DEF Stored, valid
  <2> QED
    BY <2>1, <2>2, <2>5, <2>6 DEF LibIsStored, Running
<1>4. CASE Save
  <2>1. Head(todo) \in Pipeline /\ pc \in Running \ {"exited"}
    BY <1>4, ToSetFacts DEF Save, Types, Running
  <2> QED
    BY <1>4, <2>1, SaveKeepsLib DEF Save
<1>5. CASE SaveRemaining
  <2>1. Head(items) \in Pipeline /\ pc \in Running \ {"exited"}
    BY <1>5, ToSetFacts DEF SaveRemaining, Types, Running
  <2> QED
    BY <1>5, <2>1, SaveKeepsLib DEF SaveRemaining
<1>6. CASE Saved \/ Exit
  BY <1>6, FlushKeepsLib
<1>7. CASE WakeUp \/ Start \/ Cancel \/ Deactivate \/ (\E p \in Pipeline : Push(p))
           \/ UNCHANGED vars
  <2>1. /\ UNCHANGED <<read, write, build, lib, sink>>
        /\ pc' = pc \/ (pc = "idle" /\ pc' = "save") \/ (pc = "off" /\ pc' = "promote")
    BY <1>7 DEF WakeUp, Start, Cancel, Deactivate, Push, vars, files, output
  <2>2. Stored(read)' = Stored(read) /\ Stored(write)' = Stored(write)
    BY <2>1 DEF Stored, valid
  <2>3. mishaps'["save error"] = 0 /\ mishaps'["haste"] = 0 =>
          mishaps["save error"] = 0 /\ mishaps["haste"] = 0
    BY <1>0 DEF Mishap
  <2> QED
    BY <2>1, <2>2, <2>3 DEF LibIsStored, Running
<1>8. CASE Join \/ Kill \/ Update
  <2>1. pc' = "off" /\ sink' = Closed /\ lib' = {}
    BY <1>8 DEF Join, Kill, Update, forget, output, Phases, LibIsStored, Running
  <2> QED
    BY <2>1 DEF LibIsStored, Closed, Running
<1> QED
  BY <1>1, <1>2, <1>3, <1>4, <1>5, <1>6, <1>7, <1>8 DEF Next, DiskThread

\* No step forgets a pipeline that was pushed.
LEMMA PushedIsKeptStep ==
  ASSUME Inv, PushedIsKept, [Next]_vars
  PROVE  PushedIsKept'
<1> USE DEF Inv
<1>0. mishaps'["save error"] = 0 => mishaps["save error"] = 0
  BY MishapsStay DEF Mishap
<1>1. CASE Merge \/ Load
  <2>1. /\ UNCHANGED <<pushed, lib, items, todo, wake, thread_active>>
        /\ pc \in Setup /\ pc' \in Setup \cup {"idle"}
    BY <1>1 DEF Load, Merge, Promote, Map, Claim, Open, Discard, Replace, Scan, AppendEntry,
         MoveBack, Install, DropWrite, DropMerge, output, history, Setup, out_cancellation
  <2> QED
    BY <1>0, <2>1 DEF PushedIsKept, Setup
<1>2. CASE Parse
  <2>1. /\ UNCHANGED <<pushed, items, todo, wake, thread_active>> /\ lib \subseteq lib'
        /\ pc = "parse" /\ pc' \in {"parse", "idle"}
    BY <1>2 DEF Parse, output, history
  <2> QED
    BY <1>0, <2>1 DEF PushedIsKept
<1>3. CASE WakeUp
  <2>1. /\ UNCHANGED <<pushed, lib, thread_active>> /\ pc = "idle" /\ pc' = "save"
        /\ todo' = items /\ items' = <<>> /\ wake' = "stop" => ~thread_active
    BY <1>3 DEF WakeUp, history
  <2>2. todo = <<>> /\ ToSet(<<>>) = {}
    BY <2>1, EmptyFacts DEF PushedIsKept
  <2>3. pushed' \subseteq lib' \cup ToSet(items') \cup ToSet(todo')
    BY <1>3, <2>2 DEF PushedIsKept, WakeUp, history
  <2>4. mishaps'["save error"] = 0 => wake' # "error"
    <3>1. happens("save error") => mishaps'["save error"] # 0
      BY HappensFacts DEF Types, Mishap
    <3> QED
      BY <1>3, <3>1 DEF WakeUp
  <2>5. wake' = "stop" => ~thread_active'
    BY <1>3 DEF WakeUp
  <2> QED
    BY <2>1, <2>3, <2>4, <2>5 DEF PushedIsKept
<1>4. ASSUME NEW q \in Seq(Pipeline), q # <<>>, save_pipeline_state(Head(q))
      PROVE  lib \cup ToSet(q) \subseteq lib' \cup ToSet(Tail(q))
  <2>1. Head(q) \in Pipeline /\ ToSet(q) = {Head(q)} \cup ToSet(Tail(q))
    BY <1>4, ToSetFacts
  <2>2. lib \subseteq lib' /\ Head(q) \in lib'
    BY <1>4, <2>1, SaveFacts
  <2> QED
    BY <2>1, <2>2
<1>5. CASE Save
  <2>1. /\ UNCHANGED <<pushed, items, pc, wake, thread_active>> /\ pc = "save"
        /\ todo' = Tail(todo)
    BY <1>5 DEF Save, history
  <2>2. lib \cup ToSet(todo) \subseteq lib' \cup ToSet(todo')
    BY <1>4, <1>5, <2>1 DEF Save, Types
  <2>3. pushed' \subseteq lib' \cup ToSet(items') \cup ToSet(todo')
    BY <2>1, <2>2 DEF PushedIsKept
  <2> QED
    BY <1>0, <2>1, <2>3 DEF PushedIsKept
<1>6. CASE SaveRemaining
  <2>1. /\ UNCHANGED <<pushed, todo, pc, wake, thread_active>> /\ pc = "teardown"
        /\ items' = Tail(items)
    BY <1>6 DEF SaveRemaining, history
  <2>2. lib \cup ToSet(items) \subseteq lib' \cup ToSet(items')
    BY <1>4, <1>6, <2>1 DEF SaveRemaining, Types
  <2>3. pushed' \subseteq lib' \cup ToSet(items') \cup ToSet(todo')
    BY <2>1, <2>2 DEF PushedIsKept
  <2> QED
    BY <1>0, <2>1, <2>3 DEF PushedIsKept
<1>7. CASE Saved
  <2>1. /\ UNCHANGED <<pushed, items, lib, todo, thread_active>> /\ pc = "save" /\ todo = <<>>
        /\ pc' = (IF wake \in {"stop", "error"} THEN "teardown" ELSE "idle")
        /\ wake' = "signal"
    BY <1>7 DEF Saved, history
  <2>2. pushed' \subseteq lib' \cup ToSet(items') \cup ToSet(todo')
    BY <2>1 DEF PushedIsKept
  <2> QED
    BY <1>0, <2>1, <2>2 DEF PushedIsKept
<1>8. CASE Exit
  <2>1. /\ UNCHANGED <<pushed, items, lib, todo, wake, thread_active>> /\ pc = "teardown"
        /\ pc' = "exited" /\ items = <<>>
    BY <1>8 DEF Exit, history
  <2> QED
    BY <1>0, <2>1 DEF PushedIsKept
<1>9. CASE Start
  <2>1. /\ UNCHANGED <<pushed, items, lib, todo, wake>> /\ pc = "off" /\ pc' = "promote"
    BY <1>9 DEF Start, output
  <2> QED
    BY <1>0, <2>1 DEF PushedIsKept
<1>10. CASE Cancel \/ Deactivate \/ Update \/ UNCHANGED vars
  <2>1. /\ UNCHANGED <<pushed, items, lib, todo, wake, pc>>
        /\ ~thread_active => ~thread_active'
    BY <1>10 DEF Cancel, Deactivate, Update, vars, output, history
  <2> QED
    BY <1>0, <2>1 DEF PushedIsKept, Types
<1>11. ASSUME NEW p \in Pipeline, Push(p) PROVE PushedIsKept'
  <2>1. /\ UNCHANGED <<lib, todo, wake, pc, thread_active, mishaps>> /\ thread_active
        /\ items' = Append(items, p) /\ pushed' = pushed \cup {p}
    BY <1>11 DEF Push, output
  <2>2. ToSet(items') = ToSet(items) \cup {p}
    BY <2>1, AppendFacts DEF Types
  <2>3. pushed' \subseteq lib' \cup ToSet(items') \cup ToSet(todo')
    BY <2>1, <2>2 DEF PushedIsKept
  <2> QED
    BY <2>1, <2>3 DEF PushedIsKept
<1>12. CASE Join \/ Kill
  <2>1. pc' = "off" /\ pushed' = {} /\ todo' = <<>> /\ wake' = "signal"
    BY <1>12 DEF Join, Kill, forget
  <2> QED
    BY <2>1 DEF PushedIsKept
<1> QED
  BY <1>1, <1>2, <1>3, <1>5, <1>6, <1>7, <1>8, <1>9, <1>10, <1>11, <1>12 DEF Next, DiskThread

\* When a session has ended without a failed write, every pipeline it pushed is
\* in the library, and on disk unless the setup was torn down.
THEOREM SavedBeforeExitAlways == Spec => []SavedBeforeExit
<1>1. Init => LibIsStored /\ PushedIsKept
  BY DEF Init, LibIsStored, PushedIsKept, Closed, Running
<1>2. Spec => [](LibIsStored /\ PushedIsKept)
  BY <1>1, LibIsStoredStep, PushedIsKeptStep, Invariance, PTL DEF Spec
<1>3. Inv /\ LibIsStored /\ PushedIsKept => SavedBeforeExit
  <2> SUFFICES ASSUME Inv, LibIsStored, PushedIsKept,
                      pc = "exited", ~thread_active, mishaps["save error"] = 0
               PROVE  /\ pushed \subseteq lib
                      /\ mishaps["haste"] = 0 => pushed \subseteq Stored(read) \cup Stored(write)
    BY DEF SavedBeforeExit
  <2>1. items = <<>> /\ todo = <<>> /\ ToSet(<<>>) = {}
    BY EmptyFacts DEF PushedIsKept
  <2>2. pushed \subseteq lib
    BY <2>1 DEF PushedIsKept
  <2> QED
    BY <2>2 DEF LibIsStored, Running
<1> QED
  BY <1>2, <1>3, Invariance, PTL

-----------------------------------------------------------------------------
(***************************************************************************)
(* A pipeline is not stored without its shader.                            *)
(***************************************************************************)

\* Sequences whose shaders come first: with a larger base, the first part of
\* one, and what it means for the set of its entries.
LEMMA OrderedFacts ==
  ASSUME NEW base, NEW larger, base \subseteq larger,
         NEW s \in Seq(Key), NEW t \in Seq(Key), Ordered(base, s \o t)
  PROVE  /\ Ordered(larger, s \o t)
         /\ \A n \in 0..Len(t) : Ordered(larger, s \o SubSeq(t, 1, n))
         /\ Ordered(larger, s)
         /\ \A p \in Pipeline \cap ToSet(s \o t) : ShaderOf[p] \in larger \cup ToSet(s \o t)
<1> DEFINE w == s \o t
<1>0. w \in Seq(Key) /\ Len(w) \in Nat
  OBVIOUS
<1>1. \A n \in 0..Len(t) : Ordered(larger, s \o SubSeq(t, 1, n))
  <2> TAKE n \in 0..Len(t)
  <2> DEFINE r == s \o SubSeq(t, 1, n)
  <2>1. /\ r \in Seq(Key) /\ Len(r) \in Nat
        /\ \A i \in 1..Len(r) : r[i] = w[i] /\ i \in 1..Len(w)
    BY JoinFacts
  <2> HIDE DEF r, w
  <2> SUFFICES ASSUME NEW i \in 1..Len(r), r[i] \in Pipeline
               PROVE  ShaderOf[r[i]] \in larger \cup {r[j] : j \in 1..(i - 1)}
    BY DEF Ordered, r
  <2>2. r[i] = w[i] /\ i \in 1..Len(w)
    BY <2>1
  <2>3. ShaderOf[w[i]] \in base \cup {w[j] : j \in 1..(i - 1)}
    BY <2>2 DEF Ordered, w
  <2>4. \A j \in 1..(i - 1) : j \in 1..Len(r)
    BY <2>1
  <2>5. {w[j] : j \in 1..(i - 1)} \subseteq {r[j] : j \in 1..(i - 1)}
    BY <2>1, <2>4
  <2> QED
    BY <2>2, <2>3, <2>5
<1>2. Len(t) \in 0..Len(t) /\ SubSeq(t, 1, Len(t)) = t
  OBVIOUS
<1>3. Ordered(larger, w)
  BY <1>1, <1>2
<1>4. Ordered(larger, s)
  <2>1. SubSeq(t, 1, 0) = <<>> /\ 0 \in 0..Len(t)
    OBVIOUS
  <2>2. s \o SubSeq(t, 1, 0) = s
    BY <2>1, ConcatEmptySeq
  <2> QED
    BY <1>1, <2>1, <2>2
<1>5. ASSUME NEW p \in Pipeline, p \in ToSet(w)
      PROVE  ShaderOf[p] \in larger \cup ToSet(w)
  <2>0. ToSet(w) = {w[i] : i \in 1..Len(w)}
    BY <1>0, ToSetFacts
  <2> HIDE DEF w
  <2>1. PICK i \in 1..Len(w) : p = w[i]
    BY <1>5, <2>0
  <2>2. ShaderOf[p] \in larger \cup {w[j] : j \in 1..(i - 1)}
    BY <1>3, <1>5, <2>1 DEF Ordered
  <2>3. {w[j] : j \in 1..(i - 1)} \subseteq ToSet(w)
    BY <1>0, <2>0
  <2> QED
    BY <2>2, <2>3
<1> QED
  BY <1>1, <1>3, <1>4, <1>5

\* The empty sequence, and one more entry whose shader is there.
LEMMA OrderedAppend ==
  ASSUME NEW base
  PROVE  /\ Ordered(base, <<>>)
         /\ \A s \in Seq(Key), e \in Key :
              /\ Ordered(base, s)
              /\ e \in Pipeline => ShaderOf[e] \in base \cup ToSet(s)
              => Ordered(base, Append(s, e))
<1>1. Ordered(base, <<>>)
  BY DEF Ordered
<1>2. ASSUME NEW s \in Seq(Key), NEW e \in Key, Ordered(base, s),
             e \in Pipeline => ShaderOf[e] \in base \cup ToSet(s)
      PROVE  Ordered(base, Append(s, e))
  <2> DEFINE r == Append(s, e)
  <2>1. /\ Len(r) = Len(s) + 1 /\ r[Len(s) + 1] = e /\ Len(s) \in Nat
        /\ \A i \in 1..Len(s) : r[i] = s[i]
    BY AppendFacts
  <2> HIDE DEF r
  <2> SUFFICES ASSUME NEW i \in 1..Len(r), r[i] \in Pipeline
               PROVE  ShaderOf[r[i]] \in base \cup {r[j] : j \in 1..(i - 1)}
    BY DEF Ordered, r
  <2>2. \A j \in 1..(i - 1) : j \in 1..Len(s) /\ r[j] = s[j]
    BY <2>1
  <2>3. {s[j] : j \in 1..(i - 1)} \subseteq {r[j] : j \in 1..(i - 1)}
    BY <2>2
  <2>4. CASE i \in 1..Len(s)
    <3>1. ShaderOf[s[i]] \in base \cup {s[j] : j \in 1..(i - 1)}
      BY <1>2, <2>1, <2>4 DEF Ordered
    <3> QED
      BY <2>1, <2>3, <2>4, <3>1
  <2>5. CASE i = Len(s) + 1
    <3>1. ToSet(s) = {s[j] : j \in 1..(i - 1)}
      BY <2>1, <2>5, ToSetFacts
    <3> QED
      BY <1>2, <2>1, <2>3, <2>5, <3>1
  <2> QED
    BY <2>1, <2>4, <2>5
<1> QED
  BY <1>1, <1>2

\* What a pipeline adds keeps the order when its shader, if it is not added as
\* well, is in the base or before.
LEMMA OrderedSerialized ==
  ASSUME Types, NEW p \in Pipeline, NEW base, NEW s \in Seq(Key), Ordered(base, s),
         ShaderOf[p] \in lib => ShaderOf[p] \in base \cup ToSet(s)
  PROVE  Ordered(base, s \o Serialized(p))
<1>0. p \in Key /\ ShaderOf[p] \in Key /\ ShaderOf[p] \in Shader /\ ShaderOf[p] \notin Pipeline
  BY DiskCacheAssumption DEF Key
<1>1. CASE ShaderOf[p] \in lib /\ Serialized(p) = <<p>>
  <2>1. Ordered(base, Append(s, p))
    BY <1>0, <1>1, OrderedAppend
  <2>2. Append(s, p) = s \o <<p>>
    BY <1>0, AppendIsConcat
  <2> QED
    BY <1>1, <2>1, <2>2
<1>2. CASE Serialized(p) = <<ShaderOf[p], p>>
  <2> DEFINE h == ShaderOf[p]
             r == Append(s, h)
  <2>1. Ordered(base, r) /\ r \in Seq(Key) /\ h \in ToSet(r)
    BY <1>0, OrderedAppend, AppendFacts
  <2>2. r = s \o <<h>>
    BY <1>0, AppendIsConcat
  <2> HIDE DEF h, r
  <2>3. Ordered(base, Append(r, p))
    BY <1>0, <2>1, OrderedAppend DEF h
  <2>4. Append(r, p) = r \o <<p>>
    BY <1>0, <2>1, AppendIsConcat
  <2>5. (s \o <<h>>) \o <<p>> = s \o (<<h>> \o <<p>>)
    <3>1. <<h>> \in Seq(Key) /\ <<p>> \in Seq(Key)
      BY <1>0 DEF h
    <3> QED
      BY <3>1, ConcatAssociative
  <2>6. <<h>> \o <<p>> = <<h, p>>
    BY <1>0, PairFacts DEF h
  <2> QED
    BY <1>2, <2>2, <2>3, <2>4, <2>5, <2>6 DEF h
<1> QED
  BY <1>1, <1>2, SerializedFacts

\* The same of a sequence alone.
LEMMA OrderedParts ==
  ASSUME NEW base, NEW s \in Seq(Key), Ordered(base, s)
  PROVE  /\ \A n \in 0..Len(s) : Ordered(base, SubSeq(s, 1, n))
         /\ \A p \in Pipeline \cap ToSet(s) : ShaderOf[p] \in base \cup ToSet(s)
<1>1. base \subseteq base /\ <<>> \in Seq(Key) /\ <<>> \o s = s
  BY ConcatEmptySeq
<1>2. Ordered(base, <<>> \o s)
  BY <1>1
<1>3. /\ \A n \in 0..Len(s) : Ordered(base, <<>> \o SubSeq(s, 1, n))
      /\ \A p \in Pipeline \cap ToSet(<<>> \o s) : ShaderOf[p] \in base \cup ToSet(<<>> \o s)
  BY <1>1, <1>2, OrderedFacts
<1>4. \A n \in 0..Len(s) : SubSeq(s, 1, n) \in Seq(Key) /\ <<>> \o SubSeq(s, 1, n) = SubSeq(s, 1, n)
  BY ConcatEmptySeq
<1> QED
  BY <1>1, <1>3, <1>4

\* A merge file that a part of what was appended to it has reached.
LEMMA GrownShaders ==
  ASSUME NEW m \in Archive, NEW s \in Seq(Key), NEW e,
         e # NoFile, e.build = m.build,
         \E n \in 0..Len(s) : e.entries = m.entries \o SubSeq(s, 1, n),
         Ordered(ToSet(m.entries), s), ShadersWith(NoFile, m)
  PROVE  /\ ShadersWith(NoFile, e) /\ ShadersWith(e, NoFile)
         /\ \A b : Keys(b, m) \subseteq Keys(b, e)
<1>1. PICK n \in 0..Len(s) : e.entries = m.entries \o SubSeq(s, 1, n)
  OBVIOUS
<1> DEFINE u == SubSeq(s, 1, n)
<1>2. m \in Archive /\ m # NoFile /\ m.entries \in Seq(Key) /\ u \in Seq(Key)
  BY ArchiveFacts
<1>4. Ordered(ToSet(m.entries), u)
  BY OrderedParts
<1>5. \A p \in Pipeline \cap ToSet(u) : ShaderOf[p] \in ToSet(m.entries) \cup ToSet(u)
  <2> HIDE DEF u
  <2> QED
    BY <1>2, <1>4, OrderedParts
<1>6. ToSet(e.entries) = ToSet(m.entries) \cup ToSet(u)
  <2> DEFINE x == m.entries
  <2>1. e.entries = x \o u
    BY <1>1
  <2>2. x \in Seq(Key) /\ u \in Seq(Key)
    BY <1>2
  <2> HIDE DEF u, x
  <2>3. ToSet(x \o u) = ToSet(x) \cup ToSet(u)
    BY <2>2, ConcatFacts
  <2>4. ToSet(e.entries) = ToSet(x) \cup ToSet(u)
    BY <2>1, <2>3
  <2> QED
    BY <2>4 DEF x
<1> HIDE DEF u
<1>7. \A b : /\ Keys(b, m) = IF m.build = b THEN ToSet(m.entries) ELSE {}
             /\ Keys(b, e) = IF m.build = b THEN ToSet(m.entries) \cup ToSet(u) ELSE {}
             /\ Keys(b, NoFile) = {}
  BY <1>2, <1>6 DEF Keys
<1>8. \A b \in Build : \A p \in Pipeline :
        p \in Keys(b, e) => ShaderOf[p] \in Keys(b, e)
  <2> TAKE b \in Build
  <2> TAKE p \in Pipeline
  <2> SUFFICES ASSUME m.build = b, p \in ToSet(m.entries) \cup ToSet(u)
               PROVE  ShaderOf[p] \in ToSet(m.entries) \cup ToSet(u)
    BY <1>7
  <2>1. p \in ToSet(m.entries) => ShaderOf[p] \in ToSet(m.entries)
    BY <1>7 DEF ShadersWith
  <2> QED
    BY <1>5, <2>1
<1> QED
  BY <1>7, <1>8 DEF ShadersWith

\* A write cache that becomes the read-only cache.
LEMMA PromotedShaders ==
  ASSUME NEW w \in Archive, NEW m, ShadersWith(NoFile, m),
         Ordered(Keys(w.build, m), w.entries)
  PROVE  ShadersWith(w, m)
<1>1. w # NoFile /\ w.entries \in Seq(Key)
  BY ArchiveFacts
<1>3. \A p \in Pipeline \cap ToSet(w.entries) :
        ShaderOf[p] \in Keys(w.build, m) \cup ToSet(w.entries)
  BY <1>1, OrderedParts
<1>4. \A b : /\ Keys(b, w) = IF w.build = b THEN ToSet(w.entries) ELSE {}
             /\ Keys(b, NoFile) = {}
  BY <1>1 DEF Keys
<1> SUFFICES ASSUME NEW b \in Build, NEW p \in Pipeline, p \in Keys(b, w) \cup Keys(b, m)
             PROVE  ShaderOf[p] \in Keys(b, w) \cup Keys(b, m)
  BY DEF ShadersWith
<1>5. p \in Keys(b, m) => ShaderOf[p] \in Keys(b, m)
  BY <1>4 DEF ShadersWith
<1>6. CASE p \in Keys(b, w)
  BY <1>3, <1>4, <1>6
<1> QED
  BY <1>5, <1>6

\* A step that leaves the files alone and appends nothing to the merge file.
LEMMA QuietShaders ==
  ASSUME ShadersComeFirst, UNCHANGED <<read, write>>,
         ~lost' => ~lost /\ UNCHANGED merge,
         (sink'.open <=> sink.open) /\ sink'.pending = sink.pending,
         sink.open => build' = build,
         \/ pc' \notin {"append", "install"}
         \/ added' = <<>>
         \/ UNCHANGED <<pc, added>>
  PROVE  ShadersComeFirst'
<1> SUFFICES ASSUME ~lost' PROVE ShadersWith(read, merge)' /\ WriteInOrder' /\ AddedInOrder'
  BY DEF ShadersComeFirst
<1>0. ShadersWith(read, merge) /\ WriteInOrder /\ AddedInOrder /\ UNCHANGED merge
  BY DEF ShadersComeFirst
<1>1. ShadersWith(read, merge)'
  BY <1>0 DEF ShadersWith
<1>2. WriteInOrder'
  <2>1. Writer' = Writer
    BY DEF Writer
  <2> QED
    BY <1>0, <2>1 DEF WriteInOrder
<1>3. AddedInOrder'
  BY <1>0, OrderedAppend DEF AddedInOrder
<1> QED
  BY <1>1, <1>2, <1>3

\* The steps of the merge keep shaders with their pipelines.
LEMMA MergeKeepsShaders ==
  ASSUME Inv, ShadersComeFirst, Merge
  PROVE  ShadersComeFirst'
<1> USE DEF Inv
<1>0. /\ pc \in Setup /\ UNCHANGED <<sink, build>> /\ sink = Closed
      /\ ~sink.open /\ sink.pending = <<>>
  <2>1. pc \in Setup /\ UNCHANGED <<sink, build>>
    BY DEF Merge, Promote, Map, Claim, Open, Discard, Replace, Scan, AppendEntry, MoveBack,
         Install, DropWrite, DropMerge, output, Setup
  <2>2. pc \notin Running
    BY <2>1 DEF Setup, Running
  <2> QED
    BY <2>1, <2>2 DEF Phases, Closed
<1>a. Writer = write.build /\ Writer' = write'.build
  BY <1>0 DEF Writer
<1>b. write # NoFile => /\ write \in Archive /\ write.entries \in Seq(Key)
                        /\ write.entries \o sink.pending = write.entries
  <2>1. write # NoFile => write \in Archive /\ write.entries \in Seq(Key)
    BY ArchiveFacts DEF Types
  <2> QED
    BY <1>0, <2>1, ConcatEmptySeq
<1>c. \A b : Keys(b, NoFile) = {}
  BY DEF Keys
<1>1. CASE \/ Map \/ Open \/ Scan \/ DropMerge
           \/ (Promote /\ UNCHANGED <<read, write>>) \/ (Claim /\ UNCHANGED <<read, merge>>)
  <2>1. /\ UNCHANGED <<read, write>> /\ (~lost' => ~lost /\ UNCHANGED merge)
        /\ pc' \notin {"append", "install"} \/ UNCHANGED <<pc, added>>
           \/ (pc = "scan" /\ UNCHANGED added)
    <3>1. CASE Map
      BY <3>1 DEF Map, files, history
    <3>6. CASE Open
      <4>1. UNCHANGED <<read, write, merge, lost>> /\ pc' \in {"scan", "discard", "drop_write"}
        BY <3>6 DEF Open, files, history
      <4> QED
        BY <4>1
    <3>5. CASE Scan
      <4>1. UNCHANGED <<read, write, merge, lost, added>> /\ pc = "scan"
        BY <3>5 DEF Scan, files, history
      <4> QED
        BY <4>1
    <3>2. CASE DropMerge
      BY <3>2 DEF DropMerge
    <3>3. CASE Promote /\ UNCHANGED <<read, write>>
      BY <3>3 DEF Promote, history
    <3>4. CASE Claim /\ UNCHANGED <<read, merge>>
      BY <3>4 DEF Claim, history
    <3> QED
      BY <1>1, <3>1, <3>2, <3>3, <3>4, <3>5, <3>6
  <2>2. pc = "scan" => added = <<>>
    BY DEF Phases
  <2> QED
    BY <1>0, <2>1, <2>2, QuietShaders
<1> SUFFICES ASSUME ~lost', ~Map, ~Open, ~Scan, ~DropMerge
             PROVE  ShadersWith(read, merge)' /\ WriteInOrder' /\ AddedInOrder'
  BY <1>1 DEF ShadersComeFirst
<1>2. ShadersWith(read, merge) /\ WriteInOrder /\ AddedInOrder
  BY DEF ShadersComeFirst, Merge, Promote, Claim, Discard, Replace, AppendEntry, MoveBack,
    Install, DropWrite, history
<1>3. write # NoFile => Ordered(Keys(write.build, read) \cup Keys(write.build, merge), write.entries)
  BY <1>2, <1>a, <1>b DEF WriteInOrder
<1>4. CASE Promote /\ write # NoFile /\ read = NoFile
  <2>1. read' = write /\ write' = NoFile /\ merge' = merge /\ pc' = "drop_write"
    BY <1>4 DEF Promote
  <2>2. Ordered(Keys(write.build, merge), write.entries)
    BY <1>3, <1>4, <1>c
  <2>3. ShadersWith(write, merge)
    BY <1>2, <1>4, <1>b, <2>2, PromotedShaders
  <2> QED
    BY <2>1, <2>3 DEF WriteInOrder, AddedInOrder, ShadersWith
<1>5. CASE Claim /\ read # NoFile /\ merge = NoFile
  <2>1. read' = NoFile /\ write' = write /\ merge' = read /\ pc' = "open"
    BY <1>5 DEF Claim
  <2>2. \A b : Keys(b, read') \cup Keys(b, merge') = Keys(b, read) \cup Keys(b, merge)
    BY <1>5, <1>c, <2>1
  <2>3. ShadersWith(read', merge')
    BY <1>2, <2>2 DEF ShadersWith
  <2>4. Writer' = Writer /\ sink'.pending = sink.pending
    BY <1>a, <1>0, <2>1
  <2>5. Keys(Writer', read') \cup Keys(Writer', merge')
          = Keys(Writer, read) \cup Keys(Writer, merge)
    BY <2>2, <2>4
  <2> QED
    BY <1>2, <2>1, <2>3, <2>4, <2>5 DEF WriteInOrder, AddedInOrder, ShadersWith
<1>6. CASE Discard
  <2>1. read' = read /\ read = NoFile /\ write' = write /\ merge' = NoFile /\ pc' = "replace"
        /\ ~valid(merge) /\ merge # NoFile /\ valid(write)
    BY <1>6 DEF Discard, Phases, Mapped, Merging
  <2>2. ShadersWith(read', merge')
    BY <1>c, <2>1 DEF ShadersWith
  <2>3. write.build = build /\ merge.build # build
    BY <2>1 DEF valid
  <2>4. Keys(write.build, merge) = {}
    BY <2>3 DEF Keys
  <2>5. Ordered(Keys(write.build, read') \cup Keys(write.build, merge'), write.entries)
    BY <1>3, <1>c, <2>1, <2>4 DEF valid
  <2> QED
    BY <1>0, <1>a, <1>b, <2>1, <2>2, <2>5 DEF WriteInOrder, AddedInOrder, ShadersWith
<1>7. CASE Replace /\ read' = write /\ write' = NoFile
  <2>1. read = NoFile /\ merge = NoFile /\ read' = write /\ write' = NoFile /\ merge' = merge
        /\ pc' = "drop_write" /\ write # NoFile
    BY <1>7 DEF Replace, Phases, Mapped, valid
  <2>2. ShadersWith(write, merge)
    BY <1>2, <1>3, <1>b, <1>c, <2>1, PromotedShaders
  <2> QED
    BY <2>1, <2>2 DEF WriteInOrder, AddedInOrder, ShadersWith
<1>13. CASE Replace /\ UNCHANGED <<read, write>>
  <2>1. UNCHANGED <<merge, sink>> /\ pc' = "drop_write"
    BY <1>13, <1>0 DEF Replace
  <2>2. Writer' = Writer
    BY <1>13, <1>a
  <2> QED
    BY <1>2, <1>13, <2>1, <2>2 DEF WriteInOrder, AddedInOrder, ShadersWith
<1>8. CASE DropWrite
  <2>1. UNCHANGED <<read, merge>> /\ write' = NoFile /\ pc' = "drop_merge"
    BY <1>8 DEF DropWrite
  <2> QED
    BY <1>2, <2>1 DEF WriteInOrder, AddedInOrder, ShadersWith
<1>9. CASE AppendEntry
  <2>1. UNCHANGED <<read, write>> /\ pc = "append" /\ pos <= Len(write.entries)
        /\ read = NoFile /\ merge # NoFile /\ merge.build = build
        /\ write # NoFile /\ write.build = build /\ mapped = write
    BY <1>9 DEF AppendEntry, Phases, Mapped, Merging, valid
  <2>7. merge'.entries = merge.entries /\ \A b : Keys(b, merge') = Keys(b, merge)
    <3>1. merge' # NoFile /\ merge'.build = merge.build /\ merge'.entries = merge.entries
      BY <1>9, AppendEntryFiles
    <3> QED
      BY <2>1, <3>1 DEF Keys
  <2>2. ShadersWith(read, merge)' /\ WriteInOrder'
    <3>1. ShadersWith(read, merge)'
      BY <1>2, <2>1, <2>7 DEF ShadersWith
    <3>2. Writer' = Writer /\ UNCHANGED <<write, sink>>
      BY <1>0, <1>a, <2>1
    <3> QED
      BY <1>2, <2>1, <2>7, <3>1, <3>2 DEF WriteInOrder
  <2>3. ASSUME pos < Len(write.entries), added' = Append(added, write.entries[pos + 1])
        PROVE  Ordered(ToSet(merge.entries), added')
    <3> DEFINE key == write.entries[pos + 1]
    <3>1. key \in Key /\ pos + 1 \in 1..Len(write.entries) /\ pos \in Nat /\ (pos + 1) - 1 = pos
      BY <1>b, <2>1, <2>3, EntryFacts DEF Types
    <3>2. Ordered(ToSet(merge.entries), write.entries)
      BY <1>3, <1>c, <2>1 DEF Keys
    <3>3. key \in Pipeline =>
            ShaderOf[key] \in ToSet(merge.entries) \cup {write.entries[j] : j \in 1..pos}
      BY <3>1, <3>2 DEF Ordered
    <3>4. ToSet(merge.entries) \cup {write.entries[j] : j \in 1..pos}
            = ToSet(merge.entries) \cup ToSet(added)
      BY <2>1 DEF MergeIsComplete
    <3>5. Ordered(ToSet(merge.entries), added) /\ added \in Seq(Key)
      BY <1>2, <2>1 DEF AddedInOrder, Types
    <3> HIDE DEF key
    <3>6. Ordered(ToSet(merge.entries), Append(added, key))
      BY <3>1, <3>3, <3>4, <3>5, OrderedAppend
    <3> QED
      BY <2>3, <3>6 DEF key
  <2>4. \/ added' = added
        \/ pos < Len(write.entries) /\ added' = Append(added, write.entries[pos + 1])
    <3>1. Len(write.entries) \in Nat /\ pos \in Nat
      BY <1>b, <2>1 DEF Types
    <3>2. pos # Len(write.entries) => pos < Len(write.entries)
      BY <2>1, <3>1
    <3> QED
      BY <1>9, <2>1, <3>2 DEF AppendEntry
  <2>5. Ordered(ToSet(merge.entries), added)
    BY <1>2, <2>1 DEF AddedInOrder
  <2>6. AddedInOrder'
    BY <2>1, <2>3, <2>4, <2>5, <2>7 DEF AddedInOrder
  <2> QED
    BY <2>2, <2>6
<1>10. CASE MoveBack \/ Install
  <2>1. /\ write' = write /\ pc' \in {"load", "drop_write"} /\ pc \in {"scan", "append", "install"}
        /\ read = NoFile /\ merge # NoFile /\ merge \in Archive /\ added \in Seq(Key)
    BY <1>10 DEF MoveBack, Install, out_cancellation, Phases, Merging, Types
  <2>2. Ordered(ToSet(merge.entries), added)
    BY <1>2, <2>1, OrderedAppend DEF AddedInOrder, Phases
  <2>3. \/ merge' = NoFile /\ read' \in flushed(merge, added)
        \/ merge' = NoFile /\ \E n \in 0..Len(added) : read' \in extended(merge, added, n)
        \/ read' = NoFile /\ merge' \in flushed(merge, added)
    BY <1>10, <2>1 DEF MoveBack, Install
  <2>4. ASSUME NEW e, \/ e \in flushed(merge, added)
                      \/ \E n \in 0..Len(added) : e \in extended(merge, added, n)
        PROVE  /\ ShadersWith(NoFile, e) /\ ShadersWith(e, NoFile)
               /\ \A b : Keys(b, merge) \subseteq Keys(b, e)
    <3>1. Len(added) \in 0..Len(added)
      BY <2>1
    <3>2. \E n \in 0..Len(added) : e \in extended(merge, added, n)
      BY <2>4, <3>1 DEF flushed
    <3>3. /\ e # NoFile /\ e.build = merge.build
          /\ \E n \in 0..Len(added) : e.entries = merge.entries \o SubSeq(added, 1, n)
      BY <2>1, <3>2, ExtendedFacts
    <3>4. ShadersWith(NoFile, merge)
      BY <1>2, <2>1
    <3> QED
      BY <2>1, <2>2, <3>3, <3>4, GrownShaders
  <2>5. PICK e : /\ (read' = e /\ merge' = NoFile) \/ (read' = NoFile /\ merge' = e)
                 /\ \/ e \in flushed(merge, added)
                    \/ \E n \in 0..Len(added) : e \in extended(merge, added, n)
    BY <2>3
  <2>6. ShadersWith(read', merge')
    BY <2>4, <2>5
  <2>7. Keys(write.build, read) \cup Keys(write.build, merge)
          \subseteq Keys(write.build, read') \cup Keys(write.build, merge')
    BY <1>c, <2>1, <2>4, <2>5
  <2>8. write # NoFile =>
          Ordered(Keys(write.build, read') \cup Keys(write.build, merge'), write.entries)
    <3> SUFFICES ASSUME write # NoFile
                 PROVE  Ordered(Keys(write.build, read') \cup Keys(write.build, merge'),
                                write.entries)
      OBVIOUS
    <3> DEFINE smaller == Keys(write.build, read) \cup Keys(write.build, merge)
               larger == Keys(write.build, read') \cup Keys(write.build, merge')
    <3>1. write.entries \in Seq(Key) /\ <<>> \in Seq(Key) /\ write.entries \o <<>> = write.entries
      BY <1>b, ConcatEmptySeq
    <3>2. Ordered(smaller, write.entries \o <<>>) /\ smaller \subseteq larger
      BY <1>3, <2>7, <3>1
    <3> HIDE DEF smaller, larger
    <3>3. Ordered(larger, write.entries)
      BY <3>1, <3>2, OrderedFacts
    <3> QED
      BY <3>3 DEF larger
  <2>9. WriteInOrder'
    BY <1>0, <1>a, <1>b, <2>1, <2>8 DEF WriteInOrder
  <2> QED
    BY <2>1, <2>6, <2>9 DEF ShadersWith, AddedInOrder
<1>11. CASE Promote
  <2>1. (Promote /\ UNCHANGED <<read, write>>) \/ (write # NoFile /\ read = NoFile)
    BY <1>11 DEF Promote
  <2> QED
    BY <1>1, <1>4, <1>11, <2>1 DEF ShadersComeFirst
<1>12. CASE Claim
  <2>1. (Claim /\ UNCHANGED <<read, merge>>) \/ (read # NoFile /\ merge = NoFile)
    BY <1>12 DEF Claim
  <2> QED
    BY <1>1, <1>5, <1>12, <2>1 DEF ShadersComeFirst
<1>14. CASE Replace
  BY <1>7, <1>13, <1>14 DEF Replace
<1> QED
  BY <1>6, <1>8, <1>9, <1>10, <1>11, <1>12, <1>14 DEF Merge

\* Saving a pipeline puts its shader before it.
LEMMA SaveKeepsShaders ==
  ASSUME Inv, LibIsStored, ShadersComeFirst,
         NEW p \in Pipeline, save_pipeline_state(p), pc \in Running \ {"exited"},
         pc' = pc, UNCHANGED <<read, merge, build, lost>>
  PROVE  ShadersComeFirst'
<1> USE DEF Inv
<1>0. pc' \notin {"append", "install"}
  BY DEF Running
<1>1. CASE UNCHANGED <<write, sink>>
  BY <1>0, <1>1, QuietShaders
<1>2. CASE lib' = lib \cup ToSet(Serialized(p)) /\ notify(Serialized(p))
  <2> DEFINE new == Serialized(p)
             empty == [build |-> NoBuild, entries |-> <<>>, sliced |-> FALSE]
  <2>0. new \in Seq(Key) /\ Len(new) > 0
    BY SerializedFacts
  <2>e. empty.entries = <<>> /\ empty # NoFile
    <3>1. <<>> \in Seq(Key)
      BY EmptyFacts
    <3>2. empty \in Archive
      BY <3>1 DEF Archive
    <3> QED
      BY <3>2, ArchiveFacts
  <2> HIDE DEF new, empty
  <2>1. /\ sink' \in Sink
        /\ \/ write' = write
           \/ ~sink.attempted /\ write = NoFile /\ write' = empty
        /\ sink'.open => sink.open \/ (~sink.attempted /\ write = NoFile /\ write' # NoFile)
        /\ \/ sink'.pending = sink.pending
           \/ /\ sink'.open /\ ~sink.broken
              /\ \E n \in 0..Len(new) : sink'.pending = sink.pending \o SubSeq(new, 1, n)
        /\ sink.open => sink'.open
    BY <1>2, <2>0, NotifyFacts DEF new, empty
  <2> SUFFICES ASSUME ~lost' PROVE ShadersWith(read, merge)' /\ WriteInOrder' /\ AddedInOrder'
    BY DEF ShadersComeFirst
  <2>2. ShadersWith(read, merge) /\ WriteInOrder
    BY DEF ShadersComeFirst
  <2>3. sink.pending \in Seq(Key) /\ sink.open \in BOOLEAN /\ sink'.open \in BOOLEAN
        /\ (write # NoFile => write.entries \in Seq(Key))
    BY <2>1, SinkFacts, ArchiveFacts DEF Types, Sink
  <2>4. /\ merge = NoFile /\ merge' = NoFile /\ read' = read
        /\ (sink.open => sink.attempted /\ write # NoFile)
        /\ (~sink.open => sink.pending = <<>>)
    BY DEF Files, Running
  <2> DEFINE base == Keys(build, read) \cup Keys(build, merge)
  <2>5. ShadersWith(read, merge)'
    BY <2>2, <2>4 DEF ShadersWith
  <2>6. CASE write' = write /\ sink'.pending = sink.pending
    <3>1. sink'.open = sink.open
      BY <2>1, <2>3, <2>4, <2>6
    <3>2. Writer' = Writer
      BY <2>6, <3>1 DEF Writer
    <3>3. WriteInOrder'
      BY <2>2, <2>4, <2>6, <3>2 DEF WriteInOrder
    <3> QED
      BY <1>0, <2>5, <3>3 DEF AddedInOrder
  <2>7. CASE write' = empty /\ ~sink.attempted /\ sink'.pending = sink.pending
    <3>1. write'.entries \o sink'.pending = <<>>
      <4>1. write'.entries = <<>> /\ sink'.pending = <<>>
        BY <2>4, <2>7, <2>e
      <4>2. <<>> \o <<>> = <<>>
        BY ConcatEmptySeq, EmptyFacts
      <4> QED
        BY <4>1, <4>2
    <3>2. WriteInOrder'
      BY <3>1, OrderedAppend DEF WriteInOrder
    <3> QED
      BY <1>0, <2>5, <3>2 DEF AddedInOrder
  <2>8. ASSUME NEW n \in 0..Len(new), sink'.pending = sink.pending \o SubSeq(new, 1, n),
               sink'.open, ~sink.broken
        PROVE  WriteInOrder'
    <3> DEFINE old == write'.entries \o sink.pending
    <3>1. /\ write'.entries \in Seq(Key) /\ old \in Seq(Key)
          /\ Ordered(base, old)
          /\ lib \subseteq base \cup ToSet(old)
      <4>1. CASE sink.open
        <5>1. write' = write /\ Writer = build /\ write # NoFile
          BY <2>1, <2>4, <4>1 DEF Writer
        <5>2. Ordered(base, old)
          BY <2>2, <5>1 DEF WriteInOrder
        <5>3. ToSet(old) = ToSet(write.entries) \cup ToSet(sink.pending) /\ old \in Seq(Key)
          BY <2>3, <5>1, ConcatFacts
        <5>4. lib \subseteq Stored(read) \cup ToSet(write.entries) \cup ToSet(sink.pending)
          BY <2>8, <4>1 DEF LibIsStored
        <5>5. Stored(read) = Keys(build, read)
          BY DEF Stored, valid, Keys
        <5> QED
          BY <2>3, <5>1, <5>2, <5>3, <5>4, <5>5
      <4>2. CASE ~sink.open
        <5>1. ~sink.attempted /\ write' = empty /\ write'.entries = <<>>
          BY <2>1, <2>8, <2>e, <4>2
        <5>2. old = <<>> /\ <<>> \in Seq(Key)
          <6>1. <<>> \o <<>> = <<>> /\ <<>> \in Seq(Key)
            BY ConcatEmptySeq, EmptyFacts
          <6> QED
            BY <2>4, <4>2, <5>1, <6>1
        <5>3. lib \subseteq Stored(read)
          BY <5>1 DEF LibIsStored
        <5>4. Stored(read) = Keys(build, read)
          BY DEF Stored, valid, Keys
        <5>5. Ordered(base, <<>>)
          BY OrderedAppend
        <5> QED
          BY <5>1, <5>2, <5>3, <5>4, <5>5
      <4> QED
        BY <4>1, <4>2
    <3> HIDE DEF base
    <3>2. Ordered(base, old \o new)
      <4> HIDE DEF old
      <4> QED
        BY <3>1, OrderedSerialized DEF new
    <3>3. Ordered(base, old \o SubSeq(new, 1, n))
      <4> HIDE DEF old
      <4>1. base \subseteq base
        OBVIOUS
      <4> QED
        BY <2>0, <3>1, <3>2, <4>1, OrderedFacts
    <3>4. SubSeq(new, 1, n) \in Seq(Key)
      BY <2>0
    <3>5. old \o SubSeq(new, 1, n) = write'.entries \o sink'.pending
      <4>1. (write'.entries \o sink.pending) \o SubSeq(new, 1, n)
              = write'.entries \o (sink.pending \o SubSeq(new, 1, n))
        <5>1. \A x, y, z \in Seq(Key) : (x \o y) \o z = x \o (y \o z)
          BY ConcatAssociative
        <5> QED
          BY <2>3, <3>1, <3>4, <5>1
      <4> QED
        BY <2>8, <4>1
    <3>6. Writer' = build
      BY <2>8 DEF Writer
    <3>7. Keys(Writer, read)' \cup Keys(Writer, merge)' = base
      BY <2>4, <3>6 DEF base, Keys
    <3> HIDE DEF old
    <3> QED
      BY <3>3, <3>5, <3>7 DEF WriteInOrder
  <2>9. CASE \E n \in 0..Len(new) : sink'.pending = sink.pending \o SubSeq(new, 1, n)
             /\ sink'.open /\ ~sink.broken
    BY <1>0, <2>5, <2>8, <2>9 DEF AddedInOrder
  <2> QED
    BY <2>1, <2>6, <2>7, <2>9
<1> QED
  BY <1>1, <1>2, SaveFacts

\* A flush writes what was in the buffer, in order.
LEMMA FlushKeepsShaders ==
  ASSUME Inv, ShadersComeFirst, Saved \/ Exit
  PROVE  ShadersComeFirst'
<1> USE DEF Inv
<1>1. /\ pc \in Running /\ pc' \in Running /\ UNCHANGED <<read, merge, build, lost>>
      /\ sink'.open => sink.open
      /\ \/ write' = write /\ (sink' = sink \/ ~sink.open)
         \/ sink.open /\ write' = written /\ sink'.pending = <<>>
      /\ sink' = sink \/ sink'.pending = <<>>
  <2>0. sink = [attempted |-> sink.attempted, open |-> sink.open,
                pending |-> sink.pending, broken |-> sink.broken]
    BY DEF Types, Sink
  <2>1. ASSUME sink' = [sink EXCEPT !.pending = <<>>]
        PROVE  sink'.open = sink.open /\ sink'.pending = <<>>
    BY <2>0, <2>1
  <2>2. ASSUME sink' = [sink EXCEPT !.open = FALSE, !.pending = <<>>]
        PROVE  ~sink'.open /\ sink'.pending = <<>>
    BY <2>0, <2>2
  <2>3. CASE Saved
    BY <2>1, <2>3 DEF Saved, Running, history
  <2>4. CASE Exit
    BY <2>2, <2>4 DEF Exit, Running, history
  <2> QED
    BY <2>3, <2>4
<1>2. /\ ~sink.open => sink.pending = <<>> /\ ~sink'.open /\ sink'.pending = sink.pending
      /\ sink.open => write # NoFile
  <2>1. /\ ~sink.open => sink.pending = <<>>
        /\ sink.open => write # NoFile
    BY DEF Files
  <2> QED
    BY <1>1, <2>1
<1>3. CASE write' = write /\ (sink' = sink \/ ~sink.open)
  <2>1. (sink'.open <=> sink.open) /\ sink'.pending = sink.pending
    BY <1>1, <1>2, <1>3
  <2> QED
    BY <1>1, <1>3, <2>1, QuietShaders DEF Running
<1>4. CASE sink.open /\ write' = written /\ sink'.pending = <<>>
  <2> SUFFICES ASSUME ~lost' PROVE ShadersWith(read, merge)' /\ WriteInOrder' /\ AddedInOrder'
    BY DEF ShadersComeFirst
  <2>1. ShadersWith(read, merge) /\ WriteInOrder
    BY <1>1 DEF ShadersComeFirst
  <2>2. write'.entries = write.entries \o sink.pending /\ write'.build = build
        /\ write'.entries \in Seq(Key)
    <3>1. write \in Archive /\ build \in Build /\ sink \in Sink
      BY <1>2, <1>4 DEF Types
    <3>2. written \in Archive /\ written.build = build
          /\ written.entries = write.entries \o sink.pending
      BY <3>1, WrittenFacts
    <3>3. written.entries \in Seq(Key)
      BY <3>2, ArchiveFacts
    <3> QED
      BY <1>4, <3>2, <3>3
  <2>3. Writer = build /\ Writer' = build
    BY <1>1, <1>4, <2>2 DEF Writer
  <2>4. write'.entries \o sink'.pending = write.entries \o sink.pending
    <3>1. write'.entries \o <<>> = write'.entries
      BY <2>2, ConcatEmptySeq
    <3> QED
      BY <1>4, <2>2, <3>1
  <2>5. Keys(Writer, read)' \cup Keys(Writer, merge)'
          = Keys(Writer, read) \cup Keys(Writer, merge)
    BY <1>1, <2>3 DEF Keys
  <2>6. WriteInOrder'
    BY <1>2, <1>4, <2>1, <2>4, <2>5 DEF WriteInOrder
  <2>7. ShadersWith(read, merge)' /\ AddedInOrder'
    BY <1>1, <2>1 DEF ShadersWith, AddedInOrder, Running
  <2> QED
    BY <2>6, <2>7
<1> QED
  BY <1>1, <1>3, <1>4

\* What a kill leaves in the files is in order.
LEMMA KillKeepsShaders ==
  ASSUME Inv, LibIsStored, ShadersComeFirst, Kill
  PROVE  ShadersComeFirst'
<1> USE DEF Inv
<1>0. /\ \/ write' = write
         \/ /\ sink.open /\ write # NoFile
            /\ write' \in Archive /\ write' # NoFile /\ write'.build = build
            /\ \E n \in 0..Len(sink.pending) :
                 write'.entries = write.entries \o SubSeq(sink.pending, 1, n)
      /\ \/ merge' = merge
         \/ /\ pc \in {"append", "install"} /\ merge # NoFile
            /\ merge' \in Archive /\ merge' # NoFile /\ merge'.build = merge.build
            /\ \E n \in 0..Len(added) :
                 merge'.entries = merge.entries \o SubSeq(added, 1, n)
      /\ UNCHANGED <<read, build, lost>> /\ pc' = "off"
  BY KillFacts
<1>1. sink' = Closed /\ ~sink'.open /\ sink'.pending = <<>>
  BY DEF Kill, forget, Closed
<1>2. /\ sink.open => write # NoFile /\ pc \in Running /\ merge = NoFile
      /\ ~sink.open => sink.pending = <<>>
      /\ sink.pending \in Seq(Key)
  BY SinkFacts DEF Files, Types, Phases, Closed
<1>3. ~sink.open => write' = write
  BY <1>0
<1> SUFFICES ASSUME ~lost' PROVE ShadersWith(read, merge)' /\ WriteInOrder' /\ AddedInOrder'
  BY DEF ShadersComeFirst
<1>4. ShadersWith(read, merge) /\ WriteInOrder /\ AddedInOrder
  BY <1>0 DEF ShadersComeFirst
<1>5. AddedInOrder'
  BY <1>0 DEF AddedInOrder
<1>6. /\ ShadersWith(read', merge')
      /\ \A b : Keys(b, merge) \subseteq Keys(b, merge')
  <2>1. CASE merge' = merge
    BY <1>0, <1>4, <2>1
  <2>2. CASE /\ pc \in {"append", "install"} /\ merge # NoFile
             /\ merge' # NoFile /\ merge'.build = merge.build
             /\ \E n \in 0..Len(added) :
                  merge'.entries = merge.entries \o SubSeq(added, 1, n)
    <3>1. read = NoFile /\ read' = NoFile /\ merge \in Archive /\ added \in Seq(Key)
      BY <1>0, <2>2 DEF Phases, Merging, Types
    <3>2. Ordered(ToSet(merge.entries), added) /\ ShadersWith(NoFile, merge)
      BY <1>4, <2>2, <3>1 DEF AddedInOrder
    <3>3. PICK m : m = merge'
      OBVIOUS
    <3>4. ShadersWith(NoFile, m) /\ \A b : Keys(b, merge) \subseteq Keys(b, m)
      BY <2>2, <3>1, <3>2, <3>3, GrownShaders
    <3> QED
      BY <3>1, <3>3, <3>4
  <2> QED
    BY <1>0, <2>1, <2>2
<1>7. ASSUME write' # NoFile
      PROVE  Ordered(Keys(write'.build, read') \cup Keys(write'.build, merge'), write'.entries)
  <2>1. write' \in Archive /\ write # NoFile /\ write \in Archive
    BY <1>0, <1>7 DEF Types
  <2>2. write.entries \in Seq(Key) /\ write'.entries \in Seq(Key)
    BY <2>1, ArchiveFacts
  <2> DEFINE base == Keys(Writer, read) \cup Keys(Writer, merge)
             larger == Keys(Writer, read') \cup Keys(Writer, merge')
  <2>3. Ordered(base, write.entries \o sink.pending) /\ base \subseteq larger
    BY <1>0, <1>4, <1>6, <2>1 DEF WriteInOrder
  <2> HIDE DEF base, larger
  <2>4. /\ \A n \in 0..Len(sink.pending) : Ordered(larger, write.entries \o SubSeq(sink.pending, 1, n))
        /\ Ordered(larger, write.entries)
    BY <1>2, <2>2, <2>3, OrderedFacts
  <2>5. CASE sink.open
    <3>1. Writer = build
      BY <2>5 DEF Writer
    <3>2. CASE write' = write
      <4>1. write.build = build \/ write.entries = <<>>
        BY <2>5 DEF LibIsStored
      <4>2. CASE write.build = build
        BY <2>4, <3>1, <3>2, <4>2 DEF larger
      <4>3. CASE write.entries = <<>>
        BY <3>2, <4>3, OrderedAppend
      <4> QED
        BY <4>1, <4>2, <4>3
    <3>3. CASE /\ write'.build = build
               /\ \E n \in 0..Len(sink.pending) :
                    write'.entries = write.entries \o SubSeq(sink.pending, 1, n)
      <4>1. Ordered(larger, write'.entries)
        BY <2>4, <3>3
      <4> QED
        BY <3>1, <3>3, <4>1 DEF larger
    <3> QED
      BY <1>0, <3>2, <3>3
  <2>6. CASE ~sink.open
    <3>1. Writer = write.build /\ write' = write
      BY <1>3, <2>6 DEF Writer
    <3> QED
      BY <2>4, <3>1 DEF larger
  <2> QED
    BY <1>2, <2>5, <2>6, SinkFacts DEF Types
<1>8. WriteInOrder'
  <2> SUFFICES ASSUME write' # NoFile
               PROVE  Ordered(Keys(Writer, read)' \cup Keys(Writer, merge)',
                              write'.entries \o sink'.pending)
    BY DEF WriteInOrder
  <2>1. Writer' = write'.build
    BY <1>1 DEF Writer
  <2>2. write'.entries \in Seq(Key)
    <3>1. write' \in Archive
      BY <1>0 DEF Types
    <3> QED
      BY <3>1, ArchiveFacts
  <2>3. write'.entries \o sink'.pending = write'.entries
    BY <1>1, <2>2, ConcatEmptySeq
  <2> QED
    BY <1>7, <2>1, <2>3
<1> QED
  BY <1>5, <1>6, <1>8 DEF ShadersWith

\* All steps keep shaders with their pipelines.
LEMMA ShadersComeFirstStep ==
  ASSUME Inv, LibIsStored, ShadersComeFirst, [Next]_vars
  PROVE  ShadersComeFirst'
<1> USE DEF Inv
<1>1. CASE Merge
  BY <1>1, MergeKeepsShaders
<1>2. CASE Save
  <2>1. Head(todo) \in Pipeline /\ pc \in Running \ {"exited"}
    BY <1>2, ToSetFacts DEF Save, Types, Running
  <2> QED
    BY <1>2, <2>1, SaveKeepsShaders DEF Save, history
<1>3. CASE SaveRemaining
  <2>1. Head(items) \in Pipeline /\ pc \in Running \ {"exited"}
    BY <1>3, ToSetFacts DEF SaveRemaining, Types, Running
  <2> QED
    BY <1>3, <2>1, SaveKeepsShaders DEF SaveRemaining, history
<1>4. CASE Saved \/ Exit
  BY <1>4, FlushKeepsShaders
<1>5. CASE Kill
  BY <1>5, KillKeepsShaders
<1>6. CASE \/ Load \/ Parse \/ WakeUp \/ Start \/ Cancel \/ Deactivate \/ UNCHANGED vars
           \/ (\E p \in Pipeline : Push(p))
  <2>1. /\ UNCHANGED <<read, write, merge, lost, build, sink>>
        /\ pc' \notin {"append", "install"} \/ UNCHANGED <<pc, added>>
    BY <1>6 DEF Load, Parse, WakeUp, Start, Cancel, Deactivate, Push, vars, files, scan, output,
      history
  <2> QED
    BY <2>1, QuietShaders
<1>7. CASE Join \/ Update
  <2>1. /\ UNCHANGED <<read, write, merge, lost>> /\ pc' = "off"
        /\ sink' = Closed /\ ~sink.open
    BY <1>7 DEF Join, Update, forget, files, output, history, Files, Phases, Closed, Running
  <2>2. sink.pending = <<>> /\ sink'.pending = <<>> /\ ~sink'.open
    BY <2>1 DEF Files, Closed
  <2> QED
    BY <2>1, <2>2, QuietShaders
<1> QED
  BY <1>1, <1>2, <1>3, <1>4, <1>5, <1>6, <1>7 DEF Next, DiskThread

\* Whatever is killed, merged or fails, a pipeline that can be read from the
\* files has its SPIR-V there as well, unless a stale merge file was deleted.
THEOREM ShadersAreStoredAlways == Spec => []ShadersAreStored
<1>1. Init => LibIsStored /\ ShadersComeFirst
  <2> SUFFICES ASSUME Init PROVE LibIsStored /\ ShadersComeFirst
    OBVIOUS
  <2>1. \A b : Keys(b, NoFile) = {}
    BY DEF Keys
  <2>2. ShadersWith(read, merge)
    BY <2>1 DEF Init, ShadersWith
  <2> QED
    BY <2>2 DEF Init, LibIsStored, ShadersComeFirst, WriteInOrder, AddedInOrder, Closed, Running
<1>2. Spec => [](LibIsStored /\ ShadersComeFirst)
  BY <1>1, LibIsStoredStep, ShadersComeFirstStep, Invariance, PTL DEF Spec
<1>3. Inv /\ LibIsStored /\ ShadersComeFirst => ShadersAreStored
  <2> DEFINE stored == Stored(read) \cup Stored(write) \cup Stored(merge)
  <2> SUFFICES ASSUME Inv, LibIsStored, ShadersComeFirst, ~lost,
                      NEW p \in Pipeline, p \in stored
               PROVE  ShaderOf[p] \in stored
    BY DEF ShadersAreStored
  <2>1. ShadersWith(read, merge) /\ WriteInOrder /\ build \in Build
    BY DEF ShadersComeFirst, Inv, Types
  <2>2. Stored(read) = Keys(build, read) /\ Stored(merge) = Keys(build, merge)
    BY DEF Stored, valid, Keys
  <2>3. CASE p \in Stored(read) \cup Stored(merge)
    BY <2>1, <2>2, <2>3 DEF ShadersWith
  <2>4. CASE p \in Stored(write)
    <3>1. /\ write # NoFile /\ write.build = build /\ p \in ToSet(write.entries)
          /\ Stored(write) = ToSet(write.entries)
      BY <2>4 DEF Stored, valid
    <3>2. write.entries \in Seq(Key) /\ sink.pending \in Seq(Key)
      BY <3>1, ArchiveFacts, SinkFacts DEF Inv, Types
    <3>3. Writer = build
      BY <3>1 DEF Writer
    <3> DEFINE base == Keys(build, read) \cup Keys(build, merge)
    <3>4. Ordered(base, write.entries \o sink.pending) /\ base \subseteq base
      BY <2>1, <3>1, <3>3 DEF WriteInOrder
    <3> HIDE DEF base
    <3>5. Ordered(base, write.entries)
      BY <3>2, <3>4, OrderedFacts
    <3>6. ShaderOf[p] \in base \cup ToSet(write.entries)
      BY <3>1, <3>2, <3>5, OrderedParts
    <3> QED
      BY <2>2, <3>1, <3>6 DEF base
  <2> QED
    BY <2>3, <2>4
<1> QED
  BY <1>2, <1>3, Invariance, PTL
=============================================================================

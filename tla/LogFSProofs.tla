---------------------------- MODULE LogFSProofs ----------------------------
(***************************************************************************)
(* Proofs about LogFS and LogFSFiles for every log size, block size, table *)
(* size and set of names and payloads: ids are unique, the segments of a   *)
(* file tile it and point at its data, the acknowledged log is never       *)
(* rewritten; reads return what was acknowledged, and the log file system  *)
(* implements DurableFiles.                                                *)
(***************************************************************************)
EXTENDS LogFSFiles, SequenceTheorems, WellFoundedInduction, TLAPS

\* The record being written starts at the end of the log, fits, and agrees with
\* the entry of its file in the file table.
OpInv ==
  op # Idle =>
    /\ mode = "ready"
    /\ op.at = logEnd
    /\ op.at + RecordSize(op.rec) <= LogEnd
    /\ op.done <= RecordSize(op.rec)
    /\ op.name \in DOMAIN files
    /\ op.rec.id = files[op.name].id
    /\ op.rec.before = files[op.name].size
    /\ \A i \in 1 .. op.done : disk[op.at + i - 1] = [rec |-> op.rec, part |-> i]

\* A file is shorter than the log.
SizeInv == \A n \in DOMAIN files : files[n].size < logEnd

IInv == TypeOK /\ OpInv /\ SizeInv /\ IdsUnique /\ SegmentsTile /\ SegmentsHold

----------------------------------------------------------------------------
(* Records and cells *)

\* A record has a header and at least one more cell.
LEMMA RecordFacts ==
  ASSUME NEW r \in Records
  PROVE  /\ RecordSize(r) \in Nat /\ RecordSize(r) >= 2
         /\ r.type \in {"create", "append"}
         /\ r.id \in 1 .. MaxId /\ r.before \in 0 .. LogCells
         /\ r.type = "create" => r.name \in Names /\ r.before = 0 /\ r.data = << >>
         /\ r.type = "append" => /\ r.data \in Payloads
                                 /\ Len(r.data) \in Nat \ {0}
                                 /\ RecordSize(r) = 1 + Len(r.data)
<1>1. CASE r.type = "create"
  BY <1>1, LogFSAssumption DEF Records, RecordSize
<1>2. CASE r.type # "create"
  <2>1. r.type = "append" /\ r.data \in Payloads /\ r.id \in 1 .. MaxId /\ r.before \in 0 .. LogCells
    BY <1>2 DEF Records
  <2>2. r.data \in Seq(Nat) /\ r.data # << >>
    BY <2>1, LogFSAssumption
  <2>3. Len(r.data) \in Nat \ {0}
    BY <2>2
  <2> QED BY <2>1, <2>3 DEF RecordSize
<1> QED BY <1>1, <1>2

\* What a read at the log's end accepts is a whole record.
LEMMA RecordAtFacts ==
  ASSUME TypeOK, NEW r \in RecordAt(logEnd)
  PROVE  /\ r \in Records
         /\ HasRecord(disk, logEnd, r)
         /\ logEnd + RecordSize(r) <= LogEnd
<1>1. logEnd <= LogCells /\ disk[logEnd].part = 1 /\ r = disk[logEnd].rec /\ HasRecord(disk, logEnd, r)
  BY DEF RecordAt
<1>2. logEnd \in 1 .. LogCells
  BY <1>1, LogFSAssumption DEF TypeOK, LogEnd
<1>3. disk[logEnd] \in {Zero} \cup [rec : Records, part : 1 .. LogCells]
  BY <1>2 DEF TypeOK
<1>4. disk[logEnd] # Zero
  BY <1>1 DEF Zero
<1> QED BY <1>1, <1>3, <1>4 DEF HasRecord

\* The type of an entry of the segment table.
LEMMA SegmentType ==
  ASSUME TypeOK, NEW i \in 1 .. Len(segs)
  PROVE  /\ segs[i] \in Segments
         /\ segs[i].id \in Nat /\ segs[i].off \in Nat
         /\ segs[i].at \in 2 .. LogCells /\ segs[i].size \in 1 .. LogCells
<1>1. segs \in Seq(Segments)
  BY DEF TypeOK
<1>2. segs[i] \in Segments
  BY <1>1
<1> QED BY <1>2, LogFSAssumption DEF Segments

\* NameOf inverts the ids of the file table.
LEMMA NameOfFacts ==
  ASSUME NEW id \in FileIds
  PROVE  NameOf(id) \in DOMAIN files /\ files[NameOf(id)].id = id
<1>1. \E n \in DOMAIN files : files[n].id = id
  BY DEF FileIds
<1> QED BY <1>1 DEF NameOf

\* A write covers at least one cell and stays inside the record.
LEMMA ChunkFacts ==
  ASSUME TypeOK, OpInv, Unfinished
  PROVE  /\ Chunk \in Nat
         /\ 1 <= Chunk /\ op.done + Chunk <= RecordSize(op.rec)
         /\ op.rec \in Records /\ op.at = logEnd /\ op.done \in Nat
<1>0. op # Idle /\ op.done < RecordSize(op.rec)
  BY DEF Unfinished
<1>a. op \in [rec : Records, at : 1 .. LogCells, done : 0 .. LogCells, name : Names]
  BY <1>0 DEF TypeOK
<1>1. /\ op.rec \in Records /\ op.at \in 1 .. LogCells /\ op.done \in 0 .. LogCells
      /\ op.at = logEnd /\ op.done < RecordSize(op.rec)
  BY <1>0, <1>a DEF OpInv
<1>2. RecordSize(op.rec) \in Nat
  BY <1>1, RecordFacts
<1> DEFINE s == op.at + op.done
<1>3. s \in Nat /\ s - 1 \in Nat
  BY <1>1, LogFSAssumption
<1>4. (s - 1) % BlockCells \in 0 .. BlockCells - 1
  <2> HIDE DEF s
  <2> QED BY <1>3, LogFSAssumption
<1>5. BlockCells - ((s - 1) % BlockCells) \in Nat \ {0}
  <2> HIDE DEF s
  <2> QED BY <1>4, LogFSAssumption
<1>6. RecordSize(op.rec) - op.done \in Nat \ {0}
  BY <1>1, <1>2
<1>7. \/ Chunk = BlockCells - ((s - 1) % BlockCells) /\ Chunk < RecordSize(op.rec) - op.done
      \/ Chunk = RecordSize(op.rec) - op.done
  BY DEF Chunk
<1> HIDE DEF s
<1>8. Chunk \in Nat /\ 1 <= Chunk /\ Chunk <= RecordSize(op.rec) - op.done
  BY <1>5, <1>6, <1>7
<1> QED BY <1>1, <1>2, <1>8

\* A write leaves the log below its end alone and keeps the disk's type.
LEMMA WrittenFacts ==
  ASSUME TypeOK, OpInv, Unfinished
  PROVE  /\ Written(Chunk) \in [1 .. LogCells -> {Zero} \cup [rec : Records, part : 1 .. LogCells]]
         /\ \A c \in 1 .. LogCells : c < logEnd => Written(Chunk)[c] = disk[c]
<1>1. /\ Chunk \in Nat /\ 1 <= Chunk /\ op.done + Chunk <= RecordSize(op.rec)
      /\ op.rec \in Records /\ op.at = logEnd /\ op.done \in Nat
  BY ChunkFacts
<1>2. logEnd \in Nat /\ 1 <= logEnd /\ LogCells \in Nat /\ RecordSize(op.rec) \in Nat
  BY <1>1, RecordFacts, LogFSAssumption DEF TypeOK, LogEnd
<1>3. ASSUME NEW c \in 1 .. LogCells
      PROVE  /\ Written(Chunk)[c] \in {Zero} \cup [rec : Records, part : 1 .. LogCells]
             /\ c < logEnd => Written(Chunk)[c] = disk[c]
  <2>1. CASE c >= op.at + op.done /\ c < op.at + op.done + Chunk
    <3>1. Written(Chunk)[c] = [rec |-> op.rec, part |-> c - op.at + 1]
      BY <2>1 DEF Written
    <3>2. c - op.at + 1 \in 1 .. LogCells /\ ~(c < logEnd)
      BY <1>1, <1>2, <2>1
    <3> QED BY <3>1, <3>2, <1>1
  <2>2. CASE ~(c >= op.at + op.done /\ c < op.at + op.done + Chunk)
    BY <2>2 DEF Written, TypeOK
  <2> QED BY <2>1, <2>2
<1> QED BY <1>3 DEF Written

\* A record that lies below the log's end is still there when the disk agrees
\* with the old one below that end.
LEMMA HasRecordStable ==
  ASSUME NEW d, NEW e, NEW at \in Int, NEW end \in Int, NEW r \in Records,
         1 <= at, end <= LogEnd, at + RecordSize(r) <= end,
         HasRecord(d, at, r),
         \A c \in 1 .. LogCells : c < end => e[c] = d[c]
  PROVE  HasRecord(e, at, r)
<1>1. RecordSize(r) \in Nat /\ LogCells \in Nat
  BY RecordFacts, LogFSAssumption
<1>2. ASSUME NEW i \in 1 .. RecordSize(r)
      PROVE  e[at + i - 1] = [rec |-> r, part |-> i]
  <2>1. at + i - 1 \in 1 .. LogCells /\ at + i - 1 < end
    BY <1>1 DEF LogEnd
  <2>2. d[at + i - 1] = [rec |-> r, part |-> i]
    BY DEF HasRecord
  <2> QED BY <2>1, <2>2
<1> QED BY <1>2 DEF HasRecord

----------------------------------------------------------------------------
(* The parts of the invariant under the changes the actions make *)

\* The records the segments stand for are still there when the disk agrees with
\* the old one below the log's end.
LEMMA HeldBelowEnd ==
  ASSUME IInv, NEW i \in 1 .. Len(segs), NEW e,
         \A c \in 1 .. LogCells : c < logEnd => e[c] = disk[c]
  PROVE  \E r \in Records : /\ HasRecord(e, segs[i].at - 1, r)
                            /\ segs[i] = Segment(r, segs[i].at - 1)
<1>0. logEnd \in Nat /\ logEnd <= LogEnd
  BY LogFSAssumption DEF IInv, TypeOK, LogEnd
<1>1. PICK r \in Records : /\ HasRecord(disk, segs[i].at - 1, r)
                           /\ segs[i] = Segment(r, segs[i].at - 1)
  BY DEF IInv, SegmentsHold
<1>2. segs[i].at \in 2 .. LogCells /\ segs[i].size \in 1 .. LogCells
  BY SegmentType DEF IInv
<1>3. segs[i].at + segs[i].size <= logEnd
  BY DEF IInv, SegmentsTile
<1>4. segs[i].size = Len(r.data)
  BY <1>1 DEF Segment
<1>5. r.type = "append" /\ RecordSize(r) = 1 + Len(r.data)
  <2>1. r.type = "create" => Len(r.data) = 0
    BY RecordFacts
  <2> QED BY <2>1, <1>2, <1>4, RecordFacts, LogFSAssumption
<1>6. (segs[i].at - 1) + RecordSize(r) <= logEnd
  BY <1>2, <1>3, <1>4, <1>5, <1>0, LogFSAssumption
<1>7. 1 <= segs[i].at - 1
  BY <1>2, LogFSAssumption
<1>8. HasRecord(e, segs[i].at - 1, r)
  BY <1>1, <1>2, <1>6, <1>7, <1>0, HasRecordStable, LogFSAssumption
<1> QED BY <1>1, <1>8

\* The tables do not change and the disk stays as it is below the log's end.
LEMMA TablesKept ==
  ASSUME IInv, files' = files, segs' = segs, nextId' = nextId, logEnd' \in Nat,
         logEnd <= logEnd',
         \A c \in 1 .. LogCells : c < logEnd => disk'[c] = disk[c]
  PROVE  SizeInv' /\ IdsUnique' /\ SegmentsTile' /\ SegmentsHold'
<1>1. logEnd \in Nat /\ logEnd <= LogEnd
  BY LogFSAssumption DEF IInv, TypeOK, LogEnd
<1>2. SizeInv'
  BY <1>1 DEF IInv, SizeInv, TypeOK
<1>3. IdsUnique'
  BY DEF IInv, IdsUnique
<1>4. SegmentsTile'
  <2>1. ASSUME NEW i \in 1 .. Len(segs) PROVE segs[i].at + segs[i].size <= logEnd'
    <3>1. segs[i].at + segs[i].size <= logEnd
      BY DEF IInv, SegmentsTile
    <3>2. segs[i].at \in Int /\ segs[i].size \in Int
      BY SegmentType, LogFSAssumption DEF IInv
    <3> QED BY <3>1, <3>2, <1>1
  <2> QED BY <2>1 DEF IInv, SegmentsTile, SegsOf
<1>5. SegmentsHold'
  BY HeldBelowEnd DEF SegmentsHold
<1> QED BY <1>2, <1>3, <1>4, <1>5

\* A file with a fresh id is entered in the table (logfs_create and
\* logfs_replay_create).
LEMMA FileEntered ==
  ASSUME IInv, NEW n \in Names, NEW id \in 1 .. MaxId,
         n \notin DOMAIN files, id \notin FileIds,
         files' = AddFile(n, [id |-> id, size |-> 0]),
         segs' = segs, nextId' \in Nat, nextId <= nextId', id < nextId',
         disk' = disk, logEnd' \in Nat, logEnd <= logEnd'
  PROVE  /\ SizeInv' /\ IdsUnique' /\ SegmentsTile' /\ SegmentsHold'
         /\ DOMAIN files' \subseteq Names
         /\ \A m \in DOMAIN files' : files'[m] \in [id : 1 .. MaxId, size : 0 .. LogCells]
<1>1. /\ logEnd \in Nat /\ 1 <= logEnd /\ nextId \in Nat
      /\ \A m \in DOMAIN files : m \in Names /\ files[m] \in [id : 1 .. MaxId, size : 0 .. LogCells]
  BY LogFSAssumption DEF IInv, TypeOK, LogEnd
<1>2. /\ DOMAIN files' = DOMAIN files \cup {n}
      /\ files'[n] = [id |-> id, size |-> 0]
      /\ \A m \in DOMAIN files : files'[m] = files[m]
  BY DEF AddFile
<1>3. \A m \in DOMAIN files : files[m].id # id
  BY DEF FileIds
<1>4. SizeInv'
  <2>1. ASSUME NEW m \in DOMAIN files PROVE files[m].size < logEnd'
    <3>1. files[m].size < logEnd /\ files[m].size \in Int
      BY <1>1, LogFSAssumption DEF IInv, SizeInv
    <3> QED BY <3>1, <1>1
  <2> QED BY <1>1, <1>2, <2>1 DEF SizeInv
<1>5. IdsUnique'
  <2>1. ASSUME NEW m \in DOMAIN files PROVE files[m].id < nextId'
    <3>1. files[m].id < nextId /\ files[m].id \in Int
      BY <1>1, LogFSAssumption DEF IInv, IdsUnique
    <3> QED BY <3>1, <1>1
  <2> QED BY <1>2, <1>3, <2>1 DEF IInv, IdsUnique
<1>6. \A i \in 1 .. Len(segs) : segs[i].id # id
  BY <1>3 DEF IInv, SegmentsTile
<1>7. SegmentsTile'
  <2>1. ASSUME NEW i \in 1 .. Len(segs) PROVE segs[i].at + segs[i].size <= logEnd'
    <3>1. segs[i].at + segs[i].size <= logEnd
      BY DEF IInv, SegmentsTile
    <3>2. segs[i].at \in Int /\ segs[i].size \in Int
      BY SegmentType, LogFSAssumption DEF IInv
    <3> QED BY <3>1, <3>2, <1>1
  <2>2. ASSUME NEW i \in 1 .. Len(segs) PROVE \E m \in DOMAIN files' : files'[m].id = segs[i].id
    BY <1>2 DEF IInv, SegmentsTile
  <2>3. SegsOf(id) = {} /\ files'[n].size = 0 /\ files'[n].id = id
    BY <1>2, <1>6 DEF SegsOf
  <2> QED BY <1>2, <2>1, <2>2, <2>3 DEF IInv, SegmentsTile, SegsOf
<1>8. SegmentsHold'
  BY DEF IInv, SegmentsHold
<1> QED BY <1>1, <1>2, <1>4, <1>5, <1>7, <1>8, LogFSAssumption

\* A sum of naturals below a bound, kept apart from the records it is used for.
LEMMA SumBelow ==
  ASSUME NEW a \in Int, NEW b \in Int, NEW c \in Int, NEW d \in Nat, a + b <= c
  PROVE  a + b <= c + d
OBVIOUS

\* The segment of an append record has the type of the table's entries.
LEMMA SegmentOfRecord ==
  ASSUME NEW r \in Records, NEW at \in Nat, 1 <= at, at + RecordSize(r) <= LogEnd,
         r.type = "append"
  PROVE  Segment(r, at) \in Segments
<1>1. /\ Len(r.data) \in Nat \ {0} /\ r.id \in 1 .. MaxId /\ r.before \in 0 .. LogCells
      /\ RecordSize(r) = 1 + Len(r.data)
  BY RecordFacts
<1>2. LogCells \in Nat /\ LogEnd = LogCells + 1
  BY LogFSAssumption DEF LogEnd
<1>3. Len(r.data) \in 1 .. LogCells /\ at + 1 \in 2 .. LogCells
  BY <1>1, <1>2
<1> QED BY <1>1, <1>3 DEF Segment, Segments

\* An append record at the end of the log is entered in the tables
\* (logfs_append and logfs_replay_append).
LEMMA SegmentEntered ==
  ASSUME IInv, NEW r \in Records, NEW n \in DOMAIN files,
         r.type = "append", files[n].id = r.id, files[n].size = r.before,
         HasRecord(disk, logEnd, r), logEnd + RecordSize(r) <= LogEnd,
         files' = [files EXCEPT ![n].size = @ + Len(r.data)],
         segs' = Append(segs, Segment(r, logEnd)),
         logEnd' = logEnd + RecordSize(r),
         disk' = disk, nextId' = nextId
  PROVE  /\ SizeInv' /\ IdsUnique' /\ SegmentsTile' /\ SegmentsHold'
         /\ DOMAIN files' \subseteq Names
         /\ \A m \in DOMAIN files' : files'[m] \in [id : 1 .. MaxId, size : 0 .. LogCells]
         /\ segs' \in Seq(Segments)
         /\ logEnd' \in 1 .. LogEnd
<1>1. /\ logEnd \in Nat /\ 1 <= logEnd /\ nextId \in Nat /\ LogCells \in Nat /\ LogEnd = LogCells + 1
      /\ \A m \in DOMAIN files : m \in Names /\ files[m] \in [id : 1 .. MaxId, size : 0 .. LogCells]
  BY LogFSAssumption DEF IInv, TypeOK, LogEnd
<1>2. /\ Len(r.data) \in Nat \ {0} /\ RecordSize(r) = 1 + Len(r.data)
      /\ r.id \in 1 .. MaxId /\ r.before \in 0 .. LogCells
  BY RecordFacts
<1>3. /\ DOMAIN files' = DOMAIN files
      /\ files'[n] = [id |-> r.id, size |-> r.before + Len(r.data)]
      /\ \A m \in DOMAIN files \ {n} : files'[m] = files[m]
      /\ \A m \in DOMAIN files : files'[m].id = files[m].id
  BY <1>1
<1>4. r.before < logEnd
  BY DEF IInv, SizeInv
<1>5. Segment(r, logEnd) \in Segments
  BY <1>1, SegmentOfRecord
<1>6. /\ segs \in Seq(Segments) /\ segs' \in Seq(Segments)
      /\ Len(segs) \in Nat /\ Len(segs') = Len(segs) + 1
      /\ \A i \in 1 .. Len(segs) : segs'[i] = segs[i]
      /\ segs'[Len(segs) + 1] = Segment(r, logEnd)
  <2>1. segs \in Seq(Segments)
    BY DEF IInv, TypeOK
  <2> QED BY <1>5, <2>1
<1> DEFINE k == Len(segs) + 1
<1>7. /\ segs'[k].id = r.id /\ segs'[k].off = r.before
      /\ segs'[k].size = Len(r.data) /\ segs'[k].at = logEnd + 1
  BY <1>6 DEF Segment
<1>8. SizeInv'
  <2>1. ASSUME NEW m \in DOMAIN files PROVE files'[m].size < logEnd'
    <3>1. files[m].size < logEnd /\ files[m].size \in Int
      BY <1>1 DEF IInv, SizeInv
    <3>2. CASE m = n
      BY <3>2, <1>1, <1>2, <1>3, <1>4
    <3>3. CASE m # n
      BY <3>1, <3>3, <1>1, <1>2, <1>3
    <3> QED BY <3>2, <3>3
  <2> QED BY <1>3, <2>1 DEF SizeInv
<1>9. IdsUnique'
  BY <1>3 DEF IInv, IdsUnique
<1>10. SegmentsTile'
  <2>1. ASSUME NEW i \in 1 .. Len(segs') PROVE segs'[i].at + segs'[i].size <= logEnd'
    <3>1. CASE i = k
      BY <3>1, <1>1, <1>2, <1>7
    <3>2. CASE i # k
      <4>1. i \in 1 .. Len(segs) /\ segs'[i] = segs[i]
        BY <3>2, <1>6
      <4>2. segs[i].at + segs[i].size <= logEnd
        BY <4>1 DEF IInv, SegmentsTile
      <4>3. segs[i].at \in Int /\ segs[i].size \in Int
        BY <4>1, SegmentType, LogFSAssumption DEF IInv
      <4>4. logEnd \in Int /\ RecordSize(r) \in Nat
        BY <1>1, RecordFacts
      <4>5. segs[i].at + segs[i].size <= logEnd + RecordSize(r)
        BY ONLY <4>2, <4>3, <4>4, SumBelow
      <4> QED BY <4>1, <4>5
    <3> QED BY <3>1, <3>2
  <2>2. ASSUME NEW i \in 1 .. Len(segs') PROVE \E m \in DOMAIN files' : files'[m].id = segs'[i].id
    <3>1. CASE i = k
      BY <3>1, <1>3, <1>7
    <3>2. CASE i # k
      <4>1. i \in 1 .. Len(segs) /\ segs'[i] = segs[i]
        BY <3>2, <1>6
      <4> QED BY <4>1, <1>3 DEF IInv, SegmentsTile
    <3> QED BY <3>1, <3>2
  <2>3. ASSUME NEW m \in DOMAIN files
        PROVE  LET S == SegsOf(files[m].id)'
               IN  /\ \A i \in S : \/ segs'[i].off = 0
                                  \/ \E j \in S : j < i /\ segs'[j].off + segs'[j].size = segs'[i].off
                   /\ \A i, j \in S : i < j => segs'[i].off + segs'[i].size <= segs'[j].off
                   /\ \A i \in S : segs'[i].off + segs'[i].size <= files'[m].size
                   /\ \/ files'[m].size = 0
                      \/ \E i \in S : segs'[i].off + segs'[i].size = files'[m].size
    <3> DEFINE S == SegsOf(files[m].id)
               T == SegsOf(files[m].id)'
    <3>1. /\ \A i \in S : \/ segs[i].off = 0
                          \/ \E j \in S : j < i /\ segs[j].off + segs[j].size = segs[i].off
          /\ \A i, j \in S : i < j => segs[i].off + segs[i].size <= segs[j].off
          /\ \A i \in S : segs[i].off + segs[i].size <= files[m].size
          /\ \/ files[m].size = 0
             \/ \E i \in S : segs[i].off + segs[i].size = files[m].size
      BY DEF IInv, SegmentsTile
    <3>2. \A i \in S : i \in 1 .. Len(segs) /\ segs'[i] = segs[i]
      BY <1>6 DEF SegsOf
    <3>3. CASE m # n
      <4>1. files[m].id # r.id
        BY <3>3 DEF IInv, IdsUnique
      <4>2. T = S
        BY <4>1, <1>3, <1>6, <1>7 DEF SegsOf
      <4>3. files'[m] = files[m]
        BY <3>3, <1>3
      <4> HIDE DEF S, T
      <4>4. /\ \A i \in T : \/ segs'[i].off = 0
                            \/ \E j \in T : j < i /\ segs'[j].off + segs'[j].size = segs'[i].off
            /\ \A i, j \in T : i < j => segs'[i].off + segs'[i].size <= segs'[j].off
            /\ \A i \in T : segs'[i].off + segs'[i].size <= files'[m].size
            /\ \/ files'[m].size = 0
               \/ \E i \in T : segs'[i].off + segs'[i].size = files'[m].size
        <5>1. \A i \in T : segs'[i] = segs[i]
          BY <3>2, <4>2
        <5>2. /\ \A i \in T : \/ segs[i].off = 0
                              \/ \E j \in T : j < i /\ segs[j].off + segs[j].size = segs[i].off
              /\ \A i, j \in T : i < j => segs[i].off + segs[i].size <= segs[j].off
              /\ \A i \in T : segs[i].off + segs[i].size <= files'[m].size
              /\ \/ files'[m].size = 0
                 \/ \E i \in T : segs[i].off + segs[i].size = files'[m].size
          BY ONLY <3>1, <4>2, <4>3
        <5> QED BY ONLY <5>1, <5>2
      <4> QED BY <4>4 DEF T
    <3>4. CASE m = n
      <4>1. T = S \cup {k}
        BY <3>4, <1>3, <1>6, <1>7 DEF SegsOf
      <4>2. files[m].size = r.before /\ files'[m].size = r.before + Len(r.data)
        BY <3>4, <1>3
      <4>3. \A i \in S : i < k /\ segs[i].off \in Nat /\ segs[i].size \in Nat
        BY <3>2, <1>6, SegmentType, LogFSAssumption DEF IInv
      <4>4. r.before \in Nat
        BY <1>2, <1>1
      <4> HIDE DEF S, T, k
      <4>5. ASSUME NEW i \in T
            PROVE  \/ segs'[i].off = 0
                   \/ \E j \in T : j < i /\ segs'[j].off + segs'[j].size = segs'[i].off
        <5>1. CASE i \in S
          <6>1. CASE segs[i].off = 0
            BY <5>1, <6>1, <3>2
          <6>2. CASE \E j \in S : j < i /\ segs[j].off + segs[j].size = segs[i].off
            BY <5>1, <6>2, <3>2, <4>1
          <6> QED BY <5>1, <6>1, <6>2, <3>1
        <5>2. CASE i = k
          <6>1. CASE files[m].size = 0
            BY <5>2, <6>1, <4>2, <1>7
          <6>2. CASE \E j \in S : segs[j].off + segs[j].size = files[m].size
            BY <5>2, <6>2, <3>2, <4>1, <4>2, <4>3, <1>7
          <6> QED BY <6>1, <6>2, <3>1
        <5> QED BY <5>1, <5>2, <4>1
      <4>6. ASSUME NEW i \in T, NEW j \in T, i < j
            PROVE  segs'[i].off + segs'[i].size <= segs'[j].off
        <5>1. k \in Nat
          BY <1>6 DEF k
        <5>2. \A l \in S : l \in Nat
          BY <3>2, <1>6
        <5>3. i \in S
          BY <4>6, <4>1, <4>3, <5>1, <5>2
        <5>4. CASE j \in S
          BY <5>3, <5>4, <4>6, <3>1, <3>2
        <5>5. CASE j = k
          BY <5>3, <5>5, <3>1, <3>2, <4>2, <1>7
        <5> QED BY <5>4, <5>5, <4>1
      <4>7. ASSUME NEW i \in T
            PROVE  segs'[i].off + segs'[i].size <= files'[m].size
        <5>1. CASE i \in S
          BY <5>1, <3>1, <3>2, <4>2, <4>3, <4>4, <1>2
        <5>2. CASE i = k
          BY <5>2, <4>2, <4>4, <1>2, <1>7
        <5> QED BY <5>1, <5>2, <4>1
      <4>8. \E i \in T : segs'[i].off + segs'[i].size = files'[m].size
        BY <4>1, <4>2, <1>7
      <4> QED BY <4>5, <4>6, <4>7, <4>8 DEF T
    <3> QED BY <3>3, <3>4
  <2> QED BY <2>1, <2>2, <2>3, <1>3 DEF SegmentsTile
<1>11. SegmentsHold'
  <2>1. ASSUME NEW i \in 1 .. Len(segs')
        PROVE  \E q \in Records : /\ HasRecord(disk, segs'[i].at - 1, q)
                                  /\ segs'[i] = Segment(q, segs'[i].at - 1)
    <3>1. CASE i = k
      <4>1. segs'[i].at - 1 = logEnd
        BY <3>1, <1>1, <1>7
      <4> QED BY <3>1, <4>1, <1>6
    <3>2. CASE i # k
      <4>1. i \in 1 .. Len(segs) /\ segs'[i] = segs[i]
        BY <3>2, <1>6
      <4> QED BY <4>1 DEF IInv, SegmentsHold
    <3> QED BY <3>1, <3>2
  <2> QED BY <2>1 DEF SegmentsHold
<1>12. \A m \in DOMAIN files' : files'[m] \in [id : 1 .. MaxId, size : 0 .. LogCells]
  <2>1. r.before + Len(r.data) \in 0 .. LogCells
    BY <1>1, <1>2, <1>4
  <2> QED BY <2>1, <1>1, <1>2, <1>3
<1>13. DOMAIN files' \subseteq Names
  BY <1>1, <1>3
<1>14. logEnd' \in 1 .. LogEnd
  BY <1>1, <1>2
<1> QED BY <1>6, <1>8, <1>9, <1>10, <1>11, <1>12, <1>13, <1>14

----------------------------------------------------------------------------
(* The invariant is inductive *)

\* An empty log satisfies the invariant.
LEMMA InitInv == Init => IInv
<1> SUFFICES ASSUME Init PROVE IInv
  OBVIOUS
<1>1. files = << >> /\ segs = << >> /\ nextId = 1 /\ logEnd = 1 /\ op = Idle
  BY DEF Init, Cleared
<1>2. TypeOK
  <2>1. 1 \in 1 .. LogEnd /\ 1 \in 1 .. MaxId + 1
    BY LogFSAssumption DEF LogEnd
  <2>2. DOMAIN files = {} /\ segs \in Seq(Segments)
    BY <1>1
  <2>3. disk \in [1 .. LogCells -> {Zero} \cup [rec : Records, part : 1 .. LogCells]]
    BY DEF Init
  <2>4. damaged \in BOOLEAN /\ mode = "down"
    BY DEF Init
  <2> QED BY <1>1, <2>1, <2>2, <2>3, <2>4 DEF TypeOK
<1>3. OpInv
  BY <1>1 DEF OpInv
<1>4. SizeInv /\ IdsUnique /\ SegmentsTile /\ SegmentsHold
  BY <1>1 DEF SizeInv, IdsUnique, SegmentsTile, SegmentsHold
<1> QED BY <1>2, <1>3, <1>4 DEF IInv

\* The memory is empty, when the machine stops and when a mount begins.
LEMMA ClearedStep ==
  ASSUME IInv, files' = << >>, segs' = << >>, nextId' = 1, logEnd' = 1, op' = Idle,
         disk' = disk, mode' \in {"down", "mounting"}, damaged' = damaged
  PROVE  IInv'
<1>0. << >> \in Seq(Segments) /\ DOMAIN << >> = {}
  OBVIOUS
<1>1. TypeOK'
  <2>1. 1 \in 1 .. LogEnd /\ 1 \in 1 .. MaxId + 1
    BY LogFSAssumption DEF LogEnd
  <2>2. DOMAIN files' = {} /\ segs' \in Seq(Segments)
    BY <1>0
  <2>3. damaged' \in BOOLEAN
    BY DEF IInv, TypeOK
  <2> QED BY <2>1, <2>2, <2>3 DEF IInv, TypeOK
<1>2. OpInv'
  BY DEF OpInv
<1>3. SizeInv' /\ IdsUnique' /\ SegmentsTile' /\ SegmentsHold'
  BY DEF SizeInv, IdsUnique, SegmentsTile, SegmentsHold
<1> QED BY <1>1, <1>2, <1>3 DEF IInv

\* No operation is in progress while the log is replayed.
LEMMA ReplayIdle ==
  ASSUME IInv, mode # "ready"
  PROVE  op = Idle
BY DEF IInv, OpInv

\* Every step of a mount keeps the invariant.
LEMMA MountStep == IInv /\ Mount => IInv'
<1> SUFFICES ASSUME IInv, Mount PROVE IInv'
  OBVIOUS
<1>1. CASE MountBegin
  BY <1>1, ReplayIdle, ClearedStep DEF MountBegin
<1>2. CASE ReplayCreate
  <2>1. PICK r \in RecordAt(logEnd) :
          /\ CreateAccepted(r)
          /\ files' = AddFile(r.name, [id |-> r.id, size |-> 0])
          /\ nextId' = NextIdAfter(r)
          /\ logEnd' = logEnd + RecordSize(r)
    BY <1>2 DEF ReplayCreate
  <2>2. /\ mode = "mounting" /\ disk' = disk /\ mode' = mode /\ segs' = segs /\ op' = op
        /\ damaged' = damaged
    BY <1>2 DEF ReplayCreate
  <2>3. /\ r \in Records /\ logEnd + RecordSize(r) <= LogEnd /\ RecordSize(r) \in Nat
        /\ r.id \in 1 .. MaxId /\ r.name \in Names
        /\ r.name \notin DOMAIN files /\ r.id \notin FileIds
    BY <2>1, RecordAtFacts, RecordFacts DEF IInv, CreateAccepted
  <2>4. logEnd \in Nat /\ nextId \in 1 .. MaxId + 1 /\ 1 <= logEnd
    BY LogFSAssumption DEF IInv, TypeOK, LogEnd
  <2>5. nextId' \in 1 .. MaxId + 1 /\ nextId <= nextId' /\ r.id < nextId'
    BY <2>1, <2>3, <2>4, LogFSAssumption DEF NextIdAfter
  <2>6. /\ SizeInv' /\ IdsUnique' /\ SegmentsTile' /\ SegmentsHold'
        /\ DOMAIN files' \subseteq Names
        /\ \A m \in DOMAIN files' : files'[m] \in [id : 1 .. MaxId, size : 0 .. LogCells]
    BY <2>1, <2>2, <2>3, <2>4, <2>5, FileEntered, LogFSAssumption
  <2>7. op' = Idle
    BY <2>2, ReplayIdle
  <2>8. logEnd' \in 1 .. LogEnd
    BY <2>1, <2>3, <2>4, LogFSAssumption DEF LogEnd
  <2>9. TypeOK'
    BY <2>2, <2>5, <2>6, <2>7, <2>8 DEF IInv, TypeOK
  <2> QED BY <2>6, <2>7, <2>9 DEF IInv, OpInv
<1>3. CASE ReplayAppend
  <2>1. PICK r \in RecordAt(logEnd) :
          /\ AppendAccepted(r)
          /\ files' = [files EXCEPT ![NameOf(r.id)].size = @ + Len(r.data)]
          /\ segs' = Append(segs, Segment(r, logEnd))
          /\ logEnd' = logEnd + RecordSize(r)
    BY <1>3 DEF ReplayAppend
  <2>2. /\ mode = "mounting" /\ disk' = disk /\ mode' = mode /\ nextId' = nextId /\ op' = op
        /\ damaged' = damaged
    BY <1>3 DEF ReplayAppend
  <2>3. r \in Records /\ HasRecord(disk, logEnd, r) /\ logEnd + RecordSize(r) <= LogEnd
    BY <2>1, RecordAtFacts DEF IInv
  <2>4. /\ r.type = "append" /\ NameOf(r.id) \in DOMAIN files
        /\ files[NameOf(r.id)].id = r.id /\ files[NameOf(r.id)].size = r.before
    BY <2>1, NameOfFacts DEF AppendAccepted
  <2>5. /\ SizeInv' /\ IdsUnique' /\ SegmentsTile' /\ SegmentsHold'
        /\ DOMAIN files' \subseteq Names
        /\ \A m \in DOMAIN files' : files'[m] \in [id : 1 .. MaxId, size : 0 .. LogCells]
        /\ segs' \in Seq(Segments)
        /\ logEnd' \in 1 .. LogEnd
    BY <2>1, <2>2, <2>3, <2>4, SegmentEntered
  <2>6. op' = Idle
    BY <2>2, ReplayIdle
  <2>7. TypeOK'
    BY <2>2, <2>5, <2>6 DEF IInv, TypeOK
  <2> QED BY <2>5, <2>6, <2>7 DEF IInv, OpInv
<1>4. CASE MountDone \/ MountReadError
  <2>1. /\ mode = "mounting" /\ mode' = "ready" /\ disk' = disk /\ op' = op
        /\ files' = files /\ segs' = segs /\ nextId' = nextId /\ logEnd' = logEnd
    BY <1>4 DEF MountDone, MountReadError, memory
  <2>2. op' = Idle
    BY <2>1, ReplayIdle
  <2>3. damaged' \in BOOLEAN
    BY <1>4 DEF MountDone, MountReadError, IInv, TypeOK
  <2>4. TypeOK'
    BY <2>1, <2>3 DEF IInv, TypeOK
  <2>5. logEnd \in Nat
    BY LogFSAssumption DEF IInv, TypeOK, LogEnd
  <2>6. SizeInv' /\ IdsUnique' /\ SegmentsTile' /\ SegmentsHold'
    BY <2>1, <2>5, TablesKept
  <2> QED BY <2>2, <2>4, <2>6 DEF IInv, OpInv
<1> QED BY <1>1, <1>2, <1>3, <1>4 DEF Mount

\* The start of a create keeps the invariant, with room in the log or without.
LEMMA CreateStep ==
  ASSUME IInv, NEW n \in Names, Create(n) \/ CreateNoSpace(n)
  PROVE  IInv'
<1>0. /\ logEnd \in Nat /\ 1 <= logEnd /\ nextId \in Nat /\ 1 <= nextId /\ LogCells \in Nat
      /\ LogEnd = LogCells + 1
  BY LogFSAssumption DEF IInv, TypeOK, LogEnd
<1>1. CASE Create(n)
  <2>1. /\ mode = "ready" /\ op = Idle /\ n \notin DOMAIN files /\ nextId <= MaxId
        /\ Fits(CreateRec(nextId, n))
        /\ files' = AddFile(n, [id |-> nextId, size |-> 0])
        /\ nextId' = nextId + 1
        /\ op' = Writing(CreateRec(nextId, n), n)
        /\ disk' = disk /\ mode' = mode /\ segs' = segs /\ logEnd' = logEnd /\ damaged' = damaged
    BY <1>1 DEF Create
  <2>2. nextId \in 1 .. MaxId /\ nextId' \in 1 .. MaxId + 1
    BY <1>0, <2>1, LogFSAssumption
  <2>3. nextId \notin FileIds
    <3>1. \A m \in DOMAIN files : files[m].id < nextId
      BY DEF IInv, IdsUnique
    <3> QED BY <3>1, <1>0 DEF FileIds
  <2>4. /\ SizeInv' /\ IdsUnique' /\ SegmentsTile' /\ SegmentsHold'
        /\ DOMAIN files' \subseteq Names
        /\ \A m \in DOMAIN files' : files'[m] \in [id : 1 .. MaxId, size : 0 .. LogCells]
    BY <1>0, <2>1, <2>2, <2>3, FileEntered, LogFSAssumption
  <2> DEFINE r == CreateRec(nextId, n)
  <2>5. r \in Records /\ r.id = nextId /\ r.before = 0
    BY <2>2 DEF CreateRec, Records
  <2>6. logEnd + RecordSize(r) <= LogEnd /\ RecordSize(r) \in Nat /\ RecordSize(r) >= 2
    BY <2>1, <2>5, RecordFacts DEF Fits
  <2> HIDE DEF r
  <2>7. op' = [rec |-> r, at |-> logEnd, done |-> 0, name |-> n]
    BY <2>1 DEF Writing, r
  <2>8. op' \in [rec : Records, at : 1 .. LogCells, done : 0 .. LogCells, name : Names]
    BY <2>5, <2>6, <2>7, <1>0
  <2>9. TypeOK'
    BY <2>1, <2>2, <2>4, <2>8 DEF IInv, TypeOK
  <2>10. n \in DOMAIN files' /\ files'[n] = [id |-> nextId, size |-> 0]
    BY <2>1 DEF AddFile
  <2>11. OpInv'
    BY <2>1, <2>5, <2>6, <2>7, <2>10 DEF OpInv, LogEnd
  <2> QED BY <2>4, <2>9, <2>11 DEF IInv
<1>2. CASE CreateNoSpace(n)
  <2>1. /\ op = Idle /\ nextId <= MaxId /\ nextId' = nextId + 1
        /\ disk' = disk /\ mode' = mode /\ files' = files /\ segs' = segs /\ logEnd' = logEnd
        /\ op' = op /\ damaged' = damaged
    BY <1>2 DEF CreateNoSpace
  <2>2. nextId' \in 1 .. MaxId + 1
    BY <1>0, <2>1, LogFSAssumption
  <2>3. TypeOK'
    BY <2>1, <2>2 DEF IInv, TypeOK
  <2>4. IdsUnique'
    <3>1. ASSUME NEW m \in DOMAIN files PROVE files[m].id < nextId'
      <4>1. files[m].id < nextId /\ files[m].id \in Int
        BY LogFSAssumption DEF IInv, IdsUnique, TypeOK
      <4> QED BY <4>1, <2>1, <1>0
    <3> QED BY <2>1, <3>1 DEF IInv, IdsUnique
  <2>5. SizeInv' /\ SegmentsTile' /\ SegmentsHold'
    BY <2>1 DEF IInv, SizeInv, SegmentsTile, SegmentsHold, SegsOf
  <2> QED BY <2>1, <2>3, <2>4, <2>5 DEF IInv, OpInv
<1> QED BY <1>1, <1>2

\* The start of an append keeps the invariant.
LEMMA AppendStep ==
  ASSUME IInv, NEW n \in Names, NEW d \in Payloads, AppendFile(n, d)
  PROVE  IInv'
<1>0. /\ logEnd \in Nat /\ 1 <= logEnd /\ nextId \in Nat /\ 1 <= nextId /\ LogCells \in Nat
      /\ LogEnd = LogCells + 1
  BY LogFSAssumption DEF IInv, TypeOK, LogEnd
<1> DEFINE r == AppendRec(files[n].id, files[n].size, d)
<1>1. /\ mode = "ready" /\ op = Idle /\ n \in DOMAIN files
      /\ Fits(r) /\ op' = Writing(r, n)
      /\ disk' = disk /\ mode' = mode /\ files' = files /\ segs' = segs
      /\ nextId' = nextId /\ logEnd' = logEnd /\ damaged' = damaged
  BY DEF AppendFile, memory
<1>2. files[n] \in [id : 1 .. MaxId, size : 0 .. LogCells]
  BY <1>1 DEF IInv, TypeOK
<1>3. r \in Records /\ r.id = files[n].id /\ r.before = files[n].size
  BY <1>2 DEF AppendRec, Records
<1>4. logEnd + RecordSize(r) <= LogEnd /\ RecordSize(r) \in Nat /\ RecordSize(r) >= 2
  BY <1>1, <1>3, RecordFacts DEF Fits
<1>5. op' = [rec |-> r, at |-> logEnd, done |-> 0, name |-> n]
  BY <1>1 DEF Writing
<1> HIDE DEF r
<1>6. op' \in [rec : Records, at : 1 .. LogCells, done : 0 .. LogCells, name : Names]
  BY <1>3, <1>4, <1>5, <1>0
<1>7. TypeOK'
  BY <1>1, <1>6 DEF IInv, TypeOK
<1>8. OpInv'
  BY <1>1, <1>3, <1>4, <1>5 DEF OpInv, LogEnd
<1>9. SizeInv' /\ IdsUnique' /\ SegmentsTile' /\ SegmentsHold'
  BY <1>1, <1>0, TablesKept
<1> QED BY <1>7, <1>8, <1>9 DEF IInv

\* Writing the blocks of a record, finishing it or failing keeps the invariant.
LEMMA WriteStep == IInv /\ Write => IInv'
<1> SUFFICES ASSUME IInv, Write PROVE IInv'
  OBVIOUS
<1>0. /\ logEnd \in Nat /\ 1 <= logEnd /\ LogCells \in Nat /\ LogEnd = LogCells + 1 /\ logEnd <= LogEnd
  BY LogFSAssumption DEF IInv, TypeOK, LogEnd
<1>a. /\ op # Idle
      /\ op \in [rec : Records, at : 1 .. LogCells, done : 0 .. LogCells, name : Names]
      /\ mode = "ready" /\ op.at = logEnd /\ op.at + RecordSize(op.rec) <= LogEnd
      /\ op.name \in DOMAIN files /\ op.rec.id = files[op.name].id
      /\ op.rec.before = files[op.name].size
      /\ \A i \in 1 .. op.done : disk[op.at + i - 1] = [rec |-> op.rec, part |-> i]
  <2>1. op # Idle
    BY DEF Write, WriteBlock, WriteFails, FinishCreate, FinishAppend, AppendNoSegment,
           Unfinished, Complete
  <2> QED BY <2>1 DEF IInv, TypeOK, OpInv
<1>b. op.rec \in Records /\ RecordSize(op.rec) \in Nat /\ RecordSize(op.rec) >= 2
  BY <1>a, RecordFacts
<1>1. CASE WriteBlock
  <2>1. /\ Unfinished /\ disk' = Written(Chunk) /\ op' = [op EXCEPT !.done = @ + Chunk]
        /\ mode' = mode /\ files' = files /\ segs' = segs /\ nextId' = nextId
        /\ logEnd' = logEnd /\ damaged' = damaged
    BY <1>1 DEF WriteBlock, memory
  <2>2. Chunk \in Nat /\ 1 <= Chunk /\ op.done + Chunk <= RecordSize(op.rec) /\ op.done \in Nat
    BY <2>1, ChunkFacts DEF IInv
  <2>3. /\ disk' \in [1 .. LogCells -> {Zero} \cup [rec : Records, part : 1 .. LogCells]]
        /\ \A c \in 1 .. LogCells : c < logEnd => disk'[c] = disk[c]
    BY <2>1, WrittenFacts DEF IInv
  <2>4. op' = [rec |-> op.rec, at |-> op.at, done |-> op.done + Chunk, name |-> op.name]
    BY <2>1, <1>a
  <2>5. op' \in [rec : Records, at : 1 .. LogCells, done : 0 .. LogCells, name : Names]
    BY <2>2, <2>4, <1>0, <1>a, <1>b
  <2>6. TypeOK'
    BY <2>1, <2>3, <2>5 DEF IInv, TypeOK
  <2>7. ASSUME NEW i \in 1 .. op.done + Chunk
        PROVE  disk'[op.at + i - 1] = [rec |-> op.rec, part |-> i]
    <3>1. op.at + i - 1 \in 1 .. LogCells
      BY <2>2, <1>0, <1>a, <1>b
    <3>2. CASE i <= op.done
      <4>1. disk'[op.at + i - 1] = disk[op.at + i - 1]
        BY <2>1, <2>2, <3>1, <3>2, <1>0, <1>a DEF Written
      <4> QED BY <2>2, <3>2, <4>1, <1>a
    <3>3. CASE i > op.done
      <4>1. /\ op.at + i - 1 >= op.at + op.done
            /\ op.at + i - 1 < op.at + op.done + Chunk
            /\ (op.at + i - 1) - op.at + 1 = i
        BY <2>2, <3>3, <1>0, <1>a
      <4> QED BY <2>1, <3>1, <4>1 DEF Written
    <3> QED BY <2>2, <3>2, <3>3
  <2>8. OpInv'
    BY <2>1, <2>2, <2>4, <2>7, <1>a DEF OpInv, LogEnd
  <2>9. SizeInv' /\ IdsUnique' /\ SegmentsTile' /\ SegmentsHold'
    BY <2>1, <2>3, <1>0, TablesKept
  <2> QED BY <2>6, <2>8, <2>9 DEF IInv
<1>2. CASE WriteFails
  <2>1. /\ Unfinished /\ disk' \in {disk, Written(Chunk)} /\ files' = WithoutFailed /\ op' = Idle
        /\ mode' = mode /\ segs' = segs /\ nextId' = nextId
        /\ logEnd' = logEnd /\ damaged' = damaged
    BY <1>2 DEF WriteFails
  <2>2. /\ disk' \in [1 .. LogCells -> {Zero} \cup [rec : Records, part : 1 .. LogCells]]
        /\ \A c \in 1 .. LogCells : c < logEnd => disk'[c] = disk[c]
    <3>1. CASE disk' = disk
      BY <3>1 DEF IInv, TypeOK
    <3>2. CASE disk' = Written(Chunk)
      BY <2>1, <3>2, WrittenFacts DEF IInv
    <3> QED BY <2>1, <3>1, <3>2
  <2>3. /\ DOMAIN files' \subseteq DOMAIN files
        /\ \A m \in DOMAIN files' : files'[m] = files[m]
    BY <2>1 DEF WithoutFailed
  <2>4. TypeOK'
    BY <2>1, <2>2, <2>3 DEF IInv, TypeOK
  <2>5. SizeInv' /\ IdsUnique'
    BY <2>1, <2>3 DEF IInv, SizeInv, IdsUnique
  <2>6. SegmentsHold'
    <3>1. SegmentsHold' <=> \A i \in 1 .. Len(segs) : \E r \in Records :
             HasRecord(disk', segs[i].at - 1, r) /\ segs[i] = Segment(r, segs[i].at - 1)
      BY <2>1 DEF SegmentsHold
    <3>2. ASSUME NEW i \in 1 .. Len(segs)
          PROVE  \E r \in Records :
                   HasRecord(disk', segs[i].at - 1, r) /\ segs[i] = Segment(r, segs[i].at - 1)
      BY <2>2, HeldBelowEnd
    <3> QED BY <3>1, <3>2
  <2>7. SegmentsTile'
    <3>1. CASE op.rec.type # "create"
      <4>1. files' = files
        BY <2>1, <3>1 DEF WithoutFailed
      <4> QED BY <2>1, <2>2, <4>1, <1>0, TablesKept
    <3>2. CASE op.rec.type = "create"
      <4>1. DOMAIN files' = DOMAIN files \ {op.name}
        BY <2>1, <3>2 DEF WithoutFailed
      <4>2. files[op.name].size = 0
        BY <3>2, <1>a, <1>b, RecordFacts
      <4>3. SegsOf(files[op.name].id) = {}
        <5>1. \A i \in SegsOf(files[op.name].id) :
                 i \in 1 .. Len(segs) /\ segs[i].off + segs[i].size <= 0
          BY <1>a, <4>2 DEF IInv, SegmentsTile, SegsOf
        <5>2. \A i \in 1 .. Len(segs) : segs[i].off \in Nat /\ segs[i].size \in Nat \ {0}
          BY SegmentType, LogFSAssumption DEF IInv
        <5> QED BY <5>1, <5>2
      <4>4. ASSUME NEW i \in 1 .. Len(segs) PROVE \E m \in DOMAIN files' : files'[m].id = segs[i].id
        <5>1. PICK m \in DOMAIN files : files[m].id = segs[i].id
          BY DEF IInv, SegmentsTile
        <5>2. m # op.name
          BY <5>1, <4>3 DEF SegsOf
        <5> QED BY <5>1, <5>2, <4>1, <2>3
      <4> QED BY <2>1, <2>3, <4>4 DEF IInv, SegmentsTile, SegsOf
    <3> QED BY <3>1, <3>2
  <2> QED BY <2>1, <2>4, <2>5, <2>6, <2>7 DEF IInv, OpInv
<1>3. CASE FinishCreate \/ AppendNoSegment
  <2>1. /\ disk' = disk /\ mode' = mode /\ files' = files /\ segs' = segs /\ nextId' = nextId
        /\ logEnd' = logEnd + RecordSize(op.rec) /\ op' = Idle
    BY <1>3 DEF FinishCreate, AppendNoSegment
  <2>2. damaged' \in BOOLEAN
    BY <1>3 DEF FinishCreate, AppendNoSegment, IInv, TypeOK
  <2>3. logEnd' \in 1 .. LogEnd /\ logEnd <= logEnd'
    BY <2>1, <1>0, <1>a, <1>b
  <2>4. TypeOK'
    BY <2>1, <2>2, <2>3 DEF IInv, TypeOK
  <2>5. SizeInv' /\ IdsUnique' /\ SegmentsTile' /\ SegmentsHold'
    BY <2>1, <2>3, <1>0, TablesKept
  <2> QED BY <2>1, <2>4, <2>5 DEF IInv, OpInv
<1>4. CASE FinishAppend
  <2>1. /\ Complete /\ op.rec.type = "append" /\ op' = Idle
        /\ logEnd' = logEnd + RecordSize(op.rec)
        /\ segs' = Append(segs, Segment(op.rec, logEnd))
        /\ files' = [files EXCEPT ![op.name].size = @ + Len(op.rec.data)]
        /\ disk' = disk /\ mode' = mode /\ nextId' = nextId /\ damaged' = damaged
    BY <1>4, <1>a DEF FinishAppend
  <2>2. HasRecord(disk, logEnd, op.rec)
    BY <2>1, <1>a DEF Complete, HasRecord
  <2>3. /\ SizeInv' /\ IdsUnique' /\ SegmentsTile' /\ SegmentsHold'
        /\ DOMAIN files' \subseteq Names
        /\ \A m \in DOMAIN files' : files'[m] \in [id : 1 .. MaxId, size : 0 .. LogCells]
        /\ segs' \in Seq(Segments)
        /\ logEnd' \in 1 .. LogEnd
    BY <2>1, <2>2, <1>a, <1>b, SegmentEntered
  <2>4. TypeOK'
    BY <2>1, <2>3 DEF IInv, TypeOK
  <2> QED BY <2>1, <2>3, <2>4 DEF IInv, OpInv
<1> QED BY <1>1, <1>2, <1>3, <1>4 DEF Write

\* Every step of the specification keeps the invariant.
LEMMA StepInv == IInv /\ [Next]_vars => IInv'
<1> SUFFICES ASSUME IInv, [Next]_vars PROVE IInv'
  OBVIOUS
<1>1. CASE Mount
  BY <1>1, MountStep
<1>2. ASSUME NEW n \in Names, Create(n) \/ CreateNoSpace(n) PROVE IInv'
  BY <1>2, CreateStep
<1>3. ASSUME NEW n \in Names, NEW d \in Payloads, AppendFile(n, d) PROVE IInv'
  BY <1>3, AppendStep
<1>4. CASE Write
  BY <1>4, WriteStep
<1>5. CASE PowerOff
  BY <1>5, ClearedStep DEF PowerOff
<1>6. CASE UNCHANGED vars
  BY <1>6 DEF vars, IInv, TypeOK, OpInv, SizeInv, IdsUnique, SegmentsTile, SegmentsHold, SegsOf
<1> QED BY <1>1, <1>2, <1>3, <1>4, <1>5, <1>6 DEF Next

\* The invariant of the log file system holds in every reachable state.
THEOREM LogInvariant == Spec => []IInv
BY InitInv, StepInv, PTL DEF Spec

\* The tables of fs/logfs.c stay within their types for every size of the log.
THEOREM LogTypes == Spec => []TypeOK
<1>1. IInv => TypeOK
  BY DEF IInv
<1> QED BY <1>1, LogInvariant, PTL

\* File ids are never given twice, whatever fails and whatever is recovered.
THEOREM IdsNeverShared == Spec => []IdsUnique
<1>1. IInv => IdsUnique
  BY DEF IInv
<1> QED BY <1>1, LogInvariant, PTL

\* The segments of a file tile it in order, below the end of the log.
THEOREM FilesAreTiled == Spec => []SegmentsTile
<1>1. IInv => SegmentsTile
  BY DEF IInv
<1> QED BY <1>1, LogInvariant, PTL

\* Every entry of the segment table points at the data of its append record.
THEOREM SegmentsPointAtData == Spec => []SegmentsHold
<1>1. IInv => SegmentsHold
  BY DEF IInv
<1> QED BY <1>1, LogInvariant, PTL

\* While mounted no step writes below the end of the log, and the end never
\* moves back (logfs_append_record, logfs_write_bytes).
THEOREM LogNeverRewritten == Spec => LogStable
<1> DEFINE Stable == mode = "ready" /\ mode' = "ready"
                       => logEnd' >= logEnd /\ \A c \in 1 .. logEnd - 1 : disk'[c] = disk[c]
<1>1. ASSUME IInv, [Next]_vars PROVE [Stable]_vars
  <2> SUFFICES ASSUME Next, mode = "ready", mode' = "ready"
               PROVE  logEnd' >= logEnd /\ \A c \in 1 .. logEnd - 1 : disk'[c] = disk[c]
    BY <1>1
  <2>1. /\ logEnd \in Nat /\ 1 <= logEnd /\ LogCells \in Nat /\ logEnd <= LogCells + 1
    BY <1>1, LogFSAssumption DEF IInv, TypeOK, LogEnd
  <2>2. CASE disk' = disk /\ logEnd' = logEnd
    BY <2>1, <2>2
  <2>3. CASE WriteBlock \/ WriteFails
    <3>1. Unfinished /\ disk' \in {disk, Written(Chunk)} /\ logEnd' = logEnd
      BY <2>3 DEF WriteBlock, WriteFails, memory
    <3>2. \A c \in 1 .. LogCells : c < logEnd => Written(Chunk)[c] = disk[c]
      BY <3>1, <1>1, WrittenFacts DEF IInv
    <3> QED BY <2>1, <3>1, <3>2
  <2>4. CASE FinishCreate \/ FinishAppend \/ AppendNoSegment
    <3>1. disk' = disk /\ logEnd' = logEnd + RecordSize(op.rec) /\ op # Idle
      BY <2>4 DEF FinishCreate, FinishAppend, AppendNoSegment, Complete
    <3>2. op.rec \in Records
      BY <1>1, <3>1 DEF IInv, TypeOK
    <3>3. RecordSize(op.rec) \in Nat
      BY <3>2, RecordFacts
    <3> QED BY <2>1, <3>1, <3>3
  <2>5. \/ disk' = disk /\ logEnd' = logEnd
        \/ WriteBlock \/ WriteFails \/ FinishCreate \/ FinishAppend \/ AppendNoSegment
    BY DEF Next, Mount, Write, MountBegin, ReplayCreate, ReplayAppend, MountDone, MountReadError,
           Create, CreateNoSpace, AppendFile, PowerOff, memory
  <2> QED BY <2>2, <2>3, <2>4, <2>5
<1>2. Spec => [][Stable]_vars
  BY <1>1, LogInvariant, PTL DEF Spec
<1> QED BY <1>2 DEF LogStable

----------------------------------------------------------------------------
(* Induction over the entries of a table *)

\* A set of natural numbers that is not empty has a least element.
LEMMA LeastElement ==
  ASSUME NEW S \in SUBSET Nat, S # {}
  PROVE  \E i \in S : \A j \in S : i =< j
<1> DEFINE Less == OpToRel(<, Nat)
<1>1. IsWellFoundedOn(Less, Nat)
  BY NatLessThanWellFounded
<1>2. \A i, j \in Nat : <<j, i>> \in Less <=> j < i
  BY DEF OpToRel
<1> HIDE DEF Less
<1>3. PICK i \in S : \A j \in S : ~ (<<j, i>> \in Less)
  BY <1>1, WFMin
<1>4. ASSUME NEW j \in S  PROVE i =< j
  <2>1. i \in Nat /\ j \in Nat
    OBVIOUS
  <2>2. ~ (j < i)
    BY <1>2, <1>3, <2>1
  <2> QED
    BY <2>1, <2>2
<1> QED
  BY <1>3, <1>4

\* A set of numbers that has 0 and, with each number below n, the next one has
\* all of them up to n: induction, in the form the provers can use.
LEMMA Upto ==
  ASSUME NEW n \in Nat, NEW S, 0 \in S,
         \A i \in 1 .. n : i - 1 \in S => i \in S
  PROVE  \A i \in 0 .. n : i \in S
<1> SUFFICES ASSUME NEW k \in 0 .. n, k \notin S PROVE FALSE
  OBVIOUS
<1> DEFINE B == {i \in 0 .. n : i \notin S}
<1>1. B \in SUBSET Nat /\ B # {}
  OBVIOUS
<1>2. PICK i \in B : \A j \in B : i =< j
  <2> HIDE DEF B
  <2> QED
    BY <1>1, LeastElement
<1>3. i \in 0 .. n /\ i \notin S /\ i # 0
  OBVIOUS
<1>4. i \in 1 .. n /\ i - 1 \in 0 .. n /\ ~(i =< i - 1)
  BY <1>3
<1>5. i - 1 \in S
  BY <1>2, <1>4
<1> QED
  BY <1>3, <1>4, <1>5

\* g starts at b and takes its next value from F.
Iterates(g, n, b, F) == g[0] = b /\ \A i \in 1 .. n : g[i] = F[<<i, g[i - 1]>>]

\* A recursive function over 0 .. n exists.
LEMMA Iterated ==
  ASSUME NEW n \in Nat, NEW V, NEW b \in V, NEW F \in [(1 .. n) \X V -> V]
  PROVE  \E g \in [0 .. n -> V] : Iterates(g, n, b, F)
<1> DEFINE Is(g, m) == g[0] = b /\ \A i \in 1 .. m : g[i] = F[<<i, g[i - 1]>>]
           S == {m \in 0 .. n : \E g \in [0 .. m -> V] : Is(g, m)}
<1>1. 0 \in S
  <2> DEFINE g == [i \in 0 .. 0 |-> b]
  <2>1. g \in [0 .. 0 -> V] /\ g[0] = b
    OBVIOUS
  <2>2. \A i \in 1 .. 0 : FALSE
    OBVIOUS
  <2> HIDE DEF g
  <2>3. 0 \in 0 .. n /\ Is(g, 0)
    BY <2>1, <2>2
  <2> QED
    BY <2>1, <2>3
<1>2. ASSUME NEW m \in 1 .. n, m - 1 \in S  PROVE m \in S
  <2>1. PICK g \in [0 .. m - 1 -> V] : Is(g, m - 1)
    BY <1>2
  <2> DEFINE h == [i \in 0 .. m |-> IF i = m THEN F[<<m, g[m - 1]>>] ELSE g[i]]
  <2>2. m \in Nat /\ m - 1 \in 0 .. m - 1 /\ m - 1 \in 0 .. m
    OBVIOUS
  <2>3. F[<<m, g[m - 1]>>] \in V
    BY <2>2
  <2>4. h \in [0 .. m -> V]
    BY <2>3
  <2>5. \A i \in 0 .. m - 1 : h[i] = g[i]
    OBVIOUS
  <2>6. h[m] = F[<<m, h[m - 1]>>]
    <3>1. h[m] = F[<<m, g[m - 1]>>] /\ h[m - 1] = g[m - 1]
      <4>1. m \in 0 .. m
        BY <2>2
      <4> QED
        BY <2>2, <2>5, <4>1
    <3> HIDE DEF h
    <3> QED
      BY <3>1
  <2>7. h[0] = b
    BY <2>1, <2>5
  <2> HIDE DEF h
  <2>8. ASSUME NEW i \in 1 .. m  PROVE h[i] = F[<<i, h[i - 1]>>]
    <3>1. CASE i = m
      BY <2>6, <3>1
    <3>2. CASE i # m
      <4>1. i \in 1 .. m - 1 /\ i \in 0 .. m - 1 /\ i - 1 \in 0 .. m - 1
        BY <3>2
      <4>2. g[i] = F[<<i, g[i - 1]>>]
        BY <2>1, <4>1
      <4> QED
        BY <2>5, <4>1, <4>2
    <3> QED
      BY <3>1, <3>2
  <2> QED
    BY <2>4, <2>7, <2>8
<1>3. n \in S
  <2>1. \A m \in 1 .. n : m - 1 \in S => m \in S
    BY <1>2
  <2> HIDE DEF S
  <2>2. \A i \in 0 .. n : i \in S
    BY <1>1, <2>1, Upto
  <2> QED
    BY <2>2
<1> QED
  BY <1>3 DEF Iterates

----------------------------------------------------------------------------
(* What a read returns *)

\* The smaller of two numbers.
LEMMA MinPair ==
  ASSUME NEW a \in Int, NEW b \in Int
  PROVE  Min({a, b}) = IF a <= b THEN a ELSE b
BY DEF Min

\* The larger of two numbers.
LEMMA MaxPair ==
  ASSUME NEW a \in Int, NEW b \in Int
  PROVE  Max({a, b}) = IF a >= b THEN a ELSE b
BY DEF Max

\* A read of the bytes a .. b-1 that goes on to c.
LEMMA JoinRead ==
  ASSUME NEW v \in Seq(Nat), NEW a \in Nat, NEW b \in Nat, NEW c \in Nat,
         a <= b, b <= c, c <= Len(v)
  PROVE  SubSeq(v, a + 1, b) \o [k \in 1 .. c - b |-> v[b + k]] = SubSeq(v, a + 1, c)
<1> DEFINE x == SubSeq(v, a + 1, b)
           y == [k \in 1 .. c - b |-> v[b + k]]
           z == SubSeq(v, a + 1, c)
<1>1. x \in Seq(Nat) /\ Len(x) = b - a /\ \A k \in 1 .. b - a : x[k] = v[a + k]
  OBVIOUS
<1>2. z \in Seq(Nat) /\ Len(z) = c - a /\ \A k \in 1 .. c - a : z[k] = v[a + k]
  OBVIOUS
<1>3. y \in Seq(Nat) /\ Len(y) = c - b /\ \A k \in 1 .. c - b : y[k] = v[b + k]
  <2>1. c - b \in Nat
    OBVIOUS
  <2>2. \A k \in 1 .. c - b : v[b + k] \in Nat
    <3>1. \A k \in 1 .. c - b : b + k \in 1 .. Len(v)
      OBVIOUS
    <3> QED
      BY <3>1
  <2>3. y \in [1 .. c - b -> Nat]
    BY <2>2
  <2> QED
    BY <2>1, <2>3
<1> HIDE DEF x, y, z
<1>4. /\ x \o y \in Seq(Nat) /\ Len(x \o y) = Len(x) + Len(y)
      /\ \A i \in 1 .. Len(x) + Len(y) :
           (x \o y)[i] = IF i <= Len(x) THEN x[i] ELSE y[i - Len(x)]
  <2>1. x \in Seq(Nat) /\ y \in Seq(Nat)
    BY <1>1, <1>3
  <2> QED
    BY <2>1, ConcatProperties
<1>5. Len(x \o y) = c - a
  BY <1>1, <1>3, <1>4
<1>6. ASSUME NEW k \in 1 .. c - a  PROVE (x \o y)[k] = z[k]
  <2>1. CASE k <= b - a
    <3>1. k \in 1 .. Len(x) + Len(y) /\ k <= Len(x) /\ k \in 1 .. b - a
      BY <1>1, <1>3, <2>1
    <3>2. (x \o y)[k] = x[k]
      BY <1>4, <3>1
    <3> QED
      BY <1>1, <1>2, <3>1, <3>2
  <2>2. CASE k > b - a
    <3> DEFINE j == k - (b - a)
    <3>1. j \in 1 .. c - b /\ k \in 1 .. Len(x) + Len(y) /\ ~(k <= Len(x)) /\ k - Len(x) = j
      BY <1>1, <1>3, <2>2
    <3>2. (x \o y)[k] = y[k - Len(x)]
      BY <1>4, <3>1
    <3>3. b + j = a + k
      OBVIOUS
    <3> HIDE DEF j
    <3> QED
      BY <1>2, <1>3, <3>1, <3>2, <3>3
  <2>3. k <= b - a \/ k > b - a
    OBVIOUS
  <2> QED
    BY <2>1, <2>2, <2>3, Zenon
<1>7. x \o y = z
  <2>1. x \o y \in Seq(Nat) /\ z \in Seq(Nat) /\ Len(x \o y) = Len(z)
    BY <1>2, <1>4, <1>5
  <2>2. \A k \in 1 .. Len(x \o y) : (x \o y)[k] = z[k]
    BY <1>5, <1>6
  <2> QED
    BY <2>1, <2>2, SeqEqual
<1> QED
  BY <1>7 DEF x, y, z

\* The bytes of a file that a read of off .. end-1 has, once the segments seen so
\* far cover the file up to cov.
Upper(off, end, cov) == IF cov <= off THEN off ELSE IF cov >= end THEN end ELSE cov

\* The segments 1 .. i of the file with the given id cover it up to cov.
Covers(id, i, cov) ==
  /\ \A j \in 1 .. i : segs[j].id = id => segs[j].off + segs[j].size <= cov
  /\ cov = 0 \/ \E j \in 1 .. i : segs[j].id = id /\ segs[j].off + segs[j].size = cov

\* The next segment of a file starts where the ones before it end.
LEMMA NextSegment ==
  ASSUME TypeOK, SegmentsTile, NEW n \in DOMAIN files, NEW i \in 1 .. Len(segs),
         segs[i].id = files[n].id, NEW cov \in Nat, Covers(files[n].id, i - 1, cov)
  PROVE  /\ segs[i].off = cov
         /\ Covers(files[n].id, i, cov + segs[i].size)
<1> DEFINE id == files[n].id
           S == SegsOf(id)
<1>1. /\ \A j \in S : \/ segs[j].off = 0
                      \/ \E l \in S : l < j /\ segs[l].off + segs[l].size = segs[j].off
      /\ \A j, l \in S : j < l => segs[j].off + segs[j].size <= segs[l].off
  BY DEF SegmentsTile
<1>2. Len(segs) \in Nat /\ i \in Nat
  BY DEF TypeOK
<1>3. \A j \in 1 .. Len(segs) : segs[j].off \in Nat /\ segs[j].size \in Nat /\ segs[j].size >= 1
  BY SegmentType, LogFSAssumption
<1>4. \A j \in 1 .. i - 1 : j \in 1 .. Len(segs) /\ j < i
  BY <1>2
<1>5. i \in S /\ \A j \in 1 .. i - 1 : segs[j].id = id => j \in S
  BY <1>4 DEF SegsOf
<1>6. segs[i].off >= cov
  <2>1. CASE cov = 0
    BY <1>3, <2>1
  <2>2. CASE cov # 0
    <3>1. PICK j \in 1 .. i - 1 : segs[j].id = id /\ segs[j].off + segs[j].size = cov
      BY <2>2 DEF Covers
    <3>2. j \in S /\ j < i
      BY <1>4, <1>5, <3>1
    <3>3. segs[j].off + segs[j].size <= segs[i].off
      BY <1>1, <1>5, <3>2
    <3> QED
      BY <1>3, <3>1, <3>3
  <2> QED
    BY <2>1, <2>2
<1>7. segs[i].off <= cov
  <2>1. CASE segs[i].off = 0
    BY <2>1
  <2>2. CASE \E l \in S : l < i /\ segs[l].off + segs[l].size = segs[i].off
    <3>1. PICK l \in S : l < i /\ segs[l].off + segs[l].size = segs[i].off
      BY <2>2
    <3>2. l \in 1 .. i - 1 /\ segs[l].id = id
      BY <1>2, <3>1 DEF SegsOf
    <3> QED
      BY <3>1, <3>2 DEF Covers
  <2> QED
    BY <1>1, <1>5, <2>1, <2>2
<1>8. segs[i].off = cov
  BY <1>3, <1>6, <1>7
<1>9. Covers(id, i, cov + segs[i].size)
  <2>1. ASSUME NEW j \in 1 .. i, segs[j].id = id
        PROVE  segs[j].off + segs[j].size <= cov + segs[i].size
    <3>0. j \in 1 .. Len(segs)
      BY <1>2
    <3>1. CASE j = i
      BY <1>3, <1>8, <3>1
    <3>2. CASE j # i
      <4>1. j \in 1 .. i - 1
        BY <1>2, <3>2
      <4>2. segs[j].off + segs[j].size <= cov
        BY <2>1, <4>1 DEF Covers
      <4> QED
        BY <1>3, <3>0, <4>2
    <3> QED
      BY <3>1, <3>2
  <2>2. i \in 1 .. i /\ segs[i].id = id /\ segs[i].off + segs[i].size = cov + segs[i].size
    BY <1>2, <1>8
  <2> QED
    BY <2>1, <2>2 DEF Covers
<1> QED
  BY <1>8, <1>9

\* A cell of the log holds a byte.
LEMMA ByteType ==
  ASSUME TypeOK, NEW c \in 1 .. LogCells
  PROVE  ByteAt(c) \in Nat
<1>1. disk[c] = Zero \/ disk[c] \in [rec : Records, part : 1 .. LogCells]
  BY DEF TypeOK
<1>2. disk[c].rec.data \in Seq(Nat)
  <2>0. << >> \in Seq(Nat)
    OBVIOUS
  <2>1. CASE disk[c] = Zero
    <3>1. disk[c].rec.data = << >>
      BY <2>1 DEF Zero, NoRec
    <3> QED BY <2>0, <3>1
  <2>2. CASE disk[c] \in [rec : Records, part : 1 .. LogCells]
    <3>1. disk[c].rec \in Records
      BY <2>2
    <3>2. disk[c].rec.data = << >> \/ disk[c].rec.data \in Payloads
      BY <3>1 DEF Records
    <3> QED BY <2>0, <3>2, LogFSAssumption
  <2> QED BY <1>1, <2>1, <2>2
<1>3. ASSUME NEW x \in Seq(Nat), NEW j \in DOMAIN x  PROVE x[j] \in Nat
  OBVIOUS
<1> QED BY <1>2, <1>3 DEF ByteAt

\* Where the part of segment s that a read of off .. end-1 takes begins and ends.
From(s, off) == IF off >= s.off THEN off ELSE s.off
To(s, end) == IF end <= s.off + s.size THEN end ELSE s.off + s.size

\* The part of a segment that a read of off .. end-1 takes.
LEMMA OverlapIs ==
  ASSUME TypeOK, SegmentsTile, NEW i \in 1 .. Len(segs), NEW off \in Nat, NEW end \in Nat,
         off < segs[i].off + segs[i].size, segs[i].off < end, off <= end
  PROVE  /\ Overlap(segs[i], off, end)
              = [k \in 1 .. To(segs[i], end) - From(segs[i], off) |->
                   ByteAt(segs[i].at + (From(segs[i], off) - segs[i].off) + k - 1)]
         /\ Overlap(segs[i], off, end) \in Seq(Nat)
<1> DEFINE from == From(segs[i], off)
           to == To(segs[i], end)
<1>1. /\ segs[i].off \in Nat /\ segs[i].size \in Nat /\ segs[i].at \in Nat /\ segs[i].at >= 2
      /\ LogCells \in Nat /\ logEnd \in Nat /\ logEnd <= LogCells + 1
  BY SegmentType, LogFSAssumption DEF TypeOK, LogEnd
<1>2. segs[i].at + segs[i].size <= logEnd
  BY DEF SegmentsTile
<1>3. Max({off, segs[i].off}) = from /\ Min({end, segs[i].off + segs[i].size}) = to
  BY <1>1, MinPair, MaxPair DEF From, To
<1> DEFINE x == [k \in 1 .. to - from |-> ByteAt(segs[i].at + (from - segs[i].off) + k - 1)]
<1>4. Overlap(segs[i], off, end) = x
  BY <1>3 DEF Overlap, ReadBytes
<1>5. /\ from \in Nat /\ to \in Nat /\ from <= to /\ to - from \in Nat
      /\ segs[i].off <= from /\ to <= segs[i].off + segs[i].size
  BY <1>1 DEF From, To
<1> HIDE DEF from, to
<1>6. \A k \in 1 .. to - from : segs[i].at + (from - segs[i].off) + k - 1 \in 1 .. LogCells
  <2>1. ASSUME NEW a \in Nat, NEW o \in Nat, NEW z \in Nat, NEW e \in Nat, NEW m \in Nat, a >= 2,
               a + z <= e, e <= m + 1, o <= from, from <= to, to <= o + z, NEW k \in 1 .. to - from
        PROVE  a + (from - o) + k - 1 \in 1 .. m
    BY <1>5, <2>1
  <2> QED BY <1>1, <1>2, <1>5, <2>1
<1>7. \A k \in 1 .. to - from : ByteAt(segs[i].at + (from - segs[i].off) + k - 1) \in Nat
  BY <1>6, ByteType
<1>8. x \in [1 .. to - from -> Nat]
  BY <1>7
<1>9. x \in Seq(Nat)
  <2> HIDE DEF x
  <2> QED BY <1>5, <1>8
<1> QED BY <1>4, <1>9 DEF from, to

\* logfs_read_file_part returns the bytes off .. off+size-1 of the file, cut at
\* its end, when the cells of its segments hold the contents w.
LEMMA ReadPartIs ==
  ASSUME TypeOK, SegmentsTile, NEW n \in DOMAIN files, NEW w \in Seq(Nat), Len(w) = files[n].size,
         \A i \in 1 .. Len(segs) : segs[i].id = files[n].id =>
           \A k \in 1 .. segs[i].size : w[segs[i].off + k] = ByteAt(segs[i].at + k - 1),
         NEW off \in 0 .. files[n].size, NEW size \in Nat
  PROVE  ReadPart(n, off, size) = SubSeq(w, off + 1, Min({off + size, Len(w)}))
<1> DEFINE id == files[n].id
           end == off + Min({size, files[n].size - off})
           Take(got, s) ==
             IF \/ Len(got) >= end - off
                \/ s.id # files[n].id
                \/ off >= s.off + s.size
                \/ end <= s.off
               THEN got ELSE got \o Overlap(s, off, end)
           N == Len(segs)
           F == [p \in (1 .. N) \X Seq(Nat) |-> Take(p[2], segs[p[1]])]
           G == CHOOSE g : g = [i \in 0 .. N |->
                                  IF i = 0 THEN << >> ELSE Take(g[i - 1], segs[i])]
<1>1. ReadPart(n, off, size) = G[N]
  BY DEF ReadPart
<1>2. N \in Nat /\ files[n].size \in Nat /\ off \in Nat /\ off <= files[n].size
  BY LogFSAssumption DEF TypeOK
<1>3. end \in Nat /\ off <= end /\ end <= Len(w) /\ end = Min({off + size, Len(w)})
  <2>1. Min({size, files[n].size - off}) = IF size <= files[n].size - off THEN size ELSE files[n].size - off
    BY <1>2, MinPair
  <2>2. Min({off + size, Len(w)}) = IF off + size <= Len(w) THEN off + size ELSE Len(w)
    BY <1>2, MinPair
  <2> QED BY <1>2, <2>1, <2>2
<1>4. \A i \in 1 .. N : segs[i].off \in Nat /\ segs[i].size \in Nat /\ segs[i].size >= 1
  BY SegmentType, LogFSAssumption
<1> HIDE DEF end, N
<1>5. ASSUME NEW got \in Seq(Nat), NEW i \in 1 .. N  PROVE Take(got, segs[i]) \in Seq(Nat)
  <2>1. CASE \/ Len(got) >= end - off
             \/ segs[i].id # files[n].id
             \/ off >= segs[i].off + segs[i].size
             \/ end <= segs[i].off
    BY <2>1
  <2>2. CASE ~ \/ Len(got) >= end - off
               \/ segs[i].id # files[n].id
               \/ off >= segs[i].off + segs[i].size
               \/ end <= segs[i].off
    <3>1. off < segs[i].off + segs[i].size /\ segs[i].off < end
      BY <1>2, <1>3, <1>4, <2>2
    <3>2. Overlap(segs[i], off, end) \in Seq(Nat)
      <4>1. i \in 1 .. Len(segs)
        BY DEF N
      <4> QED BY <1>2, <1>3, <3>1, <4>1, OverlapIs
    <3>3. got \o Overlap(segs[i], off, end) \in Seq(Nat)
      BY <3>2, ConcatProperties
    <3> QED BY <2>2, <3>3
  <2> QED BY <2>1, <2>2
<1>6. PICK g \in [0 .. N -> Seq(Nat)] : g[0] = << >> /\ \A i \in 1 .. N : g[i] = Take(g[i - 1], segs[i])
  <2> HIDE DEF Take
  <2>1. F \in [(1 .. N) \X Seq(Nat) -> Seq(Nat)]
    BY <1>5
  <2>2. << >> \in Seq(Nat)
    OBVIOUS
  <2>3. \A i \in 1 .. N, x \in Seq(Nat) : F[<<i, x>>] = Take(x, segs[i])
    OBVIOUS
  <2> HIDE DEF F
  <2>4. PICK g \in [0 .. N -> Seq(Nat)] : g[0] = << >> /\ \A i \in 1 .. N : g[i] = F[<<i, g[i - 1]>>]
    <3> DEFINE V == Seq(Nat)
               b == << >>
    <3>1. F \in [(1 .. N) \X V -> V] /\ b \in V
      BY <2>1, <2>2
    <3> HIDE DEF V, b
    <3>2. \E g \in [0 .. N -> V] : Iterates(g, N, b, F)
      BY <1>2, <3>1, Iterated
    <3> QED BY <3>2 DEF V, b, Iterates
  <2>5. \A i \in 1 .. N : g[i - 1] \in Seq(Nat)
    BY <1>2
  <2> QED BY <2>3, <2>4, <2>5
<1>7. G[0] = << >> /\ \A i \in 1 .. N : G[i] = Take(G[i - 1], segs[i])
  <2> HIDE DEF Take
  <2> DEFINE Body(h) == [i \in 0 .. N |-> IF i = 0 THEN << >> ELSE Take(h[i - 1], segs[i])]
  <2>1. g = Body(g)
    <3>1. \A i \in 0 .. N : g[i] = Body(g)[i]
      <4>1. ASSUME NEW i \in 0 .. N PROVE g[i] = Body(g)[i]
        <5>1. CASE i = 0
          BY <1>2, <1>6, <5>1
        <5>2. CASE i # 0
          <6>1. i \in 1 .. N
            BY <1>2, <5>2
          <6> QED BY <1>6, <5>2, <6>1
        <5> QED BY <5>1, <5>2
      <4> QED BY <4>1
    <3> QED BY <3>1
  <2>2. G = Body(G)
    <3>1. \E h : h = Body(h)
      BY <2>1
    <3> HIDE DEF Body
    <3>2. G = CHOOSE h : h = Body(h)
      BY DEF Body
    <3> QED BY <3>1, <3>2
  <2> HIDE DEF G
  <2>3. 0 \in 0 .. N /\ \A i \in 1 .. N : i \in 0 .. N /\ i # 0
    BY <1>2
  <2> QED BY <2>2, <2>3
<1> HIDE DEF G
<1> DEFINE S == {i \in 0 .. N : \E cov \in Nat :
                   Covers(id, i, cov) /\ G[i] = SubSeq(w, off + 1, Upper(off, end, cov))}
<1>8. 0 \in S
  <2>1. Covers(id, 0, 0)
    BY DEF Covers
  <2>2. Upper(off, end, 0) = off
    BY <1>2 DEF Upper
  <2>3. SubSeq(w, off + 1, off) = << >>
    BY <1>2
  <2>4. 0 \in 0 .. N /\ 0 \in Nat
    BY <1>2
  <2> QED BY <1>7, <2>1, <2>2, <2>3, <2>4
<1>9. ASSUME NEW i \in 1 .. N, i - 1 \in S  PROVE i \in S
  <2>1. PICK cov \in Nat : /\ Covers(id, i - 1, cov)
                           /\ G[i - 1] = SubSeq(w, off + 1, Upper(off, end, cov))
    BY <1>9
  <2>2. G[i] = Take(G[i - 1], segs[i])
    BY <1>7
  <2>3. i \in 0 .. N /\ i \in 1 .. Len(segs)
    BY <1>2 DEF N
  <2>4. CASE segs[i].id # id
    <3>1. Covers(id, i, cov)
      <4>1. \A j \in 1 .. i : j \in 1 .. i - 1 \/ j = i
        BY <1>2
      <4>2. \A j \in 1 .. i - 1 : j \in 1 .. i
        BY <1>2
      <4> QED BY <2>1, <2>4, <4>1, <4>2 DEF Covers
    <3>2. G[i] = G[i - 1]
      BY <2>2, <2>4
    <3> QED BY <2>1, <2>3, <3>1, <3>2
  <2>5. CASE segs[i].id = id
    <3> DEFINE c == cov + segs[i].size
               u == Upper(off, end, cov)
    <3>1. segs[i].off = cov /\ Covers(id, i, c)
      BY <2>1, <2>3, <2>5, NextSegment
    <3>2. u \in Nat /\ off <= u /\ u <= end
      BY <1>2, <1>3 DEF Upper
    <3>3. c \in Nat
      BY <1>4
    <3>4. Len(G[i - 1]) = u - off
      BY <1>2, <1>3, <2>1, <3>2
    <3>5. CASE off >= c \/ end <= cov
      <4>1. G[i] = G[i - 1]
        BY <2>2, <3>1, <3>5
      <4>2. Upper(off, end, c) = u
        BY <1>2, <1>3, <1>4, <3>5 DEF Upper
      <4> QED BY <2>1, <2>3, <3>1, <3>3, <4>1, <4>2
    <3>6. CASE off < c /\ cov < end
      <4> DEFINE from == IF off >= cov THEN off ELSE cov
                 to == IF end <= c THEN end ELSE c
      <4>1. from \in Nat /\ to \in Nat /\ from <= to /\ cov <= from /\ off <= from
        BY <1>2, <1>3, <1>4, <3>3, <3>6
      <4>2. u = from /\ Upper(off, end, c) = to
        BY <1>2, <1>3, <1>4, <3>3, <3>6 DEF Upper
      <4>3. from = From(segs[i], off) /\ to = To(segs[i], end)
        BY <3>1 DEF From, To
      <4>4. to <= Len(w) /\ to <= cov + segs[i].size
        BY <1>2, <1>3, <1>4, <3>3
      <4>x. from < end \/ off = end
        BY <1>2, <1>3, <1>4, <3>3, <3>6
      <4> HIDE DEF from, to, u, c
      <4>5. CASE off = end
        <5>1. Len(G[i - 1]) >= end - off
          BY <1>2, <1>3, <3>2, <3>4, <4>5
        <5>2. G[i] = G[i - 1]
          BY <2>2, <5>1
        <5>3. Upper(off, end, c) = u
          BY <1>3, <3>2, <3>3, <4>5, <3>6 DEF Upper
        <5> QED BY <2>1, <2>3, <3>1, <3>3, <5>2, <5>3 DEF u
      <4>6. CASE from < end
        <5>1. ~ (Len(G[i - 1]) >= end - off)
          BY <1>2, <1>3, <3>2, <3>4, <4>1, <4>2, <4>6
        <5>2. ~ (off >= segs[i].off + segs[i].size) /\ ~ (end <= segs[i].off)
          BY <1>2, <1>3, <3>1, <3>3, <3>6 DEF c
        <5>3. G[i] = G[i - 1] \o Overlap(segs[i], off, end)
          BY <2>2, <2>5, <5>1, <5>2
        <5>4. Overlap(segs[i], off, end)
                = [k \in 1 .. to - from |-> ByteAt(segs[i].at + (from - segs[i].off) + k - 1)]
          <6>1. off < segs[i].off + segs[i].size /\ segs[i].off < end
            BY <3>1, <3>6 DEF c
          <6>2. Overlap(segs[i], off, end)
                  = [k \in 1 .. To(segs[i], end) - From(segs[i], off) |->
                       ByteAt(segs[i].at + (From(segs[i], off) - segs[i].off) + k - 1)]
            BY <1>2, <1>3, <2>3, <6>1, OverlapIs
          <6> QED BY <4>3, <6>2
        <5>5. ASSUME NEW k \in 1 .. to - from
              PROVE  ByteAt(segs[i].at + (from - segs[i].off) + k - 1) = w[from + k]
          <6> DEFINE j == (from - cov) + k
          <6>1. j \in 1 .. segs[i].size /\ segs[i].off + j = from + k
                /\ segs[i].at + (from - segs[i].off) + k - 1 = segs[i].at + j - 1
            <7>1. segs[i].size \in Nat /\ segs[i].at \in Nat
              BY <2>3, SegmentType, LogFSAssumption
            <7> QED BY <3>1, <4>1, <4>4, <7>1
          <6> HIDE DEF j
          <6>2. w[segs[i].off + j] = ByteAt(segs[i].at + j - 1)
            BY <2>3, <2>5, <6>1
          <6> QED BY <6>1, <6>2
        <5>6. Overlap(segs[i], off, end) = [k \in 1 .. to - from |-> w[from + k]]
          BY <5>4, <5>5
        <5>7. SubSeq(w, off + 1, from) \o [k \in 1 .. to - from |-> w[from + k]] = SubSeq(w, off + 1, to)
          BY <1>2, <4>1, <4>4, JoinRead
        <5>8. G[i - 1] = SubSeq(w, off + 1, from)
          BY <2>1, <4>2 DEF u
        <5>9. G[i] = SubSeq(w, off + 1, Upper(off, end, c))
          BY <4>2, <5>3, <5>6, <5>7, <5>8
        <5> QED BY <2>3, <3>1, <3>3, <5>9
      <4> QED BY <4>x, <4>5, <4>6
    <3> QED
      <4>1. (off >= c \/ end <= cov) \/ (off < c /\ cov < end)
        BY <1>2, <1>3, <3>3
      <4> QED BY <3>5, <3>6, <4>1, Zenon
  <2> QED BY <2>4, <2>5
<1>10. N \in S
  <2>1. \A i \in 1 .. N : i - 1 \in S => i \in S
    BY <1>9
  <2> HIDE DEF S
  <2>2. \A i \in 0 .. N : i \in S
    BY <1>2, <1>8, <2>1, Upto
  <2> QED BY <1>2, <2>2
<1>11. PICK cov \in Nat : Covers(id, N, cov) /\ G[N] = SubSeq(w, off + 1, Upper(off, end, cov))
  BY <1>10
<1>12. cov = files[n].size
  <2>1. \A j \in 1 .. N : segs[j].id = id => segs[j].off + segs[j].size <= files[n].size
    BY DEF SegmentsTile, SegsOf, N
  <2>2. files[n].size = 0 \/ \E j \in 1 .. N : segs[j].id = id /\ segs[j].off + segs[j].size = files[n].size
    BY DEF SegmentsTile, SegsOf, N
  <2>3. cov <= files[n].size
    <3>1. CASE cov = 0
      BY <1>2, <3>1
    <3>2. CASE cov # 0
      BY <1>11, <2>1, <3>2 DEF Covers
    <3> QED BY <3>1, <3>2
  <2>4. files[n].size <= cov
    <3>1. CASE files[n].size = 0
      BY <1>2, <3>1
    <3>2. CASE files[n].size # 0
      BY <1>11, <2>2, <3>2 DEF Covers
    <3> QED BY <3>1, <3>2
  <2> QED BY <1>2, <2>3, <2>4
<1>13. Upper(off, end, cov) = end
  BY <1>2, <1>3, <1>12 DEF Upper
<1> QED BY <1>1, <1>3, <1>11, <1>13

----------------------------------------------------------------------------
(* The tables and what they show *)

\* ByteAt for a disk d.
Byte(d, c) ==
  IF d[c].part - 1 \in DOMAIN d[c].rec.data THEN d[c].rec.data[d[c].part - 1] ELSE 0

\* Segment s of disk d lies in the file with entry f and holds its bytes.
Holds(d, s, f, w) ==
  /\ s.off + s.size <= f.size
  /\ \A k \in 1 .. s.size : w[s.off + k] = Byte(d, s.at + k - 1)

\* On disk d the segment table sg and the file table fs show the contents v.
Shows(d, sg, fs, v) ==
  /\ v = [n \in DOMAIN fs |-> v[n]]
  /\ \A n \in DOMAIN fs : v[n] \in Seq(Nat) /\ Len(v[n]) = fs[n].size
  /\ \A m, n \in DOMAIN fs : fs[m].id = fs[n].id => m = n
  /\ \A i \in 1 .. Len(sg) : \E n \in DOMAIN fs :
       fs[n].id = sg[i].id /\ Holds(d, sg[i], fs[n], v[n])

\* Replay of record r: whether it is accepted, and the tables and contents after it.
Owner(fs, id) == CHOOSE n \in DOMAIN fs : fs[n].id = id

Accepts(fs, sg, r) ==
  \/ /\ r.type = "create"
     /\ r.name \notin DOMAIN fs
     /\ \A n \in DOMAIN fs : fs[n].id # r.id
     /\ Cardinality(DOMAIN fs) < MAX_FILES
  \/ /\ r.type = "append"
     /\ \E n \in DOMAIN fs : fs[n].id = r.id
     /\ fs[Owner(fs, r.id)].size = r.before
     /\ Len(sg) < MAX_SEGMENTS

FilesAfter(fs, r) ==
  IF r.type = "create"
    THEN [n \in DOMAIN fs \cup {r.name} |-> IF n = r.name THEN [id |-> r.id, size |-> 0] ELSE fs[n]]
    ELSE [fs EXCEPT ![Owner(fs, r.id)].size = @ + Len(r.data)]

SegsAfter(sg, end, r) == IF r.type = "create" THEN sg ELSE Append(sg, Segment(r, end))

ViewAfter(fs, v, r) ==
  IF r.type = "create"
    THEN [n \in DOMAIN fs \cup {r.name} |-> IF n = r.name THEN << >> ELSE v[n]]
    ELSE [v EXCEPT ![Owner(fs, r.id)] = @ \o r.data]

\* The type of an entry of the segment table.
LEMMA EntryType ==
  ASSUME NEW s \in Segments
  PROVE  /\ s.id \in Nat /\ s.off \in Nat /\ s.size \in Nat /\ s.size >= 1
         /\ s.at \in Nat /\ s.at >= 2
BY LogFSAssumption DEF Segments

\* A disk that agrees with d below the end of the log shows the same.
LEMMA ShowsKept ==
  ASSUME NEW d, NEW e, NEW sg \in Seq(Segments), NEW fs, NEW v, Shows(d, sg, fs, v),
         NEW end \in Nat, end <= LogEnd,
         \A i \in 1 .. Len(sg) : sg[i].at + sg[i].size <= end,
         \A c \in 1 .. LogCells : c < end => e[c] = d[c]
  PROVE  Shows(e, sg, fs, v)
<1>1. ASSUME NEW i \in 1 .. Len(sg), NEW k \in 1 .. sg[i].size
      PROVE  Byte(e, sg[i].at + k - 1) = Byte(d, sg[i].at + k - 1)
  <2>1. sg[i] \in Segments
    OBVIOUS
  <2>2. sg[i].at \in Nat /\ sg[i].at >= 2 /\ sg[i].size \in Nat /\ LogCells \in Nat
    BY <2>1, EntryType, LogFSAssumption
  <2>3. sg[i].at + sg[i].size <= end
    OBVIOUS
  <2>4. sg[i].at + k - 1 \in 1 .. LogCells /\ sg[i].at + k - 1 < end
    BY <2>2, <2>3 DEF LogEnd
  <2> QED BY <2>4 DEF Byte
<1>2. ASSUME NEW i \in 1 .. Len(sg), NEW n, Holds(d, sg[i], fs[n], v[n])
      PROVE  Holds(e, sg[i], fs[n], v[n])
  BY <1>1, <1>2 DEF Holds
<1> QED BY <1>2 DEF Shows

\* A replayed or finished create adds an empty file.
LEMMA ShowsCreated ==
  ASSUME NEW d, NEW sg, NEW fs, NEW v, NEW r \in Records, NEW end,
         Shows(d, sg, fs, v), r.type = "create", Accepts(fs, sg, r)
  PROVE  Shows(d, SegsAfter(sg, end, r), FilesAfter(fs, r), ViewAfter(fs, v, r))
<1> DEFINE gs == FilesAfter(fs, r)
           w == ViewAfter(fs, v, r)
<1>1. /\ DOMAIN gs = DOMAIN fs \cup {r.name} /\ DOMAIN w = DOMAIN gs
      /\ gs[r.name] = [id |-> r.id, size |-> 0] /\ w[r.name] = << >>
      /\ \A n \in DOMAIN fs : n # r.name => gs[n] = fs[n] /\ w[n] = v[n]
      /\ w = [n \in DOMAIN gs |-> w[n]]
  BY DEF FilesAfter, ViewAfter
<1>2. r.name \notin DOMAIN fs /\ \A n \in DOMAIN fs : fs[n].id # r.id
  BY DEF Accepts
<1>3. \A n \in DOMAIN fs : n \in DOMAIN gs /\ gs[n] = fs[n] /\ w[n] = v[n]
  BY <1>1, <1>2
<1>4. SegsAfter(sg, end, r) = sg
  BY DEF SegsAfter
<1> HIDE DEF gs, w
<1>5. \A n \in DOMAIN gs : w[n] \in Seq(Nat) /\ Len(w[n]) = gs[n].size
  <2>1. << >> \in Seq(Nat) /\ Len(<< >>) = 0
    OBVIOUS
  <2>2. \A n \in DOMAIN fs : w[n] \in Seq(Nat) /\ Len(w[n]) = gs[n].size
    BY <1>3 DEF Shows
  <2>3. w[r.name] \in Seq(Nat) /\ Len(w[r.name]) = gs[r.name].size
    BY <1>1, <2>1
  <2> QED BY <1>1, <2>2, <2>3
<1>6. \A m, n \in DOMAIN gs : gs[m].id = gs[n].id => m = n
  <2>1. \A n \in DOMAIN fs : gs[n].id # gs[r.name].id
    BY <1>1, <1>2, <1>3
  <2> QED BY <1>1, <1>3, <2>1 DEF Shows
<1>7. \A i \in 1 .. Len(sg) : \E n \in DOMAIN gs :
         gs[n].id = sg[i].id /\ Holds(d, sg[i], gs[n], w[n])
  BY <1>3 DEF Shows
<1>8. Shows(d, sg, gs, w)
  BY <1>1, <1>5, <1>6, <1>7 DEF Shows
<1> QED BY <1>4, <1>8 DEF gs, w

\* A replayed or finished append extends its file.
LEMMA ShowsAppended ==
  ASSUME NEW d, NEW sg \in Seq(Segments), NEW fs, NEW v, NEW r \in Records, NEW end \in Nat,
         Shows(d, sg, fs, v), r.type = "append", Accepts(fs, sg, r), HasRecord(d, end, r),
         \A n \in DOMAIN fs : fs[n].size \in Nat /\ fs[n] = [id |-> fs[n].id, size |-> fs[n].size]
  PROVE  Shows(d, SegsAfter(sg, end, r), FilesAfter(fs, r), ViewAfter(fs, v, r))
<1> DEFINE gs == FilesAfter(fs, r)
           w == ViewAfter(fs, v, r)
           o == Owner(fs, r.id)
           s == Segment(r, end)
           x == v[o]
<1>0. r.type # "create" /\ r.data \in Seq(Nat) /\ Len(r.data) \in Nat
      /\ RecordSize(r) = 1 + Len(r.data)
  BY RecordFacts, LogFSAssumption
<1>1. o \in DOMAIN fs /\ fs[o].id = r.id /\ fs[o].size = r.before
  BY <1>0 DEF Accepts, Owner
<1>2. v = [n \in DOMAIN fs |-> v[n]] /\ x \in Seq(Nat) /\ Len(x) = r.before /\ r.before \in Nat
  BY <1>1 DEF Shows
<1>3. /\ gs = [fs EXCEPT ![o].size = @ + Len(r.data)]
      /\ w = [v EXCEPT ![o] = @ \o r.data]
      /\ SegsAfter(sg, end, r) = Append(sg, s)
  BY <1>0 DEF FilesAfter, ViewAfter, SegsAfter
<1>4. s.id = r.id /\ s.off = r.before /\ s.size = Len(r.data) /\ s.at = end + 1
  BY DEF Segment
<1> HIDE DEF gs, w, o, s, x
<1>5. /\ DOMAIN gs = DOMAIN fs
      /\ gs[o].id = r.id /\ gs[o].size = r.before + Len(r.data)
      /\ \A n \in DOMAIN fs : n # o => gs[n] = fs[n]
  BY <1>1, <1>3
<1>6. /\ w = [n \in DOMAIN fs |-> w[n]]
      /\ w[o] = x \o r.data
      /\ \A n \in DOMAIN fs : n # o => w[n] = v[n]
  BY <1>1, <1>2, <1>3 DEF x
<1>7. /\ w[o] \in Seq(Nat) /\ Len(w[o]) = r.before + Len(r.data)
      /\ \A k \in 1 .. r.before : w[o][k] = x[k]
      /\ \A k \in 1 .. Len(r.data) : w[o][r.before + k] = r.data[k]
  <2>1. /\ x \o r.data \in Seq(Nat)
        /\ Len(x \o r.data) = Len(x) + Len(r.data)
        /\ \A i \in 1 .. Len(x) + Len(r.data) :
             (x \o r.data)[i] = IF i <= Len(x) THEN x[i] ELSE r.data[i - Len(x)]
    BY <1>0, <1>2, ConcatProperties
  <2>2. ASSUME NEW k \in 1 .. r.before  PROVE w[o][k] = x[k]
    <3>1. k \in 1 .. Len(x) + Len(r.data) /\ k <= Len(x)
      BY <1>0, <1>2
    <3> QED BY <1>6, <2>1, <3>1
  <2>3. ASSUME NEW k \in 1 .. Len(r.data) PROVE w[o][r.before + k] = r.data[k]
    <3>1. r.before + k \in 1 .. Len(x) + Len(r.data) /\ ~ (r.before + k <= Len(x))
          /\ (r.before + k) - Len(x) = k
      BY <1>0, <1>2
    <3> QED BY <1>6, <2>1, <3>1
  <2> QED BY <1>2, <1>6, <2>1, <2>2, <2>3
<1>8. \A n \in DOMAIN gs : w[n] \in Seq(Nat) /\ Len(w[n]) = gs[n].size
  <2>1. \A n \in DOMAIN fs : v[n] \in Seq(Nat) /\ Len(v[n]) = fs[n].size
    BY DEF Shows
  <2> QED BY <1>5, <1>6, <1>7, <2>1
<1>9. \A n \in DOMAIN fs : gs[n].id = fs[n].id
  BY <1>1, <1>5
<1>10. \A m, n \in DOMAIN gs : gs[m].id = gs[n].id => m = n
  BY <1>5, <1>9 DEF Shows
<1>11. Holds(d, s, gs[o], w[o])
  <2>1. ASSUME NEW k \in 1 .. Len(r.data)  PROVE Byte(d, end + 1 + k - 1) = r.data[k]
    <3>1. k + 1 \in 1 .. RecordSize(r) /\ end + (k + 1) - 1 = end + 1 + k - 1
      BY <1>0
    <3>2. d[end + (k + 1) - 1] = [rec |-> r, part |-> k + 1]
      BY <3>1 DEF HasRecord
    <3> DEFINE y == d[end + 1 + k - 1]
    <3>3. y.rec = r /\ y.part = k + 1 /\ y.part - 1 = k
      BY <1>0, <3>1, <3>2
    <3>4. k \in DOMAIN r.data
      BY <1>0
    <3> QED BY <3>3, <3>4 DEF Byte
  <2> QED BY <1>0, <1>2, <1>4, <1>5, <1>7, <2>1 DEF Holds
<1>12. ASSUME NEW i \in 1 .. Len(sg)
       PROVE  \E n \in DOMAIN gs : gs[n].id = sg[i].id /\ Holds(d, sg[i], gs[n], w[n])
  <2>1. PICK n \in DOMAIN fs : fs[n].id = sg[i].id /\ Holds(d, sg[i], fs[n], v[n])
    BY DEF Shows
  <2>2. CASE n # o
    BY <1>5, <1>6, <2>1, <2>2
  <2>3. CASE n = o
    <3>1. sg[i] \in Segments
      OBVIOUS
    <3>2. sg[i].off \in Nat /\ sg[i].size \in Nat
      BY <3>1, EntryType
    <3>3. sg[i].off + sg[i].size <= r.before /\ sg[i].off + sg[i].size <= gs[o].size
      BY <1>0, <1>1, <1>2, <1>5, <2>1, <2>3, <3>2 DEF Holds
    <3>4. \A k \in 1 .. sg[i].size : sg[i].off + k \in 1 .. r.before
      BY <1>2, <3>2, <3>3
    <3>5. \A k \in 1 .. sg[i].size : w[o][sg[i].off + k] = Byte(d, sg[i].at + k - 1)
      BY <1>7, <2>1, <2>3, <3>4 DEF Holds, x
    <3>6. Holds(d, sg[i], gs[o], w[o])
      BY <3>3, <3>5 DEF Holds
    <3> QED BY <1>1, <1>5, <1>9, <2>1, <2>3, <3>6
  <2> QED BY <2>2, <2>3
<1> DEFINE tg == Append(sg, s)
<1>13. Len(tg) = Len(sg) + 1 /\ Len(sg) \in Nat /\ tg[Len(sg) + 1] = s
       /\ \A i \in 1 .. Len(sg) : tg[i] = sg[i]
  OBVIOUS
<1> HIDE DEF tg
<1>14. \A i \in 1 .. Len(tg) : \E n \in DOMAIN gs : gs[n].id = tg[i].id /\ Holds(d, tg[i], gs[n], w[n])
  <2>1. \A i \in 1 .. Len(tg) : i \in 1 .. Len(sg) \/ i = Len(sg) + 1
    BY <1>13
  <2>2. o \in DOMAIN gs /\ gs[o].id = tg[Len(sg) + 1].id /\ Holds(d, tg[Len(sg) + 1], gs[o], w[o])
    BY <1>1, <1>4, <1>5, <1>11, <1>13
  <2> QED BY <1>12, <1>13, <2>1, <2>2
<1>15. Shows(d, tg, gs, w)
  BY <1>5, <1>6, <1>8, <1>10, <1>14 DEF Shows
<1> QED BY <1>3, <1>15 DEF gs, w, tg

\* What the tables show of a file is what logfs_read_file_part returns.
LEMMA ShownIsRead ==
  ASSUME IInv, NEW fs, NEW v, Shows(disk, segs, fs, v), NEW n \in DOMAIN fs,
         n \in DOMAIN files, fs[n] = files[n], NEW off \in 0 .. files[n].size, NEW size \in Nat
  PROVE  ReadPart(n, off, size) = SubSeq(v[n], off + 1, Min({off + size, Len(v[n])}))
<1>1. v[n] \in Seq(Nat) /\ Len(v[n]) = files[n].size
  BY DEF Shows
<1>2. ASSUME NEW i \in 1 .. Len(segs), segs[i].id = files[n].id, NEW k \in 1 .. segs[i].size
      PROVE  v[n][segs[i].off + k] = ByteAt(segs[i].at + k - 1)
  <2>1. PICK m \in DOMAIN fs : fs[m].id = segs[i].id /\ Holds(disk, segs[i], fs[m], v[m])
    BY DEF Shows
  <2>2. m = n
    BY <1>2, <2>1 DEF Shows
  <2> QED BY <2>1, <2>2 DEF Holds, Byte, ByteAt
<1>3. TypeOK /\ SegmentsTile
  BY DEF IInv
<1> QED BY <1>1, <1>2, <1>3, ReadPartIs

\* What the tables show of a file is what logfs_read_file returns.
LEMMA FileRead ==
  ASSUME IInv, NEW fs, NEW v, Shows(disk, segs, fs, v), NEW n \in DOMAIN fs,
         n \in DOMAIN files, fs[n] = files[n]
  PROVE  ReadFile(n) = v[n]
<1>1. v[n] \in Seq(Nat) /\ Len(v[n]) = files[n].size /\ files[n].size \in Nat
  BY DEF Shows
<1>2. PICK off \in 0 .. files[n].size : off = 0
  BY <1>1
<1>3. ReadPart(n, off, files[n].size) = SubSeq(v[n], off + 1, Min({off + files[n].size, Len(v[n])}))
  BY <1>1, ShownIsRead
<1>4. Min({off + files[n].size, Len(v[n])}) = Len(v[n])
  BY <1>1, <1>2, MinPair
<1>5. SubSeq(v[n], off + 1, Len(v[n])) = v[n]
  BY <1>1, <1>2
<1>6. ReadPart(n, off, files[n].size) = v[n]
  BY <1>3, <1>4, <1>5
<1> QED BY <1>2, <1>6 DEF ReadFile

\* What the tables show is what logfs_read_file returns of every file.
LEMMA ShownIsContents ==
  ASSUME IInv, NEW v, Shows(disk, segs, files, v)
  PROVE  Contents = v
<1>1. ASSUME NEW n \in DOMAIN files  PROVE ReadFile(n) = v[n]
  BY FileRead
<1>2. v = [n \in DOMAIN files |-> v[n]]
  BY DEF Shows
<1> QED BY <1>1, <1>2 DEF Contents

----------------------------------------------------------------------------
(* What the caller was told *)

\* The record of an operation in progress names the caller's file, and a create
\* was begun with room in the file table.
TableInv ==
  /\ files = [n \in DOMAIN files |-> files[n]]
  /\ op # Idle /\ op.rec.type = "create" =>
       op.rec.name = op.name /\ Cardinality(DOMAIN files \ {op.name}) < MAX_FILES

\* While mounted the tables show what was acknowledged; while mounting they
\* show something.
ReadInv ==
  /\ mode = "ready" => Shows(disk, segs, WithoutFailed, acked)
  /\ mode = "mounting" => \E v : Shows(disk, segs, files, v)

\* When the tables show what was acknowledged, so do reads.
LEMMA ReadInvReads ==
  ASSUME IInv, ReadInv
  PROVE  ReadsAcknowledged
<1> SUFFICES ASSUME mode = "ready", NEW n \in DOMAIN files,
                    ~ (op # Idle /\ op.name = n /\ op.rec.type = "create")
             PROVE  /\ n \in DOMAIN acked /\ ReadFile(n) = acked[n]
                    /\ \A off \in 0 .. files[n].size, size \in 0 .. LogCells :
                         ReadPart(n, off, size) =
                           SubSeq(acked[n], off + 1, Min({off + size, Len(acked[n])}))
  BY DEF ReadsAcknowledged
<1> DEFINE fs == WithoutFailed
<1>1. Shows(disk, segs, fs, acked)
  BY DEF ReadInv
<1>2. n \in DOMAIN fs /\ fs[n] = files[n]
  <2>1. CASE op.rec.type = "create"
    <3>1. op # Idle
      BY <2>1 DEF Idle, NoRec
    <3> QED BY <2>1, <3>1 DEF WithoutFailed
  <2>2. CASE op.rec.type # "create"
    BY <2>2 DEF WithoutFailed
  <2> QED BY <2>1, <2>2
<1> HIDE DEF fs
<1>3. n \in DOMAIN acked /\ acked[n] \in Seq(Nat) /\ Len(acked[n]) = files[n].size
      /\ files[n].size \in Nat /\ LogCells \in Nat
  BY <1>1, <1>2, LogFSAssumption DEF Shows, IInv, TypeOK
<1>4. ASSUME NEW off \in 0 .. files[n].size, NEW size \in Nat
      PROVE  ReadPart(n, off, size) = SubSeq(acked[n], off + 1, Min({off + size, Len(acked[n])}))
  BY <1>1, <1>2, ShownIsRead
<1>5. ReadFile(n) = acked[n]
  BY <1>1, <1>2, FileRead
<1>6. \A size \in 0 .. LogCells : size \in Nat
  BY <1>3
<1> QED BY <1>3, <1>4, <1>5, <1>6

\* Every step keeps TableInv.
LEMMA TableStep ==
  ASSUME IInv, TableInv, [Next]_vars
  PROVE  TableInv'
<1>1. CASE MountBegin \/ PowerOff
  <2>1. files' = << >> /\ op' = Idle
    BY <1>1 DEF MountBegin, PowerOff, IInv, OpInv
  <2>2. << >> = [n \in DOMAIN << >> |-> << >>[n]]
    OBVIOUS
  <2> QED BY <2>1, <2>2 DEF TableInv
<1>2. CASE ReplayCreate \/ ReplayAppend
  <2>1. op' = op /\ op = Idle
    BY <1>2 DEF ReplayCreate, ReplayAppend, IInv, OpInv
  <2>2. files' = [n \in DOMAIN files' |-> files'[n]]
    BY <1>2 DEF ReplayCreate, ReplayAppend, AddFile, TableInv
  <2> QED BY <2>1, <2>2 DEF TableInv
<1>3. CASE MountDone \/ MountReadError \/ UNCHANGED vars
  BY <1>3 DEF MountDone, MountReadError, vars, memory, TableInv
<1>4. ASSUME NEW n \in Names, Create(n)  PROVE TableInv'
  <2> DEFINE r == CreateRec(nextId, n)
  <2>1. /\ n \notin DOMAIN files /\ Cardinality(DOMAIN files) < MAX_FILES
        /\ files' = AddFile(n, [id |-> nextId, size |-> 0])
        /\ op' = [rec |-> r, at |-> logEnd, done |-> 0, name |-> n]
        /\ r.name = n
    BY <1>4 DEF Create, Writing, CreateRec
  <2> HIDE DEF r
  <2>2. files' = [m \in DOMAIN files' |-> files'[m]] /\ DOMAIN files' \ {n} = DOMAIN files
    BY <2>1 DEF AddFile
  <2>3. op'.rec.name = op'.name /\ op'.name = n
    BY <2>1
  <2> QED BY <2>1, <2>2, <2>3 DEF TableInv
<1>5. ASSUME NEW n \in Names, CreateNoSpace(n)  PROVE TableInv'
  BY <1>5 DEF CreateNoSpace, TableInv
<1>6. ASSUME NEW n \in Names, NEW d \in Payloads, AppendFile(n, d)  PROVE TableInv'
  <2>1. op'.rec.type = "append" /\ files' = files
    BY <1>6 DEF AppendFile, Writing, AppendRec, memory
  <2> QED BY <2>1 DEF TableInv
<1>7. CASE WriteBlock
  <2>1. op # Idle /\ op' = [op EXCEPT !.done = @ + Chunk] /\ files' = files
    BY <1>7 DEF WriteBlock, memory, Unfinished
  <2>2. op'.rec = op.rec /\ op'.name = op.name
    BY <2>1 DEF IInv, TypeOK
  <2> QED BY <2>1, <2>2 DEF TableInv
<1>8. CASE WriteFails
  <2>1. files' = WithoutFailed /\ op' = Idle
    BY <1>8 DEF WriteFails
  <2>2. files' = [n \in DOMAIN files' |-> files'[n]]
    BY <2>1 DEF WithoutFailed, TableInv
  <2> QED BY <2>1, <2>2 DEF TableInv
<1>9. CASE FinishCreate \/ FinishAppend \/ AppendNoSegment
  <2>1. op' = Idle
    BY <1>9 DEF FinishCreate, FinishAppend, AppendNoSegment
  <2>2. files' = [n \in DOMAIN files' |-> files'[n]]
    BY <1>9 DEF FinishCreate, FinishAppend, AppendNoSegment, TableInv
  <2> QED BY <2>1, <2>2 DEF TableInv
<1> QED BY <1>1, <1>2, <1>3, <1>4, <1>5, <1>6, <1>7, <1>8, <1>9 DEF Next, Mount, Write

\* An id names one file.
LEMMA OwnerIs ==
  ASSUME NEW fs, NEW n \in DOMAIN fs, \A m \in DOMAIN fs : fs[m].id = fs[n].id => m = n
  PROVE  Owner(fs, fs[n].id) = n
BY DEF Owner

\* A replay step reads an acceptable record at the log's end and applies it.
LEMMA Replayed ==
  ASSUME IInv, ReplayCreate \/ ReplayAppend
  PROVE  /\ mode = "mounting" /\ disk' = disk /\ mode' = mode /\ op' = op /\ damaged' = damaged
         /\ \E r \in Records :
              /\ HasRecord(disk, logEnd, r) /\ Accepts(files, segs, r)
              /\ files' = FilesAfter(files, r)
              /\ segs' = SegsAfter(segs, logEnd, r)
              /\ logEnd' = logEnd + RecordSize(r)
<1>0. mode = "mounting" /\ disk' = disk /\ mode' = mode /\ op' = op /\ damaged' = damaged
  BY DEF ReplayCreate, ReplayAppend
<1>a. TypeOK
  BY DEF IInv
<1>1. CASE ReplayCreate
  <2>1. PICK r \in RecordAt(logEnd) :
               /\ CreateAccepted(r)
               /\ files' = AddFile(r.name, [id |-> r.id, size |-> 0])
               /\ logEnd' = logEnd + RecordSize(r)
    BY <1>1 DEF ReplayCreate
  <2>2. r \in Records /\ HasRecord(disk, logEnd, r) /\ segs' = segs
    BY <1>1, <1>a, RecordAtFacts DEF ReplayCreate
  <2>3. Accepts(files, segs, r) /\ r.type = "create"
    BY <2>1 DEF CreateAccepted, Accepts, FileIds
  <2>4. files' = FilesAfter(files, r) /\ segs' = SegsAfter(segs, logEnd, r)
    BY <2>1, <2>2, <2>3 DEF AddFile, FilesAfter, SegsAfter
  <2> QED BY <1>0, <2>1, <2>2, <2>3, <2>4
<1>2. CASE ReplayAppend
  <2>1. PICK r \in RecordAt(logEnd) :
               /\ AppendAccepted(r)
               /\ files' = [files EXCEPT ![NameOf(r.id)].size = @ + Len(r.data)]
               /\ segs' = Append(segs, Segment(r, logEnd))
               /\ logEnd' = logEnd + RecordSize(r)
    BY <1>2 DEF ReplayAppend
  <2>2. r \in Records /\ HasRecord(disk, logEnd, r)
    BY <1>a, RecordAtFacts
  <2>3. Accepts(files, segs, r) /\ r.type = "append"
    BY <2>1 DEF AppendAccepted, Accepts, FileIds, NameOf, Owner
  <2>4. files' = FilesAfter(files, r) /\ segs' = SegsAfter(segs, logEnd, r)
    BY <2>1, <2>3 DEF FilesAfter, SegsAfter, NameOf, Owner
  <2> QED BY <1>0, <2>1, <2>2, <2>3, <2>4
<1> QED BY <1>1, <1>2

\* The tables without the file that is being created.
LEMMA WithoutFacts ==
  ASSUME IInv, TableInv
  PROVE  /\ DOMAIN WithoutFailed \subseteq DOMAIN files
         /\ \A n \in DOMAIN WithoutFailed : WithoutFailed[n] = files[n]
         /\ op = Idle => WithoutFailed = files
         /\ op # Idle =>
              /\ op \in [rec : Records, at : 1 .. LogCells, done : 0 .. LogCells, name : Names]
              /\ op.rec \in Records /\ op.rec.type \in {"create", "append"}
              /\ op.name \in DOMAIN files /\ op.rec.id = files[op.name].id
              /\ op.rec.before = files[op.name].size
              /\ op.rec.type = "append" => WithoutFailed = files /\ Owner(files, op.rec.id) = op.name
              /\ op.rec.type = "create" =>
                   /\ op.rec.name = op.name /\ op.name \notin DOMAIN WithoutFailed
                   /\ DOMAIN files = DOMAIN WithoutFailed \cup {op.name}
                   /\ files[op.name] = [id |-> op.rec.id, size |-> 0]
                   /\ Cardinality(DOMAIN WithoutFailed) < MAX_FILES
<1>1. /\ DOMAIN WithoutFailed \subseteq DOMAIN files
      /\ \A n \in DOMAIN WithoutFailed : WithoutFailed[n] = files[n]
  BY DEF WithoutFailed
<1>2. op = Idle => WithoutFailed = files
  BY DEF WithoutFailed, Idle, NoRec
<1>3. ASSUME op # Idle
      PROVE  /\ op \in [rec : Records, at : 1 .. LogCells, done : 0 .. LogCells, name : Names]
             /\ op.rec \in Records /\ op.rec.type \in {"create", "append"}
             /\ op.name \in DOMAIN files /\ op.rec.id = files[op.name].id
             /\ op.rec.before = files[op.name].size
  <2>1. op \in [rec : Records, at : 1 .. LogCells, done : 0 .. LogCells, name : Names]
    BY <1>3 DEF IInv, TypeOK
  <2>2. op.rec \in Records
    BY <2>1
  <2>3. op.rec.type \in {"create", "append"}
    BY <2>2, RecordFacts
  <2> QED BY <1>3, <2>1, <2>2, <2>3 DEF IInv, OpInv
<1>4. ASSUME op # Idle, op.rec.type = "append"
      PROVE  WithoutFailed = files /\ Owner(files, op.rec.id) = op.name
  <2>1. \A m \in DOMAIN files : files[m].id = files[op.name].id => m = op.name
    BY <1>3, <1>4 DEF IInv, IdsUnique
  <2> QED BY <1>3, <1>4, <2>1, OwnerIs DEF WithoutFailed
<1>5. ASSUME op # Idle, op.rec.type = "create"
      PROVE  /\ op.rec.name = op.name /\ op.name \notin DOMAIN WithoutFailed
             /\ DOMAIN files = DOMAIN WithoutFailed \cup {op.name}
             /\ files[op.name] = [id |-> op.rec.id, size |-> 0]
             /\ Cardinality(DOMAIN WithoutFailed) < MAX_FILES
  <2>1. DOMAIN WithoutFailed = DOMAIN files \ {op.name}
    BY <1>5 DEF WithoutFailed
  <2>2. op.rec.before = 0
    BY <1>3, <1>5, RecordFacts
  <2>3. files[op.name] \in [id : 1 .. MaxId, size : 0 .. LogCells]
    BY <1>3, <1>5 DEF IInv, TypeOK
  <2>4. files[op.name] = [id |-> op.rec.id, size |-> 0]
    BY <1>3, <1>5, <2>2, <2>3
  <2> QED BY <1>3, <1>5, <2>1, <2>4 DEF TableInv
<1> QED BY <1>1, <1>2, <1>3, <1>4, <1>5

\* A finished operation applies its record, as a replay of it would.
LEMMA Finished ==
  ASSUME IInv, TableInv, FinishCreate \/ FinishAppend
  PROVE  /\ op # Idle /\ op.rec \in Records
         /\ mode = "ready" /\ disk' = disk /\ mode' = mode /\ op' = Idle /\ damaged' = damaged
         /\ HasRecord(disk, logEnd, op.rec)
         /\ Accepts(WithoutFailed, segs, op.rec)
         /\ files' = FilesAfter(WithoutFailed, op.rec)
         /\ segs' = SegsAfter(segs, logEnd, op.rec)
         /\ logEnd' = logEnd + RecordSize(op.rec)
<1> DEFINE fs == WithoutFailed
<1>1. /\ op # Idle /\ Complete /\ disk' = disk /\ mode' = mode /\ op' = Idle /\ damaged' = damaged
      /\ logEnd' = logEnd + RecordSize(op.rec)
  BY DEF FinishCreate, FinishAppend, Complete
<1>2. op.rec \in Records /\ mode = "ready" /\ op.at = logEnd
  BY <1>1, WithoutFacts DEF IInv, OpInv
<1>3. HasRecord(disk, logEnd, op.rec)
  BY <1>1 DEF Complete, HasRecord, IInv, OpInv
<1>4. CASE FinishCreate
  <2>1. op.rec.type = "create" /\ files' = files /\ segs' = segs
    BY <1>4 DEF FinishCreate
  <2>2. /\ op.rec.name = op.name /\ op.name \notin DOMAIN fs
        /\ DOMAIN files = DOMAIN fs \cup {op.name}
        /\ files[op.name] = [id |-> op.rec.id, size |-> 0]
        /\ Cardinality(DOMAIN fs) < MAX_FILES
        /\ \A n \in DOMAIN fs : fs[n] = files[n]
    BY <1>1, <2>1, WithoutFacts
  <2> HIDE DEF fs
  <2>3. \A n \in DOMAIN fs : fs[n].id # op.rec.id
    <3>1. \A m, n \in DOMAIN files : files[m].id = files[n].id => m = n
      BY DEF IInv, IdsUnique
    <3>2. files[op.name].id = op.rec.id
      BY <2>2
    <3> QED BY <2>2, <3>1, <3>2
  <2>4. Accepts(fs, segs, op.rec)
    BY <2>1, <2>2, <2>3 DEF Accepts
  <2>5. files = FilesAfter(fs, op.rec)
    <3>1. files = [n \in DOMAIN files |-> files[n]]
      BY DEF TableInv
    <3> DEFINE gs == FilesAfter(fs, op.rec)
    <3>2. /\ gs = [n \in DOMAIN gs |-> gs[n]] /\ DOMAIN gs = DOMAIN fs \cup {op.name}
          /\ gs[op.name] = [id |-> op.rec.id, size |-> 0]
          /\ \A n \in DOMAIN fs : gs[n] = fs[n]
      BY <2>1, <2>2 DEF FilesAfter
    <3> HIDE DEF gs
    <3>3. \A n \in DOMAIN files : files[n] = gs[n]
      BY <2>2, <3>2
    <3>4. files = gs
      BY <2>2, <3>1, <3>2, <3>3
    <3> QED BY <3>4 DEF gs
  <2>6. segs = SegsAfter(segs, logEnd, op.rec)
    BY <2>1 DEF SegsAfter
  <2> QED BY <1>1, <1>2, <1>3, <2>1, <2>4, <2>5, <2>6 DEF fs
<1>5. CASE FinishAppend
  <2>1. /\ op.rec.type = "append" /\ Len(segs) < MAX_SEGMENTS
        /\ segs' = Append(segs, Segment(op.rec, logEnd))
        /\ files' = [files EXCEPT ![op.name].size = @ + Len(op.rec.data)]
    BY <1>2, <1>5 DEF FinishAppend
  <2>2. /\ fs = files /\ Owner(files, op.rec.id) = op.name /\ op.name \in DOMAIN files
        /\ op.rec.id = files[op.name].id /\ op.rec.before = files[op.name].size
    BY <1>1, <2>1, WithoutFacts
  <2> HIDE DEF fs
  <2>3. Accepts(files, segs, op.rec)
    BY <2>1, <2>2 DEF Accepts
  <2>4. files' = FilesAfter(files, op.rec) /\ segs' = SegsAfter(segs, logEnd, op.rec)
    BY <2>1, <2>2 DEF FilesAfter, SegsAfter
  <2> QED BY <1>1, <1>2, <1>3, <2>2, <2>3, <2>4 DEF fs
<1> QED BY <1>4, <1>5

\* The contents the caller is told of are the ones the record stands for.
LEMMA ToldView ==
  ASSUME IInv, TableInv, op # Idle, Shows(disk, segs, WithoutFailed, acked)
  PROVE  Abstract!Apply(acked, Cur) = ViewAfter(WithoutFailed, acked, op.rec)
<1> DEFINE fs == WithoutFailed
<1>1. acked = [n \in DOMAIN fs |-> acked[n]]
  BY DEF Shows
<1>2. DOMAIN acked = DOMAIN fs
  <2> HIDE DEF fs
  <2> QED BY <1>1
<1>3. CASE op.rec.type = "create"
  <2>1. op.rec.name = op.name /\ op.name \notin DOMAIN fs
    BY <1>3, WithoutFacts
  <2>2. Cur = [kind |-> "create", name |-> op.name]
    BY <1>3 DEF Cur
  <2>3. Cur.kind = "create" /\ Cur.name = op.name
    BY <2>2
  <2>4. Abstract!Apply(acked, Cur)
          = [n \in DOMAIN acked \cup {op.name} |-> IF n \in DOMAIN acked THEN acked[n] ELSE << >>]
    BY <2>3 DEF Abstract!Apply
  <2>5. ViewAfter(fs, acked, op.rec)
          = [n \in DOMAIN acked \cup {op.name} |-> IF n = op.name THEN << >> ELSE acked[n]]
    BY <1>2, <1>3, <2>1 DEF ViewAfter
  <2>6. \A n \in DOMAIN acked \cup {op.name} :
          (IF n \in DOMAIN acked THEN acked[n] ELSE << >>) = (IF n = op.name THEN << >> ELSE acked[n])
    BY <1>2, <2>1
  <2> QED BY <2>4, <2>5, <2>6
<1>4. CASE op.rec.type = "append"
  <2>1. fs = files /\ Owner(files, op.rec.id) = op.name
    BY <1>4, WithoutFacts
  <2>2. Cur = [kind |-> "append", name |-> op.name, data |-> op.rec.data]
    BY <1>4 DEF Cur
  <2>3. Cur.kind = "append" /\ Cur.name = op.name /\ Cur.data = op.rec.data
    BY <2>2
  <2>4. Abstract!Apply(acked, Cur) = [acked EXCEPT ![op.name] = @ \o op.rec.data]
    BY <2>3 DEF Abstract!Apply
  <2>5. ViewAfter(files, acked, op.rec) = [acked EXCEPT ![op.name] = @ \o op.rec.data]
    BY <1>4, <2>1 DEF ViewAfter
  <2> QED BY <2>1, <2>4, <2>5
<1> QED BY <1>3, <1>4, WithoutFacts

\* Applying an accepted record keeps what the tables show in step with it.
LEMMA ShowsAfter ==
  ASSUME NEW d, NEW sg \in Seq(Segments), NEW fs, NEW v, NEW r \in Records, NEW end \in Nat,
         Shows(d, sg, fs, v), Accepts(fs, sg, r), HasRecord(d, end, r),
         \A n \in DOMAIN fs : fs[n] \in [id : 1 .. MaxId, size : 0 .. LogCells]
  PROVE  Shows(d, SegsAfter(sg, end, r), FilesAfter(fs, r), ViewAfter(fs, v, r))
<1>1. r.type \in {"create", "append"}
  BY RecordFacts
<1>2. \A n \in DOMAIN fs : fs[n].size \in Nat /\ fs[n] = [id |-> fs[n].id, size |-> fs[n].size]
  BY LogFSAssumption
<1>3. CASE r.type = "create"
  BY <1>3, ShowsCreated
<1>4. CASE r.type = "append"
  BY <1>2, <1>4, ShowsAppended
<1> QED BY <1>1, <1>3, <1>4

\* logfs_read_file of every file returns what the tables show.
ReadsShown == \A v : IInv /\ Shows(disk, segs, files, v) => Contents = v

\* That is so in every state.
LEMMA AlwaysReadsShown == ReadsShown
BY ShownIsContents DEF ReadsShown

\* Every step keeps ReadInv.
LEMMA ReadStep ==
  ASSUME IInv, IInv', ReadsShown', TableInv, ReadInv, [HNext]_hvars
  PROVE  ReadInv'
<1>a. /\ logEnd \in Nat /\ logEnd <= LogEnd /\ segs \in Seq(Segments)
      /\ \A n \in DOMAIN files : files[n] \in [id : 1 .. MaxId, size : 0 .. LogCells]
      /\ \A i \in 1 .. Len(segs) : segs[i].at + segs[i].size <= logEnd
  BY LogFSAssumption DEF IInv, TypeOK, LogEnd, SegmentsTile
<1>b. \A n \in DOMAIN WithoutFailed : WithoutFailed[n] \in [id : 1 .. MaxId, size : 0 .. LogCells]
  BY <1>a, WithoutFacts
<1>1. CASE MountBegin \/ PowerOff
  <2>1. CASE PowerOff
    BY <2>1 DEF PowerOff, ReadInv
  <2>2. CASE MountBegin
    <3>1. files' = << >> /\ segs' = << >> /\ mode' = "mounting"
      BY <2>2 DEF MountBegin
    <3>2. Shows(disk', << >>, << >>, << >>)
      BY DEF Shows
    <3> QED BY <3>1, <3>2 DEF ReadInv
  <2> QED BY <1>1, <2>1, <2>2
<1>2. CASE ReplayCreate \/ ReplayAppend
  <2>1. mode = "mounting" /\ disk' = disk /\ mode' = mode
    BY <1>2, Replayed
  <2>2. PICK r \in Records :
              /\ HasRecord(disk, logEnd, r) /\ Accepts(files, segs, r)
              /\ files' = FilesAfter(files, r)
              /\ segs' = SegsAfter(segs, logEnd, r)
    BY <1>2, Replayed
  <2>3. PICK v : Shows(disk, segs, files, v)
    BY <2>1 DEF ReadInv
  <2>4. Shows(disk, SegsAfter(segs, logEnd, r), FilesAfter(files, r), ViewAfter(files, v, r))
    BY <1>a, <2>2, <2>3, ShowsAfter
  <2> QED BY <2>1, <2>2, <2>4 DEF ReadInv
<1>3. CASE (MountDone \/ MountReadError) /\ Mounted
  <2>1. /\ mode = "mounting" /\ mode' = "ready" /\ disk' = disk /\ files' = files /\ segs' = segs
        /\ op' = op /\ acked' = Contents'
    BY <1>3 DEF MountDone, MountReadError, memory, Mounted
  <2>2. op' = Idle
    BY <2>1 DEF IInv, OpInv
  <2>3. PICK v : Shows(disk, segs, files, v)
    BY <2>1 DEF ReadInv
  <2>4. Shows(disk', segs', files', v)
    BY <2>1, <2>3
  <2>5. Contents' = v
    BY <2>4 DEF ReadsShown
  <2>6. WithoutFailed' = files'
    BY <2>2 DEF WithoutFailed, Idle, NoRec
  <2> QED BY <2>1, <2>4, <2>5, <2>6 DEF ReadInv
<1>4. ASSUME NEW n \in Names, Create(n), acked' = acked  PROVE ReadInv'
  <2>1. /\ mode = "ready" /\ op = Idle /\ n \notin DOMAIN files
        /\ files' = AddFile(n, [id |-> nextId, size |-> 0])
        /\ op'.rec.type = "create" /\ op'.name = n
        /\ disk' = disk /\ mode' = mode /\ segs' = segs
    BY <1>4 DEF Create, Writing, CreateRec
  <2>2. WithoutFailed' = [m \in DOMAIN files' \ {n} |-> files'[m]]
    BY <2>1 DEF WithoutFailed
  <2>3. DOMAIN files' \ {n} = DOMAIN files /\ \A m \in DOMAIN files : files'[m] = files[m]
    BY <2>1 DEF AddFile
  <2>4. WithoutFailed' = files
    BY <2>2, <2>3 DEF TableInv
  <2>5. WithoutFailed = files
    BY <2>1, WithoutFacts
  <2> QED BY <1>4, <2>1, <2>4, <2>5 DEF ReadInv
<1>5. ASSUME NEW n \in Names, CreateNoSpace(n), acked' = acked  PROVE ReadInv'
  <2>1. mode = "ready" /\ disk' = disk /\ mode' = mode /\ files' = files /\ segs' = segs /\ op' = op
    BY <1>5 DEF CreateNoSpace
  <2>2. WithoutFailed' = WithoutFailed
    BY <2>1 DEF WithoutFailed
  <2> QED BY <1>5, <2>1, <2>2 DEF ReadInv
<1>6. ASSUME NEW n \in Names, NEW d \in Payloads, AppendFile(n, d), acked' = acked  PROVE ReadInv'
  <2>1. /\ mode = "ready" /\ op = Idle /\ op'.rec.type = "append"
        /\ disk' = disk /\ mode' = mode /\ segs' = segs /\ files' = files
    BY <1>6 DEF AppendFile, Writing, AppendRec, memory
  <2>2. WithoutFailed' = files /\ WithoutFailed = files
    BY <2>1, WithoutFacts DEF WithoutFailed
  <2> QED BY <1>6, <2>1, <2>2 DEF ReadInv
<1>7. CASE (WriteBlock \/ WriteFails) /\ acked' = acked
  <2>1. /\ Unfinished /\ op # Idle /\ mode' = mode /\ segs' = segs
        /\ disk' \in {disk, Written(Chunk)}
    BY <1>7 DEF WriteBlock, WriteFails, memory, Unfinished
  <2>2. mode = "ready"
    BY <2>1 DEF IInv, OpInv
  <2>3. \A c \in 1 .. LogCells : c < logEnd => disk'[c] = disk[c]
    BY <2>1, WrittenFacts DEF IInv
  <2>4. Shows(disk', segs, WithoutFailed, acked)
    BY <1>a, <2>2, <2>3, ShowsKept DEF ReadInv
  <2>5. WithoutFailed' = WithoutFailed
    <3>1. CASE WriteBlock
      <4>1. op' = [op EXCEPT !.done = @ + Chunk] /\ files' = files
        BY <3>1 DEF WriteBlock, memory
      <4>2. op'.rec = op.rec /\ op'.name = op.name
        BY <2>1, <4>1, WithoutFacts
      <4> QED BY <4>1, <4>2 DEF WithoutFailed
    <3>2. CASE WriteFails
      <4>1. files' = WithoutFailed /\ op' = Idle
        BY <3>2 DEF WriteFails
      <4>2. WithoutFailed' = files'
        BY <4>1 DEF WithoutFailed, Idle, NoRec
      <4> QED BY <4>1, <4>2
    <3> QED BY <1>7, <3>1, <3>2
  <2> QED BY <1>7, <2>1, <2>2, <2>4, <2>5 DEF ReadInv
<1>8. CASE (FinishCreate \/ FinishAppend) /\ Told
  <2> DEFINE fs == WithoutFailed
             r == op.rec
  <2>1. /\ op # Idle /\ r \in Records
        /\ mode = "ready" /\ disk' = disk /\ mode' = mode /\ op' = Idle
        /\ HasRecord(disk, logEnd, r)
        /\ Accepts(fs, segs, r)
        /\ files' = FilesAfter(fs, r)
        /\ segs' = SegsAfter(segs, logEnd, r)
    BY <1>8, Finished
  <2>2. Shows(disk, segs, fs, acked)
    BY <2>1 DEF ReadInv
  <2>3. acked' = ViewAfter(fs, acked, r)
    BY <1>8, <2>1, <2>2, ToldView DEF Told
  <2>4. WithoutFailed' = files'
    BY <2>1 DEF WithoutFailed, Idle, NoRec
  <2>5. \A n \in DOMAIN fs : fs[n] \in [id : 1 .. MaxId, size : 0 .. LogCells]
    BY <1>b
  <2> HIDE DEF fs, r
  <2>6. Shows(disk, SegsAfter(segs, logEnd, r), FilesAfter(fs, r), ViewAfter(fs, acked, r))
    BY <1>a, <2>1, <2>2, <2>5, ShowsAfter
  <2> QED BY <2>1, <2>3, <2>4, <2>6 DEF ReadInv
<1>9. CASE AppendNoSegment /\ acked' = acked
  <2>1. /\ op # Idle /\ op.rec.type = "append" /\ disk' = disk /\ mode' = mode /\ files' = files
        /\ segs' = segs /\ op' = Idle
    BY <1>9 DEF AppendNoSegment, Complete
  <2>2. WithoutFailed' = files /\ WithoutFailed = files /\ mode = "ready"
    BY <2>1, WithoutFacts DEF WithoutFailed, Idle, NoRec, IInv, OpInv
  <2> QED BY <1>9, <2>1, <2>2 DEF ReadInv
<1>10. CASE UNCHANGED hvars
  <2>1. /\ disk' = disk /\ mode' = mode /\ files' = files /\ segs' = segs /\ op' = op
        /\ acked' = acked
    BY <1>10 DEF hvars, vars
  <2>2. WithoutFailed' = WithoutFailed
    BY <2>1 DEF WithoutFailed
  <2> QED BY <2>1, <2>2 DEF ReadInv
<1> QED BY <1>1, <1>2, <1>3, <1>4, <1>5, <1>6, <1>7, <1>8, <1>9, <1>10 DEF HNext, NotTold

\* The steps of HSpec are steps of Spec.
LEMMA HSpecIsSpec == HSpec => Spec
<1>1. HInit => Init
  BY DEF HInit
<1>2. [HNext]_hvars => [Next]_vars
  <2>1. HNext => Next
    BY DEF HNext, Next, Mount, Write
  <2>2. UNCHANGED hvars => UNCHANGED vars
    BY DEF hvars
  <2> QED BY <2>1, <2>2
<1> QED BY <1>1, <1>2, PTL DEF HSpec, Spec

\* The tables show what the callers were told, in every reachable state.
LEMMA ReadInvariant == HSpec => [](TableInv /\ ReadInv)
<1>1. HInit => TableInv /\ ReadInv
  <2>1. << >> = [n \in DOMAIN << >> |-> << >>[n]]
    OBVIOUS
  <2> QED BY <2>1 DEF HInit, Init, Cleared, TableInv, ReadInv
<1>2. /\ IInv /\ IInv' /\ ReadsShown' /\ TableInv /\ ReadInv /\ [HNext]_hvars /\ [Next]_vars
      => (TableInv /\ ReadInv)'
  BY TableStep, ReadStep
<1>3. HSpec => []IInv
  BY HSpecIsSpec, LogInvariant, PTL
<1>4. HSpec => [][Next]_vars
  BY HSpecIsSpec, PTL DEF Spec
<1> QED BY <1>1, <1>2, <1>3, <1>4, AlwaysReadsShown, PTL DEF HSpec

\* While mounted, reads return exactly what was mounted and acknowledged since
\* (logfs_read_file, logfs_read_file_part), however often writes failed and
\* however the data lies in the log.
THEOREM ReadsWhatWasAcknowledged == HSpec => []ReadsAcknowledged
<1>1. IInv /\ TableInv /\ ReadInv => ReadsAcknowledged
  BY ReadInvReads
<1>2. HSpec => []IInv
  BY HSpecIsSpec, LogInvariant, PTL
<1> QED BY <1>1, <1>2, ReadInvariant, PTL

----------------------------------------------------------------------------
(* What a mount finds *)

\* A point of a mount: the tables, the end of the log, and the contents they show.
Start == [files |-> << >>, segs |-> << >>, end |-> 1, view |-> << >>]

After(a, r) ==
  [files |-> FilesAfter(a.files, r), segs |-> SegsAfter(a.segs, a.end, r),
   end |-> a.end + RecordSize(r), view |-> ViewAfter(a.files, a.view, r)]

\* Record r lies on disk d at point a and is applied there.
Applies(d, a, r) == HasRecord(d, a.end, r) /\ Accepts(a.files, a.segs, r)

\* R is the set of points that a replay of disk d passes, the last one being L.
Chain(d, R, L) ==
  /\ Start \in R /\ L \in R
  /\ L.end <= LogEnd
  /\ \A a \in R : a.end \in Nat /\ 1 <= a.end /\ a.end <= L.end
  /\ \A a \in R : a # L => \E r \in Records : Applies(d, a, r) /\ After(a, r) \in R

\* Behind the last acknowledged point L there is at most one record a mount
\* accepts: one left by an operation without an acknowledgement, or the one
\* being written.
Behind(L) ==
  /\ \A c \in 1 .. LogCells : c > L.end => disk[c].part # 1
  /\ \A r \in Records : Applies(disk, L, r) =>
       After(L, r).view \in maybe \/ (op # Idle /\ r = op.rec)

\* A mount has come to point a.
AtPoint(a) ==
  files = a.files /\ segs = a.segs /\ logEnd = a.end /\ Shows(disk, segs, files, a.view)

\* The point is in the acknowledged log, or one record behind it.
Passed(R, L, a) ==
  \/ a \in R
  \/ \E r \in Records : Applies(disk, L, r) /\ a = After(L, r) /\ a.view \in maybe

LogShows(R, L) ==
  /\ Chain(disk, R, L)
  /\ Behind(L)
  /\ L.view = acked
  /\ mode = "ready" => WithoutFailed = L.files /\ segs = L.segs /\ logEnd = L.end
  /\ mode = "mounting" => \E a : AtPoint(a) /\ Passed(R, L, a)

\* Until the log is damaged, a replay of it leads to the acknowledged contents.
DurableInv == ~damaged => \E R, L : LogShows(R, L)

\* A write at the end of the acknowledged log leaves the points below it.
LEMMA ChainKept ==
  ASSUME NEW d, NEW e, NEW R, NEW L, Chain(d, R, L),
         \A c \in 1 .. LogCells : c < L.end => e[c] = d[c]
  PROVE  Chain(e, R, L)
<1>1. ASSUME NEW a \in R, NEW r \in Records, Applies(d, a, r), After(a, r) \in R
      PROVE  Applies(e, a, r)
  <2>1. /\ a.end \in Nat /\ 1 <= a.end /\ L.end \in Nat /\ L.end <= LogEnd /\ LogCells \in Nat
        /\ After(a, r).end <= L.end /\ RecordSize(r) \in Nat
    BY <1>1, RecordFacts, LogFSAssumption DEF Chain
  <2>2. a.end + RecordSize(r) <= L.end
    BY <2>1 DEF After
  <2>3. \A i \in 1 .. RecordSize(r) : a.end + i - 1 \in 1 .. LogCells /\ a.end + i - 1 < L.end
    BY <2>1, <2>2 DEF LogEnd
  <2>4. \A i \in 1 .. RecordSize(r) : e[a.end + i - 1] = d[a.end + i - 1]
    BY <2>3
  <2> QED BY <1>1, <2>4 DEF Applies, HasRecord
<1> QED BY <1>1 DEF Chain

\* One more record that a replay applies makes one more point.
LEMMA ChainExtended ==
  ASSUME NEW d, NEW R, NEW L, Chain(d, R, L), NEW r \in Records, Applies(d, L, r)
  PROVE  /\ Chain(d, R \cup {After(L, r)}, After(L, r))
         /\ After(L, r).end \in Nat /\ L.end \in Nat /\ L.end < After(L, r).end
<1> DEFINE M == After(L, r)
<1>1. L.end \in Nat /\ 1 <= L.end /\ RecordSize(r) \in Nat /\ RecordSize(r) >= 2
  BY RecordFacts DEF Chain
<1>2. M.end = L.end + RecordSize(r) /\ M.end <= LogEnd
  BY DEF After, Applies, HasRecord
<1> HIDE DEF M
<1>3. M.end \in Nat /\ L.end < M.end /\ 1 <= M.end
  BY <1>1, <1>2
<1>4. \A a \in R \cup {M} : a.end \in Nat /\ 1 <= a.end /\ a.end <= M.end
  <2>1. ASSUME NEW a \in R PROVE a.end \in Nat /\ 1 <= a.end /\ a.end <= M.end
    <3>1. a.end \in Nat /\ 1 <= a.end /\ a.end <= L.end
      BY DEF Chain
    <3> QED BY <1>1, <1>3, <3>1
  <2> QED BY <1>3, <2>1
<1>5. \A a \in R \cup {M} : a # M => \E q \in Records : Applies(d, a, q) /\ After(a, q) \in R \cup {M}
  <2>1. Applies(d, L, r) /\ After(L, r) \in R \cup {M}
    BY DEF M
  <2>2. \A a \in R : a # L => \E q \in Records : Applies(d, a, q) /\ After(a, q) \in R \cup {M}
    BY DEF Chain
  <2> QED BY <2>1, <2>2
<1>6. Chain(d, R \cup {M}, M)
  BY <1>2, <1>4, <1>5 DEF Chain
<1> QED BY <1>1, <1>3, <1>6 DEF M

\* A place of the log holds one record.
LEMMA OneRecord ==
  ASSUME NEW d, NEW at \in Nat, NEW r \in Records, HasRecord(d, at, r)
  PROVE  /\ d[at] = [rec |-> r, part |-> 1]
         /\ at + 2 <= LogEnd
         /\ \A q \in Records : HasRecord(d, at, q) => q = r
<1>1. \A q \in Records : RecordSize(q) \in Nat /\ RecordSize(q) >= 2
  BY RecordFacts
<1>2. \A q \in Records : HasRecord(d, at, q) => d[at + 1 - 1] = [rec |-> q, part |-> 1]
  BY <1>1 DEF HasRecord
<1>3. at + 1 - 1 = at
  OBVIOUS
<1>4. \A q \in Records : HasRecord(d, at, q) => d[at] = [rec |-> q, part |-> 1]
  BY <1>2, <1>3
<1>5. at + RecordSize(r) <= LogEnd /\ LogEnd \in Nat
  BY LogFSAssumption DEF HasRecord, LogEnd
<1>6. at + 2 <= LogEnd
  BY <1>1, <1>5
<1>7. ASSUME NEW q \in Records, HasRecord(d, at, q)  PROVE q = r
  <2>1. d[at] = [rec |-> q, part |-> 1]
    BY <1>4, <1>7
  <2>2. d[at] = [rec |-> r, part |-> 1]
    BY <1>4
  <2>3. [rec |-> q, part |-> 1].rec = q /\ [rec |-> r, part |-> 1].rec = r
    OBVIOUS
  <2> QED BY <2>1, <2>2, <2>3, Zenon
<1> QED BY <1>4, <1>6, <1>7

\* No record starts behind the last point.
LEMMA NothingBehind ==
  ASSUME NEW L, Behind(L), L.end \in Nat, NEW at \in Nat, L.end < at, NEW r \in Records,
         HasRecord(disk, at, r)
  PROVE  FALSE
<1>1. disk[at] = [rec |-> r, part |-> 1] /\ at + 2 <= LogEnd
  BY OneRecord
<1>2. at \in 1 .. LogCells
  BY <1>1, LogFSAssumption DEF LogEnd
<1>3. disk[at].part = 1
  BY <1>1
<1> QED BY <1>2, <1>3 DEF Behind

\* A mount that ends without an error has found what was acknowledged, or that
\* and one operation more.
LEMMA MountFinds ==
  ASSUME IInv, NEW R, NEW L, LogShows(R, L), MountDone
  PROVE  /\ \A r \in Records : ~ (HasRecord(disk, logEnd, r) /\ Accepts(files, segs, r))
         /\ \E a : /\ AtPoint(a)
                   /\ \/ a = L
                      \/ \E r \in Records : Applies(disk, L, r) /\ a = After(L, r) /\ a.view \in maybe
<1>1. ASSUME NEW r \in Records, HasRecord(disk, logEnd, r), Accepts(files, segs, r)
      PROVE  FALSE
  <2>1. logEnd \in Nat /\ 1 <= logEnd /\ LogCells \in Nat
    BY LogFSAssumption DEF IInv, TypeOK, LogEnd
  <2>2. disk[logEnd] = [rec |-> r, part |-> 1] /\ logEnd + 2 <= LogEnd
    BY <1>1, <2>1, OneRecord
  <2>3. disk[logEnd].part = 1 /\ disk[logEnd].rec = r /\ logEnd <= LogCells
    BY <2>1, <2>2 DEF LogEnd
  <2>4. r \in RecordAt(logEnd)
    BY <1>1, <2>3 DEF RecordAt
  <2>5. CreateAccepted(r) \/ AppendAccepted(r)
    BY <1>1 DEF Accepts, CreateAccepted, AppendAccepted, FileIds, NameOf, Owner
  <2> QED BY <2>4, <2>5 DEF MountDone
<1>2. PICK a : AtPoint(a) /\ Passed(R, L, a)
  BY DEF MountDone, LogShows
<1>3. a \in R => a = L
  <2> SUFFICES ASSUME a \in R, a # L PROVE FALSE
    OBVIOUS
  <2>1. PICK r \in Records : Applies(disk, a, r)
    BY DEF LogShows, Chain
  <2> QED BY <1>1, <1>2, <2>1 DEF AtPoint, Applies
<1> QED BY <1>1, <1>2, <1>3 DEF Passed

\* Replaying one record from a point leads to the next.
LEMMA ReplayPasses ==
  ASSUME IInv, NEW R, NEW L, LogShows(R, L), op = Idle, NEW a, AtPoint(a), Passed(R, L, a),
         NEW r \in Records, HasRecord(disk, logEnd, r), Accepts(files, segs, r)
  PROVE  /\ Applies(disk, a, r)
         /\ Passed(R, L, After(a, r))
<1>0. logEnd \in Nat
  BY LogFSAssumption DEF IInv, TypeOK, LogEnd
<1>1. Applies(disk, a, r)
  BY DEF Applies, AtPoint
<1>2. CASE a \in R /\ a # L
  <2>1. PICK q \in Records : Applies(disk, a, q) /\ After(a, q) \in R
    BY <1>2 DEF LogShows, Chain
  <2>2. HasRecord(disk, logEnd, q)
    BY <2>1 DEF Applies, AtPoint
  <2>3. q = r
    BY <1>0, <2>2, OneRecord
  <2> QED BY <1>1, <2>1, <2>3 DEF Passed
<1>3. CASE a = L
  <2>1. After(L, r).view \in maybe
    BY <1>1, <1>3 DEF LogShows, Behind
  <2> QED BY <1>1, <1>3, <2>1 DEF Passed
<1>4. CASE \E q \in Records : Applies(disk, L, q) /\ a = After(L, q)
  <2>1. PICK q \in Records : Applies(disk, L, q) /\ a = After(L, q)
    BY <1>4
  <2>2. a.end \in Nat /\ L.end \in Nat /\ L.end < a.end
    BY <2>1, ChainExtended DEF LogShows
  <2>3. HasRecord(disk, a.end, r)
    BY <1>1 DEF Applies
  <2> QED BY <2>2, <2>3, NothingBehind DEF LogShows
<1> QED BY <1>2, <1>3, <1>4 DEF Passed

\* The record being written is the one at the end of the log, once a block of
\* it is there.
LEMMA WriteTail ==
  ASSUME IInv, TableInv, NEW L, Behind(L), L.end = logEnd, Unfinished,
         NEW r \in Records, HasRecord(Written(Chunk), logEnd, r)
  PROVE  r = op.rec
<1>1. /\ Chunk \in Nat /\ 1 <= Chunk /\ op.done \in Nat /\ op.at = logEnd /\ op.rec \in Records
  BY ChunkFacts DEF IInv
<1>2. logEnd \in Nat /\ 1 <= logEnd /\ LogCells \in Nat
  BY LogFSAssumption DEF IInv, TypeOK, LogEnd
<1>3. Written(Chunk)[logEnd] = [rec |-> r, part |-> 1] /\ logEnd + 2 <= LogEnd
  BY <1>2, OneRecord
<1>4. logEnd \in 1 .. LogCells
  BY <1>2, <1>3 DEF LogEnd
<1>5. Written(Chunk)[logEnd] = [rec |-> op.rec, part |-> 1]
  <2>1. CASE op.done = 0
    <3>1. logEnd >= op.at + op.done /\ logEnd < op.at + op.done + Chunk /\ logEnd - op.at + 1 = 1
      BY <1>1, <1>2, <2>1
    <3> QED BY <1>4, <3>1 DEF Written
  <2>2. CASE op.done # 0
    <3>1. 1 \in 1 .. op.done /\ op.at + 1 - 1 = logEnd /\ ~ (logEnd >= op.at + op.done)
      BY <1>1, <1>2, <2>2
    <3>2. disk[op.at + 1 - 1] = [rec |-> op.rec, part |-> 1]
      BY <3>1 DEF Unfinished, IInv, OpInv
    <3> QED BY <1>4, <3>1, <3>2 DEF Written
  <2> QED BY <2>1, <2>2
<1> DEFINE x == [rec |-> r, part |-> 1]
           y == [rec |-> op.rec, part |-> 1]
<1>6. x.rec = r /\ y.rec = op.rec /\ x = y
  BY <1>3, <1>5
<1> HIDE DEF x, y
<1> QED BY <1>6, Zenon

\* A write behind the last point puts no header anywhere else.
LEMMA WriteHeaders ==
  ASSUME IInv, NEW L, Behind(L), L.end = logEnd, Unfinished,
         NEW c \in 1 .. LogCells, c > logEnd
  PROVE  Written(Chunk)[c].part # 1
<1>1. /\ Chunk \in Nat /\ op.done \in Nat /\ op.at = logEnd
  BY ChunkFacts DEF IInv
<1>2. logEnd \in Nat /\ c \in Nat
  BY LogFSAssumption DEF IInv, TypeOK, LogEnd
<1>3. disk[c].part # 1
  BY DEF Behind
<1>4. c - op.at + 1 # 1
  BY <1>1, <1>2
<1> QED BY <1>3, <1>4 DEF Written

\* Every step keeps DurableInv.
LEMMA DurableStep ==
  ASSUME IInv, TableInv, ReadInv, ReadsShown', IInv', DurableInv, [HNext]_hvars
  PROVE  DurableInv'
<1> SUFFICES ASSUME ~damaged' PROVE \E R, L : LogShows(R, L)'
  BY DEF DurableInv
<1>0. /\ logEnd \in Nat /\ 1 <= logEnd /\ logEnd <= LogEnd /\ segs \in Seq(Segments)
      /\ \A n \in DOMAIN files : files[n] \in [id : 1 .. MaxId, size : 0 .. LogCells]
  BY LogFSAssumption DEF IInv, TypeOK, LogEnd
<1>a. ~damaged
  BY DEF HNext, hvars, vars, MountBegin, ReplayCreate, ReplayAppend, MountDone, MountReadError,
         Create, CreateNoSpace, AppendFile, WriteBlock, WriteFails, FinishCreate, FinishAppend,
         AppendNoSegment, PowerOff
<1>b. PICK R, L : LogShows(R, L)
  BY <1>a DEF DurableInv
<1>c. Chain(disk, R, L) /\ Behind(L) /\ L.view = acked
  BY <1>b DEF LogShows
<1>d. L.end \in Nat
  BY <1>c DEF Chain
<1>1. CASE MountBegin /\ acked' = acked /\ maybe' = maybe
  <2>1. /\ files' = << >> /\ segs' = << >> /\ logEnd' = 1 /\ mode' = "mounting"
        /\ disk' = disk /\ op' = op
    BY <1>1 DEF MountBegin
  <2>2. Shows(disk', << >>, << >>, << >>)
    BY DEF Shows
  <2>3. AtPoint(Start)'
    BY <2>1, <2>2 DEF AtPoint, Start
  <2>4. Passed(R, L, Start)'
    BY <1>c DEF Passed, Chain
  <2>5. Behind(L)'
    BY <1>1, <1>c, <2>1 DEF Behind
  <2> QED BY <1>1, <1>c, <2>1, <2>3, <2>4, <2>5 DEF LogShows
<1>2. CASE (ReplayCreate \/ ReplayAppend) /\ acked' = acked /\ maybe' = maybe
  <2>1. mode = "mounting" /\ disk' = disk /\ mode' = mode /\ op' = op
    BY <1>2, Replayed
  <2>2. PICK r \in Records :
              /\ HasRecord(disk, logEnd, r) /\ Accepts(files, segs, r)
              /\ files' = FilesAfter(files, r)
              /\ segs' = SegsAfter(segs, logEnd, r)
              /\ logEnd' = logEnd + RecordSize(r)
    BY <1>2, Replayed
  <2>3. PICK a : AtPoint(a) /\ Passed(R, L, a)
    BY <1>b, <2>1 DEF LogShows
  <2>4. op = Idle
    BY <2>1 DEF IInv, OpInv
  <2>5. Passed(R, L, After(a, r))
    BY <1>b, <2>2, <2>3, <2>4, ReplayPasses
  <2>6. Shows(disk, SegsAfter(segs, logEnd, r), FilesAfter(files, r), ViewAfter(files, a.view, r))
    BY <1>0, <2>2, <2>3, ShowsAfter DEF AtPoint
  <2>7. /\ After(a, r).files = files' /\ After(a, r).segs = segs' /\ After(a, r).end = logEnd'
        /\ After(a, r).view = ViewAfter(files, a.view, r)
    BY <2>2, <2>3 DEF AtPoint, After
  <2>8. AtPoint(After(a, r))'
    BY <2>1, <2>2, <2>6, <2>7 DEF AtPoint
  <2>9. Passed(R, L, After(a, r))'
    BY <1>2, <2>1, <2>5 DEF Passed
  <2>10. Behind(L)'
    BY <1>2, <1>c, <2>1 DEF Behind
  <2> QED BY <1>2, <1>c, <2>1, <2>8, <2>9, <2>10 DEF LogShows
<1>3. CASE MountDone /\ Mounted
  <2>1. /\ mode = "mounting" /\ mode' = "ready" /\ disk' = disk /\ files' = files /\ segs' = segs
        /\ logEnd' = logEnd /\ op' = op /\ acked' = Contents'
    BY <1>3 DEF MountDone, memory, Mounted
  <2>2. op = Idle /\ op' = Idle
    BY <2>1 DEF IInv, OpInv
  <2>3. WithoutFailed' = files
    BY <2>1, <2>2 DEF WithoutFailed, Idle, NoRec
  <2>4. \A r \in Records : ~ (HasRecord(disk, logEnd, r) /\ Accepts(files, segs, r))
    BY <1>3, <1>b, MountFinds
  <2>5. PICK a : /\ AtPoint(a)
                 /\ \/ a = L
                    \/ \E r \in Records : Applies(disk, L, r) /\ a = After(L, r)
    BY <1>3, <1>b, MountFinds
  <2>6. acked' = a.view
    <3>1. Shows(disk', segs', files', a.view)
      BY <2>1, <2>5 DEF AtPoint
    <3> QED BY <2>1, <3>1 DEF ReadsShown
  <2>7. CASE a = L
    <3>1. Behind(L)'
      <4>1. \A r \in Records : ~ Applies(disk, L, r)
        BY <2>4, <2>5, <2>7 DEF Applies, AtPoint
      <4> QED BY <1>c, <2>1, <4>1 DEF Behind
    <3> QED BY <1>c, <2>1, <2>3, <2>5, <2>6, <2>7, <3>1 DEF LogShows, AtPoint
  <2>8. CASE \E r \in Records : Applies(disk, L, r) /\ a = After(L, r)
    <3>1. PICK r \in Records : Applies(disk, L, r) /\ a = After(L, r)
      BY <2>8
    <3>2. /\ Chain(disk, R \cup {a}, a) /\ a.end \in Nat /\ L.end < a.end
      BY <1>c, <3>1, ChainExtended
    <3>3. Behind(a)'
      <4>1. \A c \in 1 .. LogCells : c > a.end => disk[c].part # 1
        <5>1. \A c \in 1 .. LogCells : c > a.end => c > L.end
          BY <1>d, <3>2, LogFSAssumption
        <5> QED BY <1>c, <5>1 DEF Behind
      <4>2. \A q \in Records : ~ Applies(disk, a, q)
        BY <2>4, <2>5 DEF Applies, AtPoint
      <4> QED BY <2>1, <4>1, <4>2 DEF Behind
    <3>4. LogShows(R \cup {a}, a)'
      BY <2>1, <2>3, <2>5, <2>6, <3>2, <3>3 DEF LogShows, AtPoint
    <3> QED BY <3>4
  <2> QED BY <2>5, <2>7, <2>8
<1>4. CASE MountReadError
  BY <1>4 DEF MountReadError
<1>5. ASSUME NEW n \in Names, Create(n), acked' = acked, maybe' = maybe
      PROVE  LogShows(R, L)'
  <2>1. /\ mode = "ready" /\ op = Idle /\ n \notin DOMAIN files
        /\ files' = AddFile(n, [id |-> nextId, size |-> 0])
        /\ op'.rec.type = "create" /\ op'.name = n
        /\ disk' = disk /\ mode' = mode /\ segs' = segs /\ logEnd' = logEnd
    BY <1>5 DEF Create, Writing, CreateRec
  <2>2. WithoutFailed' = [m \in DOMAIN files' \ {n} |-> files'[m]]
    BY <2>1 DEF WithoutFailed
  <2>3. DOMAIN files' \ {n} = DOMAIN files /\ \A m \in DOMAIN files : files'[m] = files[m]
    BY <2>1 DEF AddFile
  <2>4. WithoutFailed' = files
    BY <2>2, <2>3 DEF TableInv
  <2>5. WithoutFailed = files
    BY <2>1, WithoutFacts
  <2>6. Behind(L)'
    BY <1>5, <1>c, <2>1 DEF Behind
  <2> QED BY <1>5, <1>b, <1>c, <2>1, <2>4, <2>5, <2>6 DEF LogShows
<1>6. ASSUME NEW n \in Names, CreateNoSpace(n), acked' = acked, maybe' = maybe
      PROVE  LogShows(R, L)'
  <2>1. /\ mode = "ready" /\ disk' = disk /\ mode' = mode /\ files' = files /\ segs' = segs
        /\ op' = op /\ logEnd' = logEnd
    BY <1>6 DEF CreateNoSpace
  <2>2. WithoutFailed' = WithoutFailed
    BY <2>1 DEF WithoutFailed
  <2>3. Behind(L)'
    BY <1>6, <1>c, <2>1 DEF Behind
  <2> QED BY <1>6, <1>b, <1>c, <2>1, <2>2, <2>3 DEF LogShows
<1>7. ASSUME NEW n \in Names, NEW d \in Payloads, AppendFile(n, d), acked' = acked, maybe' = maybe
      PROVE  LogShows(R, L)'
  <2>1. /\ mode = "ready" /\ op = Idle /\ op'.rec.type = "append"
        /\ disk' = disk /\ mode' = mode /\ segs' = segs /\ files' = files /\ logEnd' = logEnd
    BY <1>7 DEF AppendFile, Writing, AppendRec, memory
  <2>2. WithoutFailed' = files /\ WithoutFailed = files
    BY <2>1, WithoutFacts DEF WithoutFailed
  <2>3. Behind(L)'
    BY <1>7, <1>c, <2>1 DEF Behind
  <2> QED BY <1>7, <1>b, <1>c, <2>1, <2>2, <2>3 DEF LogShows
<1>8. CASE WriteBlock /\ acked' = acked /\ maybe' = maybe
  <2>1. /\ Unfinished /\ op # Idle /\ mode' = mode /\ segs' = segs /\ files' = files
        /\ logEnd' = logEnd /\ disk' = Written(Chunk) /\ op' = [op EXCEPT !.done = @ + Chunk]
    BY <1>8 DEF WriteBlock, memory, Unfinished
  <2>2. mode = "ready" /\ L.end = logEnd
    BY <1>b, <2>1 DEF IInv, OpInv, LogShows
  <2>3. op'.rec = op.rec /\ op'.name = op.name
    BY <2>1, WithoutFacts
  <2>4. op' # Idle
    <3>1. op.rec \in Records
      BY <2>1, WithoutFacts
    <3>2. op.rec.type \in {"create", "append"}
      BY <2>1, WithoutFacts
    <3>3. Idle.rec.type = "none"
      BY DEF Idle, NoRec
    <3> QED BY <2>3, <3>2, <3>3
  <2>5. WithoutFailed' = WithoutFailed
    BY <2>1, <2>3 DEF WithoutFailed
  <2>6. Chain(disk', R, L)
    <3>1. \A c \in 1 .. LogCells : c < L.end => disk'[c] = disk[c]
      BY <2>1, <2>2, WrittenFacts DEF IInv
    <3> QED BY <1>c, <3>1, ChainKept
  <2>7. Behind(L)'
    <3>1. \A c \in 1 .. LogCells : c > L.end => disk'[c].part # 1
      BY <1>c, <2>1, <2>2, WriteHeaders
    <3>2. \A r \in Records : Applies(disk', L, r) => r = op.rec
      BY <1>c, <2>1, <2>2, WriteTail DEF Applies
    <3> QED BY <2>3, <2>4, <3>1, <3>2 DEF Behind
  <2> QED BY <1>8, <1>b, <1>c, <2>1, <2>2, <2>5, <2>6, <2>7 DEF LogShows
<1>9. CASE WriteFails /\ NotTold
  <2>1. /\ Unfinished /\ op # Idle /\ mode' = mode /\ segs' = segs /\ files' = WithoutFailed
        /\ logEnd' = logEnd /\ disk' \in {disk, Written(Chunk)} /\ op' = Idle
        /\ acked' = acked /\ maybe' = maybe \cup {Abstract!Apply(acked, Cur)}
    BY <1>9 DEF WriteFails, Unfinished, NotTold, CanHaveHappened
  <2>2. /\ mode = "ready" /\ L.end = logEnd /\ L.files = WithoutFailed /\ L.segs = segs
    BY <1>b, <2>1 DEF IInv, OpInv, LogShows
  <2>3. After(L, op.rec).view \in maybe'
    <3>1. Shows(disk, segs, WithoutFailed, acked)
      BY <2>2 DEF ReadInv
    <3>2. Abstract!Apply(acked, Cur) = ViewAfter(WithoutFailed, acked, op.rec)
      BY <2>1, <3>1, ToldView
    <3> QED BY <1>c, <2>1, <2>2, <3>2 DEF After
  <2>4. Chain(disk', R, L)
    <3>1. \A c \in 1 .. LogCells : c < L.end => disk'[c] = disk[c]
      BY <2>1, <2>2, WrittenFacts DEF IInv
    <3> QED BY <1>c, <3>1, ChainKept
  <2>5. Behind(L)'
    <3>1. \A c \in 1 .. LogCells : c > L.end => disk'[c].part # 1
      <4>1. CASE disk' = disk
        BY <1>c, <4>1 DEF Behind
      <4>2. CASE disk' = Written(Chunk)
        BY <1>c, <2>1, <2>2, <4>2, WriteHeaders
      <4> QED BY <2>1, <4>1, <4>2
    <3>2. ASSUME NEW r \in Records, Applies(disk', L, r)  PROVE After(L, r).view \in maybe'
      <4>1. CASE disk' = disk
        <5>1. After(L, r).view \in maybe \/ r = op.rec
          BY <1>c, <3>2, <4>1 DEF Behind
        <5> QED BY <2>1, <2>3, <5>1
      <4>2. CASE disk' = Written(Chunk)
        <5>1. r = op.rec
          BY <1>c, <2>1, <2>2, <3>2, <4>2, WriteTail DEF Applies
        <5> QED BY <2>3, <5>1
      <4> QED BY <2>1, <4>1, <4>2
    <3> QED BY <3>1, <3>2 DEF Behind
  <2>6. WithoutFailed' = files'
    BY <2>1 DEF WithoutFailed, Idle, NoRec
  <2> QED BY <1>b, <1>c, <2>1, <2>2, <2>4, <2>5, <2>6 DEF LogShows
<1>10. CASE (FinishCreate \/ FinishAppend) /\ Told
  <2>0. PICK r : r = op.rec
    OBVIOUS
  <2>m. PICK M : M = After(L, r)
    OBVIOUS
  <2>1. /\ op # Idle /\ r \in Records
        /\ mode = "ready" /\ disk' = disk /\ mode' = mode /\ op' = Idle
        /\ HasRecord(disk, logEnd, r)
        /\ Accepts(WithoutFailed, segs, r)
        /\ files' = FilesAfter(WithoutFailed, r)
        /\ segs' = SegsAfter(segs, logEnd, r)
        /\ logEnd' = logEnd + RecordSize(r)
    BY <1>10, <2>0, Finished
  <2>2. L.files = WithoutFailed /\ L.segs = segs /\ L.end = logEnd
    BY <1>b, <2>1 DEF LogShows
  <2>3. Applies(disk, L, r)
    BY <2>1, <2>2 DEF Applies
  <2>4. acked' = ViewAfter(WithoutFailed, acked, r) /\ maybe' = {}
    BY <1>10, <2>0, <2>1, ToldView DEF Told, ReadInv
  <2>5. M.files = files' /\ M.segs = segs' /\ M.end = logEnd' /\ M.view = acked'
    BY <1>c, <2>1, <2>2, <2>4, <2>m DEF After
  <2>6. WithoutFailed' = files'
    BY <2>1 DEF WithoutFailed, Idle, NoRec
  <2>7. Chain(disk, R \cup {M}, M) /\ M.end \in Nat /\ L.end < M.end
    BY <1>c, <2>1, <2>3, <2>m, ChainExtended
  <2>8. Behind(M)'
    <3>1. \A c \in 1 .. LogCells : c > M.end => disk[c].part # 1
      <4>1. \A c \in 1 .. LogCells : c > M.end => c > L.end
        BY <1>d, <2>7, LogFSAssumption
      <4> QED BY <1>c, <4>1 DEF Behind
    <3>2. \A q \in Records : ~ Applies(disk, M, q)
      BY <1>c, <1>d, <2>7, NothingBehind DEF Applies
    <3> QED BY <2>1, <3>1, <3>2 DEF Behind
  <2>9. LogShows(R \cup {M}, M)'
    BY <2>1, <2>5, <2>6, <2>7, <2>8 DEF LogShows
  <2> QED BY <2>9
<1>11. CASE AppendNoSegment
  BY <1>11 DEF AppendNoSegment
<1>12. CASE PowerOff /\ NotTold
  <2>1. /\ mode # "down" /\ mode' = "down" /\ op' = Idle /\ disk' = disk
        /\ acked' = acked /\ maybe' = maybe \cup {Abstract!Apply(acked, Cur)}
    BY <1>12 DEF PowerOff, NotTold, CanHaveHappened
  <2>2. ASSUME op # Idle  PROVE After(L, op.rec).view \in maybe'
    <3>1. mode = "ready" /\ L.files = WithoutFailed
      BY <1>b, <2>2 DEF IInv, OpInv, LogShows
    <3>2. Shows(disk, segs, WithoutFailed, acked)
      BY <3>1 DEF ReadInv
    <3>3. Abstract!Apply(acked, Cur) = ViewAfter(WithoutFailed, acked, op.rec)
      BY <2>2, <3>2, ToldView
    <3> QED BY <1>c, <2>1, <3>1, <3>3 DEF After
  <2>3. Behind(L)'
    <3>1. ASSUME NEW r \in Records, Applies(disk, L, r)  PROVE After(L, r).view \in maybe'
      <4>1. After(L, r).view \in maybe \/ (op # Idle /\ r = op.rec)
        BY <1>c, <3>1 DEF Behind
      <4> QED BY <2>1, <2>2, <4>1
    <3> QED BY <1>c, <2>1, <3>1 DEF Behind
  <2> QED BY <1>c, <2>1, <2>3 DEF LogShows
<1>13. CASE UNCHANGED hvars
  <2>1. /\ disk' = disk /\ mode' = mode /\ files' = files /\ segs' = segs /\ op' = op
        /\ logEnd' = logEnd /\ acked' = acked /\ maybe' = maybe
    BY <1>13 DEF hvars, vars
  <2>2. WithoutFailed' = WithoutFailed
    BY <2>1 DEF WithoutFailed
  <2>3. Behind(L)'
    BY <1>c, <2>1 DEF Behind
  <2>4. mode = "mounting" => \E a : (AtPoint(a) /\ Passed(R, L, a))'
    BY <1>b, <2>1 DEF LogShows, AtPoint, Passed
  <2> QED BY <1>b, <1>c, <2>1, <2>2, <2>3, <2>4 DEF LogShows
<1> QED BY <1>1, <1>2, <1>3, <1>4, <1>5, <1>6, <1>7, <1>8, <1>9, <1>10, <1>11, <1>12, <1>13
        DEF HNext

\* A replay of an undamaged log leads to what was acknowledged, in every
\* reachable state.
LEMMA DurableInvariant == HSpec => []DurableInv
<1>1. HInit => DurableInv
  <2> SUFFICES ASSUME HInit PROVE LogShows({Start}, Start)
    BY DEF DurableInv
  <2>1. /\ disk = [c \in 1 .. LogCells |-> Zero] /\ mode = "down" /\ acked = << >>
    BY DEF HInit, Init
  <2>2. Start.end = 1 /\ Start.view = << >> /\ LogEnd \in Nat /\ 1 <= LogEnd
    BY LogFSAssumption DEF Start, LogEnd
  <2>3. Chain(disk, {Start}, Start)
    BY <2>2 DEF Chain
  <2>4. \A c \in 1 .. LogCells : disk[c].part # 1
    BY <2>1 DEF Zero
  <2>5. ASSUME NEW r \in Records, Applies(disk, Start, r)  PROVE FALSE
    <3>1. HasRecord(disk, Start.end, r) /\ Start.end \in Nat
      BY <2>2, <2>5 DEF Applies
    <3>2. disk[Start.end] = [rec |-> r, part |-> 1] /\ Start.end + 2 <= LogEnd
      BY <3>1, OneRecord
    <3>3. Start.end \in 1 .. LogCells
      BY <2>2, <3>2, LogFSAssumption DEF LogEnd
    <3> QED BY <2>4, <3>2, <3>3
  <2>6. Behind(Start)
    BY <2>4, <2>5 DEF Behind
  <2> QED BY <2>1, <2>2, <2>3, <2>6 DEF LogShows
<1>2. /\ IInv /\ IInv' /\ ReadsShown' /\ TableInv /\ ReadInv /\ DurableInv /\ [HNext]_hvars
      => DurableInv'
  BY DurableStep
<1>3. HSpec => []IInv
  BY HSpecIsSpec, LogInvariant, PTL
<1> QED BY <1>1, <1>2, <1>3, AlwaysReadsShown, ReadInvariant, PTL DEF HSpec

\* Every step of the log file system is a step of DurableFiles, or changes
\* nothing a caller sees.
LEMMA DurableSimulation ==
  ASSUME IInv, IInv', TableInv, ReadInv, ReadsShown', DurableInv, [HNext]_hvars
  PROVE  [Abstract!DNext]_(Abstract!dvars)
<1>0. damaged \in BOOLEAN /\ damaged' \in BOOLEAN
  BY DEF IInv, TypeOK
<1>1. ASSUME mode' = mode \/ (mode # "ready" /\ mode' # "ready"), op' = op, damaged' = damaged,
             acked' = acked, maybe' = maybe
      PROVE  UNCHANGED Abstract!dvars
  <2>1. Cur' = Cur
    BY <1>1 DEF Cur
  <2>2. (mode = "ready")' = (mode = "ready")
    BY <1>1
  <2> QED BY <1>1, <2>1, <2>2 DEF Abstract!dvars
<1>2. CASE MountBegin /\ acked' = acked /\ maybe' = maybe
  BY <1>1, <1>2 DEF MountBegin
<1>3. CASE (ReplayCreate \/ ReplayAppend) /\ acked' = acked /\ maybe' = maybe
  BY <1>1, <1>3, Replayed
<1>4. CASE (MountDone \/ MountReadError) /\ Mounted
  <2>1. /\ mode = "mounting" /\ mode' = "ready" /\ disk' = disk /\ files' = files /\ segs' = segs
        /\ op' = op /\ acked' = Contents' /\ maybe' = {}
    BY <1>4 DEF MountDone, MountReadError, memory, Mounted
  <2>2. Cur' = Cur
    BY <2>1 DEF Cur
  <2>3. ASSUME ~damaged'  PROVE ~damaged /\ acked' \in {acked} \cup maybe
    <3>1. MountDone /\ ~damaged
      BY <1>4, <2>3 DEF MountDone, MountReadError
    <3>2. PICK R, L : LogShows(R, L)
      BY <3>1 DEF DurableInv
    <3>3. PICK a : /\ AtPoint(a)
                   /\ \/ a = L
                      \/ \E r \in Records : Applies(disk, L, r) /\ a = After(L, r) /\ a.view \in maybe
      BY <3>1, <3>2, MountFinds
    <3>4. Shows(disk', segs', files', a.view)
      BY <2>1, <3>3 DEF AtPoint
    <3>5. acked' = a.view
      BY <2>1, <3>4 DEF ReadsShown
    <3>6. L.view = acked
      BY <3>2 DEF LogShows
    <3> QED BY <3>1, <3>3, <3>5, <3>6
  <2>4. (~damaged)' \in {~damaged, FALSE}
    BY <1>0, <2>3
  <2>5. Abstract!Recover
    BY <2>1, <2>2, <2>3, <2>4 DEF Abstract!Recover
  <2> QED BY <2>5 DEF Abstract!DNext
<1>5. ASSUME NEW n \in Names, Create(n), acked' = acked, maybe' = maybe
      PROVE  Abstract!DNext
  <2>1. /\ mode = "ready" /\ op = Idle /\ n \notin DOMAIN files /\ mode' = mode /\ damaged' = damaged
        /\ op'.rec.type = "create" /\ op'.name = n
    BY <1>5 DEF Create, Writing, CreateRec
  <2>2. Cur = Abstract!NoOp
    BY <2>1 DEF Cur, Abstract!NoOp
  <2>3. Cur' = Abstract!CreateOp(n)
    <3>1. op' # Idle
      BY <2>1 DEF Idle, NoRec
    <3> QED BY <2>1, <3>1 DEF Cur, Abstract!CreateOp
  <2>4. n \in Names \ DOMAIN acked
    <3>1. Shows(disk, segs, files, acked)
      BY <2>1, WithoutFacts DEF ReadInv
    <3> QED BY <2>1, <3>1 DEF Shows
  <2>5. Abstract!Legal(acked, Abstract!CreateOp(n))
    BY <2>4 DEF Abstract!Legal
  <2>6. Abstract!Begin(Abstract!CreateOp(n))
    BY <1>5, <2>1, <2>2, <2>3, <2>5 DEF Abstract!Begin
  <2> QED BY <2>6 DEF Abstract!DNext
<1>6. ASSUME NEW n \in Names, CreateNoSpace(n), acked' = acked, maybe' = maybe
      PROVE  UNCHANGED Abstract!dvars
  BY <1>1, <1>6 DEF CreateNoSpace
<1>7. ASSUME NEW n \in Names, NEW d \in Payloads, AppendFile(n, d), acked' = acked, maybe' = maybe
      PROVE  Abstract!DNext
  <2>1. /\ mode = "ready" /\ op = Idle /\ n \in DOMAIN files /\ mode' = mode /\ damaged' = damaged
        /\ op'.rec.type = "append" /\ op'.name = n /\ op'.rec.data = d
    BY <1>7 DEF AppendFile, Writing, AppendRec
  <2>2. Cur = Abstract!NoOp
    BY <2>1 DEF Cur, Abstract!NoOp
  <2>3. Cur' = Abstract!AppendOp(n, d)
    <3>1. op' # Idle
      BY <2>1 DEF Idle, NoRec
    <3> QED BY <2>1, <3>1 DEF Cur, Abstract!AppendOp
  <2>4. n \in DOMAIN acked
    <3>1. Shows(disk, segs, files, acked)
      BY <2>1, WithoutFacts DEF ReadInv
    <3> QED BY <2>1, <3>1 DEF Shows
  <2>5. Abstract!Legal(acked, Abstract!AppendOp(n, d))
    BY <2>4 DEF Abstract!Legal
  <2>6. Abstract!Begin(Abstract!AppendOp(n, d))
    BY <1>7, <2>1, <2>2, <2>3, <2>5 DEF Abstract!Begin
  <2> QED BY <2>6 DEF Abstract!DNext
<1>8. CASE WriteBlock /\ acked' = acked /\ maybe' = maybe
  <2>1. op # Idle /\ op' = [op EXCEPT !.done = @ + Chunk] /\ mode' = mode /\ damaged' = damaged
    BY <1>8 DEF WriteBlock, Unfinished
  <2>2. op'.rec = op.rec /\ op'.name = op.name /\ op.rec.type \in {"create", "append"}
    BY <2>1, WithoutFacts
  <2>3. op' # Idle
    BY <2>2 DEF Idle, NoRec
  <2>4. Cur' = Cur
    BY <2>1, <2>2, <2>3 DEF Cur
  <2> QED BY <1>8, <2>1, <2>4 DEF Abstract!dvars
<1>a. ASSUME op # Idle  PROVE Cur # Abstract!NoOp
  <2>1. op.rec.type \in {"create", "append"}
    BY <1>a, WithoutFacts
  <2>2. Cur.kind # "none"
    BY <1>a, <2>1 DEF Cur
  <2> QED BY <2>2 DEF Abstract!NoOp
<1>b. ASSUME op' = Idle  PROVE Cur' = Abstract!NoOp
  BY <1>b DEF Cur, Abstract!NoOp
<1>9. CASE (FinishCreate \/ FinishAppend) /\ Told
  <2>1. op # Idle /\ op' = Idle /\ mode' = mode /\ damaged' = damaged
    BY <1>9, Finished
  <2>2. Abstract!Ack
    BY <1>9, <1>a, <1>b, <2>1 DEF Abstract!Ack, Told
  <2> QED BY <2>2 DEF Abstract!DNext
<1>10. CASE (WriteFails \/ AppendNoSegment) /\ NotTold
  <2>1. op # Idle /\ op' = Idle /\ mode' = mode /\ (damaged' = damaged \/ damaged' = TRUE)
    BY <1>10 DEF WriteFails, AppendNoSegment, Unfinished, Complete
  <2>2. (~damaged)' \in {~damaged, FALSE}
    BY <1>0, <2>1
  <2>3. Abstract!Fail
    BY <1>10, <1>a, <1>b, <2>1, <2>2 DEF Abstract!Fail, NotTold, CanHaveHappened
  <2> QED BY <2>3 DEF Abstract!DNext
<1>11. CASE PowerOff /\ NotTold
  <2>1. mode' = "down" /\ op' = Idle /\ damaged' = damaged
    BY <1>11 DEF PowerOff
  <2>2. Abstract!Crash
    BY <1>11, <1>b, <2>1 DEF Abstract!Crash, NotTold, CanHaveHappened
  <2> QED BY <2>2 DEF Abstract!DNext
<1>12. CASE UNCHANGED hvars
  BY <1>1, <1>12 DEF hvars, vars
<1> QED BY <1>2, <1>3, <1>4, <1>5, <1>6, <1>7, <1>8, <1>9, <1>10, <1>11, <1>12 DEF HNext

\* The log file system implements DurableFiles: whatever write fails and
\* wherever the machine stops, a mount of an undamaged log finds every
\* acknowledged create and append, and at most one operation more, entirely.
THEOREM ImplementsDurableFiles == HSpec => Durable
<1>1. HInit => Abstract!DInit
  <2> SUFFICES ASSUME HInit PROVE Abstract!DInit
    OBVIOUS
  <2>1. acked = << >> /\ maybe = {} /\ op = Idle /\ mode = "down" /\ damaged = FALSE
    BY DEF HInit, Init
  <2>2. Cur = Abstract!NoOp
    BY <2>1 DEF Cur, Abstract!NoOp
  <2> QED BY <2>1, <2>2 DEF Abstract!DInit
<1>2. /\ IInv /\ IInv' /\ ReadsShown' /\ TableInv /\ ReadInv /\ DurableInv /\ [HNext]_hvars
      => [Abstract!DNext]_(Abstract!dvars)
  BY DurableSimulation
<1>3. HSpec => []IInv
  BY HSpecIsSpec, LogInvariant, PTL
<1>4. HSpec => Abstract!DSpec
  BY <1>1, <1>2, <1>3, AlwaysReadsShown, ReadInvariant, DurableInvariant, PTL
     DEF HSpec, Abstract!DSpec
<1> QED BY <1>4 DEF Durable

============================================================================

------------------------------- MODULE LogFS -------------------------------
(***************************************************************************)
(* The log-structured file system of fs/logfs.c on a block device that     *)
(* writes one block at a time, with write and read errors and with a crash *)
(* at any point.                                                           *)
(*                                                                         *)
(* The log is an array of cells.  A record is a header cell followed by    *)
(* its payload cells; a cell of the disk holds one part of one record, or  *)
(* nothing (Zero).  The checksum is modelled by what it is for: a record   *)
(* is accepted only when every one of its parts is in its place.           *)
(***************************************************************************)
EXTENDS Integers, Sequences, FiniteSets

CONSTANTS
  Names,         \* file names
  Payloads,      \* byte sequences to append, none empty
  LogCells,      \* cells of the log (superblock.block_count * block_size - log_offset)
  BlockCells,    \* cells of a device block
  MAX_FILES,     \* LOGFS_MAX_FILES
  MAX_SEGMENTS,  \* LOGFS_MAX_SEGMENTS
  MaxId          \* bound on file ids; the code's are 32 bits wide

\* A log of whole cells; data is never empty, and no file is called "none".
ASSUME LogFSAssumption ==
  /\ LogCells \in Nat \ {0}
  /\ BlockCells \in Nat \ {0}
  /\ MAX_FILES \in Nat
  /\ MAX_SEGMENTS \in Nat
  /\ MaxId \in Nat
  /\ "none" \notin Names
  /\ \A d \in Payloads : d \in Seq(Nat) /\ d # << >>

VARIABLES
  disk,     \* the log's cells on the device
  mode,     \* "down", "mounting" or "ready" (logfs_ready)
  files,    \* logfs_files: name -> [id, size]
  segs,     \* logfs_segments
  nextId,   \* logfs_next_file_id
  logEnd,   \* logfs_log_end
  op,       \* the record being written: [rec, at, done, name], or Idle
  damaged   \* history: a record was left that no mount accepts, or a mount
            \* stopped at a read error

memory == <<files, segs, nextId, logEnd>>
vars == <<disk, mode, files, segs, nextId, logEnd, op, damaged>>

NoRec == [type |-> "none", id |-> 0, name |-> "none", before |-> 0, data |-> << >>]
Zero == [rec |-> NoRec, part |-> 0]
Idle == [rec |-> NoRec, at |-> 0, done |-> 0, name |-> "none"]

CreateRec(id, n) == [type |-> "create", id |-> id, name |-> n, before |-> 0, data |-> << >>]
AppendRec(id, before, d) ==
  [type |-> "append", id |-> id, name |-> "none", before |-> before, data |-> d]

\* The cells of a record: the header, then the file name or the data.
RecordSize(r) == IF r.type = "create" THEN 2 ELSE 1 + Len(r.data)

LogEnd == LogCells + 1

\* logfs_read_bytes of a record at offset at: all its parts are there.
HasRecord(d, at, r) ==
  /\ at + RecordSize(r) <= LogEnd
  /\ \A i \in 1 .. RecordSize(r) : d[at + i - 1] = [rec |-> r, part |-> i]

\* logfs_find_file_state, logfs_find_file_id
FileIds == {files[n].id : n \in DOMAIN files}
NameOf(id) == CHOOSE n \in DOMAIN files : files[n].id = id

----------------------------------------------------------------------------
(* Mounting *)

Cleared ==
  /\ files = << >>
  /\ segs = << >>
  /\ nextId = 1
  /\ logEnd = 1

\* logfs_mount up to its loop: the memory is cleared and the superblock read.
\* (When the superblock cannot be read the mount fails and nothing is mounted.)
MountBegin ==
  /\ mode = "down"
  /\ mode' = "mounting"
  /\ files' = << >> /\ segs' = << >> /\ nextId' = 1 /\ logEnd' = 1
  /\ UNCHANGED <<disk, op, damaged>>

\* logfs_replay_create accepts the record.
CreateAccepted(r) ==
  /\ r.type = "create"
  /\ r.name \notin DOMAIN files
  /\ r.id \notin FileIds
  /\ Cardinality(DOMAIN files) < MAX_FILES

\* logfs_replay_append accepts the record.
AppendAccepted(r) ==
  /\ r.type = "append"
  /\ r.id \in FileIds
  /\ files[NameOf(r.id)].size = r.before
  /\ Len(segs) < MAX_SEGMENTS

\* Mutation: the segment points at the record instead of its payload.
SegmentAtHeader(r, at) == [id |-> r.id, off |-> r.before, size |-> Len(r.data), at |-> at]

\* logfs_add_segment: where the data of an append record lies.
Segment(r, at) == [id |-> r.id, off |-> r.before, size |-> Len(r.data), at |-> at + 1]

AddFile(n, f) == [m \in DOMAIN files \cup {n} |-> IF m = n THEN f ELSE files[m]]

\* Mutation: the record's parts are not verified past the header.
RecordAtHeaderOnly(at) ==
  IF at <= LogCells /\ disk[at].part = 1 /\ at + RecordSize(disk[at].rec) <= LogEnd
    THEN {disk[at].rec} ELSE {}

\* The record a read at offset at yields, if its checksum is right: a set of
\* at most one record.
RecordAt(at) ==
  IF at <= LogCells /\ disk[at].part = 1 /\ HasRecord(disk, at, disk[at].rec)
    THEN {disk[at].rec} ELSE {}

\* Mutation: the id counter is not moved past the ids seen in the log.
NextIdAfterKept(r) == nextId

\* logfs_next_file_id after replaying a create.
NextIdAfter(r) == IF r.id >= nextId THEN r.id + 1 ELSE nextId

\* logfs_replay_record of an acceptable create.
ReplayCreate ==
  /\ mode = "mounting"
  /\ \E r \in RecordAt(logEnd) :
       /\ CreateAccepted(r)
       /\ files' = AddFile(r.name, [id |-> r.id, size |-> 0])
       /\ nextId' = NextIdAfter(r)
       /\ logEnd' = logEnd + RecordSize(r)
  /\ UNCHANGED <<disk, mode, segs, op, damaged>>

\* logfs_replay_record of an acceptable append.
ReplayAppend ==
  /\ mode = "mounting"
  /\ \E r \in RecordAt(logEnd) :
       /\ AppendAccepted(r)
       /\ files' = [files EXCEPT ![NameOf(r.id)].size = @ + Len(r.data)]
       /\ segs' = Append(segs, Segment(r, logEnd))
       /\ logEnd' = logEnd + RecordSize(r)
  /\ UNCHANGED <<disk, mode, nextId, op, damaged>>

\* The loop of logfs_mount ends: the log is full, a zero or a bad record is
\* next, or a record that cannot be applied.
MountDone ==
  /\ mode = "mounting"
  /\ \A r \in RecordAt(logEnd) : ~CreateAccepted(r) /\ ~AppendAccepted(r)
  /\ mode' = "ready"
  /\ UNCHANGED <<disk, memory, op, damaged>>

\* A read error ends the loop in the same way: the records from here on are
\* cut off.
MountReadError ==
  /\ mode = "mounting"
  /\ RecordAt(logEnd) # {}
  /\ mode' = "ready"
  /\ damaged' = TRUE
  /\ UNCHANGED <<disk, memory, op>>

----------------------------------------------------------------------------
(* Operations *)

\* The record ends before the end of the log.
Fits(r) == logEnd + RecordSize(r) <= LogEnd

Writing(r, n) == [rec |-> r, at |-> logEnd, done |-> 0, name |-> n]

\* logfs_create: the file is entered in the table and takes an id, then its
\* record is appended to the log, if there is room for it.
Create(n) ==
  /\ mode = "ready" /\ op = Idle
  /\ n \notin DOMAIN files
  /\ Cardinality(DOMAIN files) < MAX_FILES
  /\ nextId <= MaxId
  /\ Fits(CreateRec(nextId, n))
  /\ files' = AddFile(n, [id |-> nextId, size |-> 0])
  /\ nextId' = nextId + 1
  /\ op' = Writing(CreateRec(nextId, n), n)
  /\ UNCHANGED <<disk, mode, segs, logEnd, damaged>>

\* logfs_create when the log is full: the entry is taken back, the id is not.
CreateNoSpace(n) ==
  /\ mode = "ready" /\ op = Idle
  /\ n \notin DOMAIN files
  /\ Cardinality(DOMAIN files) < MAX_FILES
  /\ nextId <= MaxId
  /\ ~Fits(CreateRec(nextId, n))
  /\ nextId' = nextId + 1
  /\ UNCHANGED <<disk, mode, files, segs, logEnd, op, damaged>>

\* logfs_append: the record is appended to the log, if there is room for it.
AppendFile(n, d) ==
  /\ mode = "ready" /\ op = Idle
  /\ n \in DOMAIN files
  /\ Fits(AppendRec(files[n].id, files[n].size, d))
  /\ op' = Writing(AppendRec(files[n].id, files[n].size, d), n)
  /\ UNCHANGED <<disk, mode, memory, damaged>>

\* The cells of the record that one write_blocks call of logfs_write_bytes
\* covers: from done up to the end of a device block or of the record.
Chunk ==
  LET start == op.at + op.done
      room  == BlockCells - ((start - 1) % BlockCells)
      left  == RecordSize(op.rec) - op.done
  IN  IF room < left THEN room ELSE left

\* Mutation: the write starts one cell early.
WrittenEarly(k) ==
  [c \in 1 .. LogCells |->
     IF c >= op.at + op.done - 1 /\ c < op.at + op.done + k - 1
       THEN [rec |-> op.rec, part |-> c - op.at + 2] ELSE disk[c]]

\* The disk with the next k cells of the record written.
Written(k) ==
  [c \in 1 .. LogCells |->
     IF c >= op.at + op.done /\ c < op.at + op.done + k
       THEN [rec |-> op.rec, part |-> c - op.at + 1] ELSE disk[c]]

Unfinished == op # Idle /\ op.done < RecordSize(op.rec)

\* One block of logfs_write_bytes.
WriteBlock ==
  /\ Unfinished
  /\ disk' = Written(Chunk)
  /\ op' = [op EXCEPT !.done = @ + Chunk]
  /\ UNCHANGED <<mode, memory, damaged>>

\* The file table after a failed logfs_append_record: logfs_create takes its
\* entry back.
WithoutFailed ==
  IF op.rec.type = "create"
    THEN [n \in DOMAIN files \ {op.name} |-> files[n]] ELSE files

\* A block is refused: the operation fails.  The device may have stored it.
WriteFails ==
  /\ Unfinished
  /\ disk' \in {disk, Written(Chunk)}
  /\ files' = WithoutFailed
  /\ op' = Idle
  /\ UNCHANGED <<mode, segs, nextId, logEnd, damaged>>

Complete == op # Idle /\ op.done = RecordSize(op.rec)

\* The record is written: logfs_create returns 0.
FinishCreate ==
  /\ Complete
  /\ op.rec.type = "create"
  /\ logEnd' = logEnd + RecordSize(op.rec)
  /\ op' = Idle
  /\ UNCHANGED <<disk, mode, files, segs, nextId, damaged>>

\* Mutation: the size in the file table is not moved.
FinishAppendSizeKept ==
  /\ Complete
  /\ op.rec.type = "append"
  /\ Len(segs) < MAX_SEGMENTS
  /\ logEnd' = logEnd + RecordSize(op.rec)
  /\ segs' = Append(segs, Segment(op.rec, op.at))
  /\ op' = Idle
  /\ UNCHANGED <<disk, mode, files, nextId, damaged>>

\* logfs_append enters the segment and returns 0.
FinishAppend ==
  /\ Complete
  /\ op.rec.type = "append"
  /\ Len(segs) < MAX_SEGMENTS
  /\ logEnd' = logEnd + RecordSize(op.rec)
  /\ segs' = Append(segs, Segment(op.rec, op.at))
  /\ files' = [files EXCEPT ![op.name].size = @ + Len(op.rec.data)]
  /\ op' = Idle
  /\ UNCHANGED <<disk, mode, nextId, damaged>>

\* The segment table is full: logfs_append returns -1, with its record in the
\* log and the end of the log behind it.
AppendNoSegment ==
  /\ Complete
  /\ op.rec.type = "append"
  /\ Len(segs) = MAX_SEGMENTS
  /\ logEnd' = logEnd + RecordSize(op.rec)
  /\ op' = Idle
  /\ damaged' = TRUE
  /\ UNCHANGED <<disk, mode, files, segs, nextId>>

\* The machine stops; the device keeps what was written.
PowerOff ==
  /\ mode # "down"
  /\ mode' = "down"
  /\ files' = << >> /\ segs' = << >> /\ nextId' = 1 /\ logEnd' = 1
  /\ op' = Idle
  /\ UNCHANGED <<disk, damaged>>

----------------------------------------------------------------------------
\* tools/mklogfs.py: an empty log.
Init ==
  /\ disk = [c \in 1 .. LogCells |-> Zero]
  /\ mode = "down"
  /\ Cleared
  /\ op = Idle
  /\ damaged = FALSE

Mount == MountBegin \/ ReplayCreate \/ ReplayAppend \/ MountDone \/ MountReadError
Write == WriteBlock \/ WriteFails \/ FinishCreate \/ FinishAppend \/ AppendNoSegment

Next ==
  \/ Mount
  \/ \E n \in Names : Create(n) \/ CreateNoSpace(n)
  \/ \E n \in Names, d \in Payloads : AppendFile(n, d)
  \/ Write
  \/ PowerOff

Spec == Init /\ [][Next]_vars

----------------------------------------------------------------------------
(* Properties *)

Records ==
  [type : {"create"}, id : 1 .. MaxId, name : Names, before : {0}, data : {<< >>}]
    \cup [type : {"append"}, id : 1 .. MaxId, name : {"none"}, before : 0 .. LogCells,
          data : Payloads]

Segments == [id : 1 .. MaxId, off : 0 .. LogCells, size : 1 .. LogCells, at : 2 .. LogCells]

\* The type invariant: the file table, the segment table and the log end of
\* fs/logfs.c, and what the device can hold.
TypeOK ==
  /\ disk \in [1 .. LogCells -> {Zero} \cup [rec : Records, part : 1 .. LogCells]]
  /\ mode \in {"down", "mounting", "ready"}
  /\ DOMAIN files \subseteq Names
  /\ \A n \in DOMAIN files : files[n] \in [id : 1 .. MaxId, size : 0 .. LogCells]
  /\ segs \in Seq(Segments)
  /\ nextId \in 1 .. MaxId + 1
  /\ logEnd \in 1 .. LogEnd
  /\ \/ op = Idle
     \/ op \in [rec : Records, at : 1 .. LogCells, done : 0 .. LogCells, name : Names]
  /\ damaged \in BOOLEAN

\* No two files share an id, and the next id to give out is above them all: an
\* id is never given twice, whatever creates failed after taking one and
\* whatever a mount recovered (logfs_create, logfs_replay_create).
IdsUnique ==
  /\ \A m, n \in DOMAIN files : files[m].id = files[n].id => m = n
  /\ \A n \in DOMAIN files : files[n].id < nextId

SegsOf(id) == {i \in 1 .. Len(segs) : segs[i].id = id}

\* The segments of a file tile it, in table order and without gap or overlap;
\* each lies in the log below its end, where no later write goes.
SegmentsTile ==
  /\ \A i \in 1 .. Len(segs) : segs[i].at + segs[i].size <= logEnd
  /\ \A i \in 1 .. Len(segs) : \E n \in DOMAIN files : files[n].id = segs[i].id
  /\ \A n \in DOMAIN files :
       LET S == SegsOf(files[n].id)
       IN  /\ \A i \in S : \/ segs[i].off = 0
                          \/ \E j \in S : j < i /\ segs[j].off + segs[j].size = segs[i].off
           /\ \A i, j \in S : i < j => segs[i].off + segs[i].size <= segs[j].off
           /\ \A i \in S : segs[i].off + segs[i].size <= files[n].size
           /\ \/ files[n].size = 0
              \/ \E i \in S : segs[i].off + segs[i].size = files[n].size

\* Every segment still points at the data of the append record it stands for,
\* whatever was written, failed or was replayed since it was entered.
SegmentsHold ==
  \A i \in 1 .. Len(segs) :
    \E r \in Records :
      /\ HasRecord(disk, segs[i].at - 1, r)
      /\ segs[i] = Segment(r, segs[i].at - 1)

\* While mounted the log below its end is never written again, and the end
\* never moves back: a failed or retried record goes behind what is already
\* acknowledged (logfs_append_record).
LogStable ==
  [][mode = "ready" /\ mode' = "ready"
       => logEnd' >= logEnd /\ \A c \in 1 .. logEnd - 1 : disk'[c] = disk[c]]_vars

============================================================================

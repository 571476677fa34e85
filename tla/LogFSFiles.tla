----------------------------- MODULE LogFSFiles -----------------------------
(***************************************************************************)
(* What a reader sees of the log file system: logfs_read_file_part over    *)
(* the segment table, and LogFS shown to implement DurableFiles.  Two      *)
(* history variables record what the callers were told.                    *)
(***************************************************************************)
EXTENDS LogFS, FiniteSetsExt

VARIABLES
  acked,   \* contents at the last mount, with every acknowledged operation since
  maybe    \* contents that a failed or interrupted operation may have left

hvars == <<vars, acked, maybe>>

\* The byte in a cell of the log; what is no data of an append reads as 0.
ByteAt(c) ==
  IF disk[c].part - 1 \in DOMAIN disk[c].rec.data THEN disk[c].rec.data[disk[c].part - 1] ELSE 0

\* logfs_read_bytes
ReadBytes(at, size) == [i \in 1 .. size |-> ByteAt(at + i - 1)]

\* Mutation: the read starts at the segment's start, not at the overlap.
OverlapFromStart(s, off, end) ==
  LET from == Max({off, s.off})
      to   == Min({end, s.off + s.size})
  IN  ReadBytes(s.at, to - from)

\* The part of segment s that lies in the bytes off .. end-1 of its file.
Overlap(s, off, end) ==
  LET from == Max({off, s.off})
      to   == Min({end, s.off + s.size})
  IN  ReadBytes(s.at + (from - s.off), to - from)

\* logfs_read_file_part: walk the segment table and collect the overlaps.
ReadPart(n, off, size) ==
  LET end == off + Min({size, files[n].size - off})
      Take(got, s) ==
        IF \/ Len(got) >= end - off
           \/ s.id # files[n].id
           \/ off >= s.off + s.size
           \/ end <= s.off
          THEN got ELSE got \o Overlap(s, off, end)
      collected[i \in 0 .. Len(segs)] ==
        IF i = 0 THEN << >> ELSE Take(collected[i - 1], segs[i])
  IN  collected[Len(segs)]

\* logfs_read_file
ReadFile(n) == ReadPart(n, 0, files[n].size)

Contents == [n \in DOMAIN files |-> ReadFile(n)]

\* The caller's view of the operation in progress.
Cur ==
  IF op = Idle THEN [kind |-> "none"]
  ELSE IF op.rec.type = "create" THEN [kind |-> "create", name |-> op.name]
  ELSE [kind |-> "append", name |-> op.name, data |-> op.rec.data]

Abstract == INSTANCE DurableFiles
  WITH view <- acked, cur <- Cur, up <- (mode = "ready"), intact <- ~damaged

CanHaveHappened == maybe \cup {Abstract!Apply(acked, Cur)}

HInit == Init /\ acked = << >> /\ maybe = {}

Told ==
  /\ acked' = Abstract!Apply(acked, Cur)
  /\ maybe' = {}

NotTold == maybe' = CanHaveHappened /\ UNCHANGED acked

Mounted == acked' = Contents' /\ maybe' = {}

HNext ==
  \/ (MountBegin \/ ReplayCreate \/ ReplayAppend) /\ UNCHANGED <<acked, maybe>>
  \/ (MountDone \/ MountReadError) /\ Mounted
  \/ (\E n \in Names : Create(n) \/ CreateNoSpace(n)) /\ UNCHANGED <<acked, maybe>>
  \/ (\E n \in Names, d \in Payloads : AppendFile(n, d)) /\ UNCHANGED <<acked, maybe>>
  \/ WriteBlock /\ UNCHANGED <<acked, maybe>>
  \/ (FinishCreate \/ FinishAppend) /\ Told
  \/ (WriteFails \/ AppendNoSegment \/ PowerOff) /\ NotTold

HSpec == HInit /\ [][HNext]_hvars

----------------------------------------------------------------------------
(* Properties *)

\* The detailed file system keeps the promise of DurableFiles: whatever write
\* fails and wherever the machine stops in logfs_append_record, a mount finds
\* every acknowledged create and append, and a record cut short is found
\* entirely or not at all.
Durable == Abstract!DSpec

\* While mounted, logfs_read_file returns exactly what was mounted and
\* acknowledged since, also while the record of another operation is being
\* written, after a failed one, and after a mount that cut the log short; and
\* logfs_read_file_part returns the bytes off .. off+size-1 of that, cut at the
\* file's end, however the data is scattered over segments.
ReadsAcknowledged ==
  mode = "ready" =>
    \A n \in DOMAIN files :
      \/ /\ n \in DOMAIN acked /\ ReadFile(n) = acked[n]
         /\ \A off \in 0 .. files[n].size, size \in 0 .. LogCells :
              ReadPart(n, off, size) =
                SubSeq(acked[n], off + 1, Min({off + size, Len(acked[n])}))
      \/ op # Idle /\ op.name = n /\ op.rec.type = "create"

\* A file for which logfs_create returned 0 is there after a mount that read
\* the log without an error.
CreatedStays == [][MountDone => DOMAIN acked \subseteq DOMAIN files']_hvars

=============================================================================

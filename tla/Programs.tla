------------------------------ MODULE Programs ------------------------------
(***************************************************************************)
(* The run command: a program is found by its path in the root file        *)
(* system (fs/vfs.c, fs/tinyfs.c), read through a file handle (fs/file.c), *)
(* laid out in pages of module Memory and mapped into the user window      *)
(* (kernel/user.c, arch/aarch64/mmu.c), where it runs until it exits.      *)
(*                                                                         *)
(* Addresses, sizes and page indices keep the wrap-around of the code's    *)
(* 64-bit and 32-bit words, scaled down.  A byte of the disk is named by   *)
(* its address on the disk; the headers at the start of an ELF file are    *)
(* one byte each.  Loading is one step: nothing else runs at the prompt.   *)
(* Entering and leaving EL0 under interrupts is in module Task.            *)
(***************************************************************************)
EXTENDS Memory, SequencesExt

CONSTANTS
  PageSize,       \* PMM_PAGE_SIZE
  Chunk,          \* USER_LOAD_CHUNK_SIZE
  BlockSize,      \* block_size of the root device
  CodePage,       \* USER_CODE_VA, in pages
  FlatMaxPages,   \* USER_FLAT_BINARY_MAX_PAGES
  Word,           \* 2^64
  IndexMod,       \* 2^32
  BlobSize,       \* the size of the program in the kernel image
  MaxLent,        \* (bound) the pages other callers hold at a time
  FileSystems,    \* the contents the root file system may have
  Paths           \* the paths given to run, besides those of the files

Words == 0 .. Word - 1

\* A file: where it lies on the disk and, for an ELF file, what its headers say.
\* The fields of a program header are 64-bit words.
ProgramHeader ==
  [load : BOOLEAN, offset : Words, vaddr : Words, filesz : Words, memsz : Words, write : BOOLEAN]

IsFile(f) ==
  f.at \in Nat /\ f.size \in Words /\ f.entry \in Words /\ f.segs \in Seq(ProgramHeader)

ASSUME ProgramsAssumption ==
  /\ PageSize \in Nat \ {0} /\ Chunk \in 1 .. PageSize /\ BlockSize \in Nat \ {0}
  /\ CodePage \in Nat \ {0} /\ FlatMaxPages \in 1 .. MaxProgram
  /\ Word \in Nat /\ IndexMod \in Nat /\ Word % (PageSize * IndexMod) = 0
  /\ (CodePage + MaxProgram + 1) * PageSize < Word /\ CodePage + MaxProgram + 1 < IndexMod
  /\ BlobSize \in Nat /\ MaxLent \in Nat
  /\ \A files \in FileSystems : \A name \in DOMAIN files : IsFile(files[name])

VARIABLES
  fs,     \* tinyfs_files: the name and the entry of every file
  mem,    \* the bytes of every page
  win,    \* mmu_l3_user_table: what each page of the user window maps
  pc,     \* where the kernel thread is
  prog    \* (history) the program that is running and how it was loaded

pvars == <<vars, fs, mem, win, pc, prog>>

StackPage == CodePage + MaxProgram
VPages == 0 .. StackPage
Offsets == 0 .. PageSize - 1

Unmapped == [page |-> -1, rw |-> FALSE]
Zero == [o \in Offsets |-> 0]
Dirt == [o \in Offsets |-> -1]
NoProgram == [kind |-> "none"]

----------------------------------------------------------------------------
(* Files.  A path is the sequence of its segments, without empty ones.      *)

\* vfs_normalize_path refuses "." and "..".
Normal(path) == \A i \in DOMAIN path : path[i] \notin {".", ".."}

\* vfs_collect_child_name: the file lies under the directory.
Under(directory, name) == IsStrictPrefix(directory, name)

\* vfs_stat: a file, or a directory when some file lies under the path.
Stat(path) ==
  IF ~Normal(path) THEN "none"
  ELSE IF path = << >> THEN "directory"
  ELSE IF path \in DOMAIN fs THEN "file"
  ELSE IF \E name \in DOMAIN fs : Under(path, name) THEN "directory"
  ELSE "none"

\* The byte at a place in a block of the root device.
BlockByte(b, q) == b * BlockSize + q

\* tinyfs_read_bytes: block by block.
ReadBytes(at, n) ==
  [i \in 1 .. n |-> BlockByte((at + i - 1) \div BlockSize, (at + i - 1) % BlockSize)]

\* tinyfs_read_file_part: cut at the end of the file.
ReadFilePart(f, off, n) == ReadBytes(f.at + off, Min({n, f.size - off}))

\* file_read at an offset: nothing at the end of the file.
FileRead(f, off, n) == IF off >= f.size THEN << >> ELSE ReadFilePart(f, off, n)

\* How many chunks a copy has.
ChunkCount(size) == (size + Chunk - 1) \div Chunk

(***************************************************************************)
(* The reads a load makes, told apart by what they read: the device may    *)
(* refuse any of them.  (bound) It refuses at most one in a load.          *)
(***************************************************************************)
Read(what, i, k) == <<what, i, k>>
NoError == Read("none", 0, 0)
Errors(f) ==
  {NoError, Read("probe", 0, 0), Read("header", 0, 0)}
  \cup {Read(pass, i, 0) : pass \in {"layout", "segment"}, i \in DOMAIN f.segs}
  \cup (IF f.elf THEN UNION {{Read("data", i, k) : k \in 1 .. ChunkCount(f.segs[i].filesz)} :
                               i \in DOMAIN f.segs}
        ELSE {Read("data", 0, k) : k \in 1 .. ChunkCount(f.size)})

\* user_read_exact_at of one header.
ReadsHeader(f, at, tag, err) == at < f.size /\ tag # err

----------------------------------------------------------------------------
(* Pages *)

\* Mutation: the search for the next page starts behind the first free one.
PagesTakenLater(n) ==
  [i \in 1 .. Min({n, Cardinality(Free) - 1}) |->
     CHOOSE p \in Free : Cardinality({r \in Free : r < p}) = i]

\* The pages pmm_alloc_page gives out next, at most n.
PagesTaken(n) ==
  [i \in 1 .. Min({n, Cardinality(Free)}) |->
     CHOOSE p \in Free : Cardinality({r \in Free : r < p}) = i - 1]

Cleared(pages) == [p \in Pages |-> IF p \in ToSet(pages) THEN Zero ELSE mem[p]]

PageIndex(offset) == (offset \div PageSize) % IndexMod
PageCountOf(size) == (size + PageSize - 1) \div PageSize

\* user_program_range_valid
RangeValid(base, count) ==
  /\ count > 0 /\ count <= MaxProgram
  /\ base >= CodePage * PageSize
  /\ base + count * PageSize <= StackPage * PageSize

Store(m, p, off, data) ==
  [m EXCEPT ![p] = [o \in Offsets |-> IF o - off + 1 \in DOMAIN data THEN data[o - off + 1]
                                      ELSE @[o]]]

----------------------------------------------------------------------------
(***************************************************************************)
(* Copying a part of a file to a place in the image, chunk by chunk.  What *)
(* a load has done so far is a record: whether it may go on, the memory,   *)
(* the pages to be writable and whether the entry point was seen.          *)
(***************************************************************************)
Start(pages) == [ok |-> TRUE, mem |-> Cleared(pages), rw |-> {}, mapped |-> FALSE]

\* Mutation: what does not fit the first page is put into it again.
CopyChunkOnePage(st, data, dest, pages) ==
  LET page == PageIndex(dest)
      off  == dest % PageSize
      head == Min({PageSize - off, Len(data)})
      once == Store(st.mem, pages[page + 1], off, SubSeq(data, 1, head))
  IN  IF page >= Len(pages) THEN [st EXCEPT !.ok = FALSE]
      ELSE [st EXCEPT !.mem = Store(once, pages[page + 1], 0, SubSeq(data, head + 1, Len(data)))]

\* One chunk, of user_load_file_into_pages or user_copy_file_range_into_pages: the
\* bytes go to the end of a page and the rest to the start of the next.
CopyChunk(st, data, dest, pages) ==
  LET page == PageIndex(dest)
      off  == dest % PageSize
      head == Min({PageSize - off, Len(data)})
      once == Store(st.mem, pages[page + 1], off, SubSeq(data, 1, head))
  IN  IF page >= Len(pages) THEN [st EXCEPT !.ok = FALSE]
      ELSE IF head = Len(data) THEN [st EXCEPT !.mem = once]
      ELSE IF page + 1 >= Len(pages) THEN [st EXCEPT !.mem = once, !.ok = FALSE]
      ELSE [st EXCEPT !.mem = Store(once, pages[page + 2], 0, SubSeq(data, head + 1, Len(data)))]

\* One turn of the loop: a chunk is read and copied, or the load ends.
CopyStep(st, f, part, k, pages, err) ==
  LET from == (k - 1) * Chunk
      n    == Min({Chunk, part.size - from})
      data == FileRead(f, part.offset + from, n)
  IN  IF ~st.ok \/ Len(data) # n \/ Read("data", part.tag, k) = err THEN [st EXCEPT !.ok = FALSE]
      ELSE CopyChunk(st, data, (part.to + from) % Word, pages)

\* The loop of user_load_file_into_pages and user_copy_file_range_into_pages.
CopyPart(st, f, part, pages, err) ==
  LET copied[k \in 0 .. ChunkCount(part.size)] ==
        IF k = 0 THEN st ELSE CopyStep(copied[k - 1], f, part, k, pages, err)
  IN  copied[ChunkCount(part.size)]

----------------------------------------------------------------------------
(***************************************************************************)
(* user_run_flat_file.  A load is a record: the pages taken, in order, the *)
(* memory, whether it succeeded, and what will be mapped where.            *)
(***************************************************************************)
Load(ok, taken, m, kind, base, count, entry, rw) ==
  [ok |-> ok, taken |-> taken, mem |-> m, kind |-> kind, base |-> base, count |-> count,
   entry |-> entry, rw |-> rw]

Refused == Load(FALSE, << >>, mem, "none", 0, 0, 0, {})

\* user_load_file_into_pages
CopyFlat(f, taken, count, err) ==
  CopyPart(Start(taken), f, [tag |-> 0, offset |-> 0, to |-> 0, size |-> f.size],
           SubSeq(taken, 1, count), err)

LoadFlat(f, err) ==
  LET count == PageCountOf(f.size)
      base  == CodePage * PageSize
      taken == PagesTaken(count + 1)
      r     == CopyFlat(f, taken, count, err)
  IN  IF ~RangeValid(base, count) \/ count > FlatMaxPages THEN Refused
      ELSE IF Len(taken) < count + 1 THEN [Refused EXCEPT !.taken = taken, !.mem = Cleared(taken)]
      ELSE Load(r.ok, taken, r.mem, "flat", base, count, base, {})

(***************************************************************************)
(* user_run_elf_file: a first pass over the program headers finds the      *)
(* image's extent, a second one copies the segments.                       *)
(***************************************************************************)
Loadable(s) == s.load /\ s.memsz # 0
Segments(f) == {f.segs[i] : i \in {j \in DOMAIN f.segs : Loadable(f.segs[j])}}

SegmentStart(s) == s.vaddr - (s.vaddr % PageSize)
SegmentEnd(s) == LET e == (s.vaddr + s.memsz + PageSize - 1) % Word IN e - (e % PageSize)

SegmentValid(f, s) ==
  /\ s.memsz >= s.filesz
  /\ (s.offset + s.filesz) % Word >= s.offset /\ (s.offset + s.filesz) % Word <= f.size
  /\ (s.vaddr + s.memsz) % Word >= s.vaddr
  /\ SegmentStart(s) >= CodePage * PageSize /\ SegmentEnd(s) <= StackPage * PageSize

ImageBase(f) == Min({SegmentStart(s) : s \in Segments(f)})
ImageEnd(f) == Max({SegmentEnd(s) : s \in Segments(f)})

\* user_elf_header_valid; valid stands for the fields that are compared with
\* constants.
HeaderValid(f) == f.valid /\ f.segs # << >> /\ 1 + Len(f.segs) <= f.size

LayoutValid(f, err) ==
  /\ ReadsHeader(f, 0, Read("header", 0, 0), err)
  /\ HeaderValid(f)
  /\ \A i \in DOMAIN f.segs : ReadsHeader(f, i, Read("layout", i, 0), err)
  /\ Segments(f) # {} /\ \A s \in Segments(f) : SegmentValid(f, s)
  /\ ImageEnd(f) > ImageBase(f)
  /\ RangeValid(ImageBase(f), PageCountOf(ImageEnd(f) - ImageBase(f)))
  /\ f.entry >= ImageBase(f) /\ f.entry < ImageEnd(f)

\* What user_copy_file_range_into_pages is asked to copy for segment i.
SegmentPart(s, i, base) == [tag |-> i, offset |-> s.offset, to |-> s.vaddr - base, size |-> s.filesz]

\* user_zero_range_in_pages
ZeroRange(st, s, base, pages) ==
  LET first == s.vaddr + s.filesz - base
      Inside(x) == PageIndex((first + x) % Word) < Len(pages)
      cleared == {x \in 0 .. s.memsz - s.filesz - 1 : \A y \in 0 .. x : Inside(y)}
      At(p, o) == \E x \in cleared : /\ pages[PageIndex((first + x) % Word) + 1] = p
                                     /\ (first + x) % PageSize = o
  IN  IF ~st.ok THEN st
      ELSE [st EXCEPT !.mem = [p \in Pages |-> [o \in Offsets |-> IF At(p, o) THEN 0 ELSE @[p][o]]],
                      !.ok = Cardinality(cleared) = s.memsz - s.filesz]

LoadSegment(st, f, i, base, pages, err) ==
  LET s     == f.segs[i]
      first == PageIndex((s.vaddr - base) % Word)
      last  == PageIndex((s.vaddr - base + s.memsz - 1) % Word)
      seen  == [st EXCEPT !.mapped = @ \/ f.entry \in s.vaddr .. s.vaddr + s.memsz - 1,
                          !.rw = IF s.write THEN @ \cup (first .. last) ELSE @]
  IN  IF ~st.ok \/ Read("segment", i, 0) = err THEN [st EXCEPT !.ok = FALSE]
      ELSE IF ~Loadable(s) THEN st
      ELSE IF last >= Len(pages) THEN [st EXCEPT !.ok = FALSE]
      ELSE ZeroRange(CopyPart(seen, f, SegmentPart(s, i, base), pages, err), s, base, pages)

\* The second pass.
LoadSegments(f, base, pages, err) ==
  LET loaded[i \in 0 .. Len(f.segs)] ==
        IF i = 0 THEN Start(pages) ELSE LoadSegment(loaded[i - 1], f, i, base, pages, err)
  IN  loaded[Len(f.segs)]

LoadElf(f, err) ==
  LET base  == ImageBase(f)
      count == PageCountOf(ImageEnd(f) - base) % IndexMod
      pages == PagesTaken(count)
      r     == LoadSegments(f, base, pages, err)
      taken == PagesTaken(count + 1)
      stack == Last(taken)
  IN  IF ~LayoutValid(f, err) THEN Refused
      ELSE IF Len(pages) < count THEN [Refused EXCEPT !.taken = pages, !.mem = Cleared(pages)]
      ELSE IF ~r.ok \/ ~r.mapped \/ Len(taken) = count
      THEN [Refused EXCEPT !.taken = pages, !.mem = r.mem]
      ELSE Load(TRUE, taken, Store(r.mem, stack, 0, [o \in 1 .. PageSize |-> 0]),
                "elf", base, count, f.entry, r.rw)

\* user_run_file: what does not begin like an ELF file, or cannot be read, is
\* run as a flat one.
LoadFile(f, err) ==
  IF ReadsHeader(f, 0, Read("probe", 0, 0), err) /\ f.elf THEN LoadElf(f, err) ELSE LoadFlat(f, err)

\* user_run_demo: the program in the kernel image, whose bytes have names below
\* those of the disk.
LoadDemo ==
  LET taken == PagesTaken(2)
      blob  == [i \in 1 .. BlobSize |-> -1 - i]
  IN  Load(Len(taken) = 2 /\ BlobSize <= PageSize, taken,
           IF taken # << >> THEN Store(Cleared(taken), taken[1], 0, blob) ELSE mem,
           "demo", CodePage * PageSize, 1, CodePage * PageSize, {})

----------------------------------------------------------------------------
(***************************************************************************)
(* user_run_loaded_pages up to EL0.  The entries of programs that ran      *)
(* before stay in the table.                                               *)
(***************************************************************************)
UserData(page) == [page |-> page, rw |-> TRUE]
UserCode(page) == [page |-> page, rw |-> FALSE]

MapPages(l) ==
  LET first == l.base \div PageSize
  IN  [v \in VPages |->
        IF v \in first .. first + l.count - 1
        THEN IF v - first \in l.rw THEN UserData(l.taken[v - first + 1])
             ELSE UserCode(l.taken[v - first + 1])
        ELSE IF v = StackPage THEN UserData(Last(l.taken))
        ELSE win[v]]

Take(l) ==
  /\ bitmap' = bitmap \cup ToSet(l.taken)
  /\ programs' = programs \cup ToSet(l.taken)
  /\ usedCount' = CountAfterLoad(Len(l.taken))
  /\ mem' = l.mem
  /\ UNCHANGED <<lent, heap>>

Enter(l, f) ==
  /\ win' = MapPages(l)
  /\ pc' = "el0"
  /\ prog' = [kind |-> l.kind, file |-> f, base |-> l.base, count |-> l.count,
              entry |-> l.entry, pages |-> ToSet(l.taken), fresh |-> TRUE]

PInit ==
  /\ Init
  /\ fs \in FileSystems
  /\ mem = [p \in Pages |-> Dirt]
  /\ win = [v \in VPages |-> Unmapped]
  /\ pc = "boot" /\ prog = NoProgram

\* The boot test runs the demo; without memory for it the kernel panics, and
\* nothing follows.
RunDemo ==
  LET l == LoadDemo
  IN  /\ pc = "boot" /\ l.ok
      /\ Take(l)
      /\ Enter(l, << >>)
      /\ UNCHANGED fs

RunFile(path, err) ==
  LET l == LoadFile(fs[path], err)
  IN  /\ pc = "prompt" /\ Stat(path) = "file"
      /\ Take(l)
      /\ IF l.ok THEN Enter(l, fs[path]) ELSE UNCHANGED <<win, pc, prog>>
      /\ UNCHANGED fs

\* A path that is no file: run reports it.
RunNothing(path) ==
  /\ pc = "prompt" /\ Stat(path) # "file"
  /\ UNCHANGED pvars

\* The program writes a page it may write; entries left by an earlier program
\* let it reach that program's pages.
UserWrite(v) ==
  /\ pc = "el0" /\ win[v] # Unmapped /\ win[v].rw
  /\ mem' = [mem EXCEPT ![win[v].page] = Dirt]
  /\ prog' = [prog EXCEPT !.fresh = FALSE]
  /\ UNCHANGED <<vars, fs, win, pc>>

\* Mutation: the pages go back to the allocator, the table entries stay.
UserExitFrees ==
  /\ pc = "el0" /\ pc' = "prompt" /\ prog' = NoProgram
  /\ bitmap' = bitmap \ prog.pages /\ programs' = programs \ prog.pages
  /\ usedCount' = usedCount - Cardinality(prog.pages)
  /\ UNCHANGED <<lent, heap, fs, mem, win>>

\* The program exits or faults; its pages stay taken.
UserExit ==
  /\ pc = "el0" /\ pc' = "prompt" /\ prog' = NoProgram
  /\ UNCHANGED <<vars, fs, mem, win>>

\* The other users of pages: they write what they are given.
OtherAlloc ==
  /\ AllocPage
  /\ Cardinality(lent) < MaxLent
  /\ mem' = [mem EXCEPT ![FirstFree] = Dirt]
  /\ UNCHANGED <<fs, win, pc, prog>>

OtherFree(p) == FreePage(p) /\ UNCHANGED <<fs, mem, win, pc, prog>>

PNext ==
  \/ RunDemo
  \/ \E path \in Paths : RunNothing(path)
  \/ \E path \in DOMAIN fs : \E err \in Errors(fs[path]) : RunFile(path, err)
  \/ \E v \in VPages : UserWrite(v)
  \/ UserExit
  \/ OtherAlloc
  \/ \E p \in Pages : OtherFree(p)

PSpec == PInit /\ [][PNext]_pvars

----------------------------------------------------------------------------
(* Properties *)

\* What a byte of the image of a program must be: for an ELF file the byte of
\* the last segment that covers it, or zero; for a flat one the file's.
ImageByte(p, x) ==
  LET f == p.file
      j == x - p.base
      cover == {i \in DOMAIN f.segs : /\ Loadable(f.segs[i])
                                      /\ x \in f.segs[i].vaddr .. f.segs[i].vaddr + f.segs[i].memsz - 1}
      s == f.segs[Max(cover)]
  IN  CASE p.kind = "elf" /\ cover # {} /\ x - s.vaddr < s.filesz -> f.at + s.offset + x - s.vaddr
        [] p.kind = "flat" /\ j < f.size -> f.at + j
        [] p.kind = "demo" /\ j < BlobSize -> -2 - j
        [] OTHER -> 0

ImagePages == prog.base \div PageSize .. prog.base \div PageSize + prog.count - 1

\* A program that was entered sees in its window exactly what its file says,
\* segment by segment with the rest of memsz cleared, and a clear stack, however
\* chunks, blocks and pages cut the copy; what it may not write stays so until it
\* ends, whatever it writes and whatever earlier programs left in the table; its
\* entry point lies in its image.
ImageIntact ==
  pc = "el0" =>
    /\ \A v \in ImagePages : (~win[v].rw \/ prog.fresh) =>
         \A o \in Offsets : mem[win[v].page][o] = ImageByte(prog, (v * PageSize) + o)
    /\ prog.fresh => mem[win[StackPage].page] = Zero
    /\ prog.entry \div PageSize \in ImagePages

\* The window shows programs' pages only, no page twice, and the running program
\* its own: the entries that outlive a program never reach memory that was given
\* to someone else since.
WindowOwned ==
  LET mapped == {v \in VPages : win[v] # Unmapped}
  IN  /\ \A v \in mapped : win[v].page \in programs
      /\ \A u, v \in mapped : win[u].page = win[v].page => u = v
      /\ pc = "el0" => {win[v].page : v \in ImagePages \cup {StackPage}} = prog.pages

\* The loader and the run command use memory as module Memory says: whichever
\* read or allocation fails, a load is the first free pages, counted once.
ImplementsMemory == Spec
=============================================================================

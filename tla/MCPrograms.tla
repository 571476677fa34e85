----------------------------- MODULE MCPrograms -----------------------------
EXTENDS Programs

Seg(offset, vaddr, filesz, memsz, write) ==
  [load |-> TRUE, offset |-> offset, vaddr |-> vaddr, filesz |-> filesz, memsz |-> memsz,
   write |-> write]

\* Segments that load: across a page boundary, with cleared bytes, across one
\* with its cleared bytes, in the last page.
A == Seg(3, 6, 5, 5, FALSE)
B == Seg(4, 9, 2, 3, TRUE)
C == Seg(3, 6, 1, 5, TRUE)
D == Seg(4, 12, 3, 3, FALSE)

\* A segment whose cleared bytes reach the end of the address space, and two that
\* are skipped.
ToEnd == Seg(3, 8, 1, 55, FALSE)
Skipped == <<Seg(3, 5, 0, 0, FALSE), [Seg(3, 5, 1, 1, FALSE) EXCEPT !.load = FALSE]>>

\* Segments that no layout allows: smaller in memory than in the file, past the
\* end of the file, below and above the window, around the end of the address
\* space, with an offset that wraps.
Odd == <<Seg(3, 5, 2, 1, FALSE), Seg(7, 5, 2, 2, FALSE), Seg(3, 2, 2, 2, FALSE),
         Seg(3, 14, 1, 4, FALSE), Seg(3, 60, 1, 8, FALSE), Seg(63, 5, 2, 2, FALSE)>>

Elf(at, segs, entry) ==
  [at |-> at, size |-> 8, elf |-> TRUE, valid |-> TRUE, segs |-> segs, entry |-> entry]

Flat(at, size) ==
  [at |-> at, size |-> size, elf |-> FALSE, valid |-> FALSE, segs |-> << >>, entry |-> 0]

\* Good segments in pairs that are disjoint, overlap, share a page of
\* which one may be written, or leave a gap with the entry in it; a good one with
\* one that is skipped or fails in the second pass; a flat file.
Tested ==
  {Elf(5, st, 9) : st \in {<<A, B>>, <<B, A>>, <<C, A>>, <<A, C>>, <<B, ToEnd>>, Skipped \o <<B>>}}
  \cup {Elf(5, <<A, D>>, 13), Elf(5, <<A, D>>, 11), Flat(5, 7)}

\* Files that are refused before a page is taken: a good segment before an odd
\* one, an image without extent, a wrong header, too few bytes for the headers,
\* flat files of no page and of too many.
RefusedFiles ==
  [i \in DOMAIN Odd |-> Elf(5, <<B, Odd[i]>>, 9)]
  \o <<Elf(5, <<ToEnd>>, 9), [Elf(5, <<A>>, 9) EXCEPT !.valid = FALSE],
       [Elf(5, <<A>>, 9) EXCEPT !.size = 1], Flat(5, 0), Flat(5, 9)>>

OddNames == <<"o1", "o2", "o3", "o4", "o5", "o6", "o7", "o8", "o9", "o10", "o11">>
OddPath(i) == <<"odd", OddNames[i]>>

Second == Elf(20, <<Seg(3, 8, 3, 4, TRUE)>>, 8)

MCFileSystems ==
  {<<"bin", "a">> :> f @@ <<"b">> :> Second : f \in Tested}
  \cup {[n \in {OddPath(i) : i \in DOMAIN OddNames} |->
          RefusedFiles[CHOOSE i \in DOMAIN OddNames : n = OddPath(i)]]}

MCPaths == {<<"bin">>, <<"c">>, <<"..", "b">>, << >>}
=============================================================================

------------------------------- MODULE MCRuntime -------------------------------
(* Runtime for TLC: memory of eight bytes with a window of four.              *)
EXTENDS Runtime

Segment(load, offset, file_size, virtual_address, memory_size) ==
  [load |-> load, offset |-> offset, file_size |-> file_size,
   virtual_address |-> virtual_address, memory_size |-> memory_size]

\* Program headers are one byte each.
File(name, size, elf, program_header_offset, list) ==
  [name |-> name, size |-> size, elf |-> elf, program_header_offset |-> program_header_offset,
   program_header_entry_size |-> 1, segments |-> list]

\* Text with a note to skip, data with zeros behind, up to the window's end.
Demo(name) ==
  File(name, 4, TRUE, 1, <<Segment(FALSE, 0, 1, 0, 1), Segment(TRUE, 1, 1, 2, 1),
                           Segment(TRUE, 2, 2, 3, 3)>>)

\* One byte in the middle of the window, and an empty segment behind it.
Small(name) == File(name, 3, TRUE, 1, <<Segment(TRUE, 1, 1, 4, 1), Segment(TRUE, 1, 0, 7, 0)>>)

\* Linked for the wrong address: the second segment runs out of the window.
Misplaced(name) == File(name, 3, TRUE, 1, <<Segment(TRUE, 1, 1, 2, 1), Segment(TRUE, 2, 1, 5, 2)>>)

\* Truncated on the host: a segment, or the program headers, lie behind the end.
Cut(name) == File(name, 2, TRUE, 1, <<Segment(TRUE, 1, 2, 2, 2)>>)
CutShort(name) == File(name, 1, TRUE, 1, <<Segment(TRUE, 1, 1, 2, 1)>>)

\* Not an ELF file.
Text(name) == File(name, 3, FALSE, 0, << >>)

\* Not what a linker writes: more bytes in the file than in memory; an end that wraps.
Overlong(name) == File(name, 3, TRUE, 1, <<Segment(TRUE, 0, 3, 5, 1)>>)
Wrapping(name) == File(name, 3, TRUE, 1, <<Segment(TRUE, 1, 1, 2, 1), Segment(TRUE, 1, 1, 4, 29)>>)

\* Offsets that wrap: headers and bytes are read from before the file.
Shifted(name) == File(name, 2, TRUE, 31, <<Segment(TRUE, 31, 2, 2, 2)>>)

\* "long1" and "long2" have the same first 31 characters.
MCTruncated ==
  [name \in {"a", "b", "c", "long1", "long2", "long"} |->
     IF name \in {"long1", "long2"} THEN "long" ELSE name]

MCVolumes == {<<Demo("a"), Small("b")>>,
              <<Misplaced("b"), Small("a"), Demo("c")>>,
              <<Small("long1"), Text("long2"), Demo("a")>>,
              <<Cut("a"), CutShort("b"), Text("c")>>,
              <<Overlong("a"), Wrapping("b"), Shifted("c"), Small("long")>>}
=============================================================================

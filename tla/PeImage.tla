------------------------------ MODULE PeImage ------------------------------
(***************************************************************************)
(* The two tools that edit a PE image, as operators on files:              *)
(* mutate_pe_cmdline.py and strip_pe_certificate_table.py.                 *)
(*                                                                         *)
(* A file is a sequence of cells.  Each header field the tools read is one *)
(* cell, and the bytes nobody reads are left out, which scales the layout  *)
(* down to                                                                 *)
(*    0            e_lfanew            (the DOS header, 0x40 bytes)         *)
(*    pe           signature           (signature and COFF header, 24)      *)
(*    pe+1, pe+2   section count, size of the optional header               *)
(*    pe+3         magic, then one cell (PE32) or two (PE32+)               *)
(*                 whose last is the number of directories                  *)
(*    directory    offset and size of the certificate table (8)             *)
(*    sections     name, raw size, raw offset each (40)                     *)
(*    data         one cell a byte; 0 is NUL                                *)
(* Arithmetic on offsets is the code's, with these sizes for its own.  A    *)
(* read outside the file raises struct.error there and ends the tool like  *)
(* a PEError: before anything is written.                                  *)
(***************************************************************************)
EXTENDS Integers, Sequences, FiniteSets

CONSTANTS
  Align,       (* header of a WIN_CERTIFICATE and alignment, 8 in the code *)
  MaxPadding   (* MAX_TERMINAL_PADDING                                     *)

ASSUME ImageAssumption ==
  /\ Align \in Nat /\ Align >= 2
  /\ MaxPadding \in Nat

Files == Seq(Nat)

Signature == 80    (* the cell PE\0\0        *)
Magics == {1, 2}   (* 0x10B and 0x20B        *)
Cmdline == 99      (* the name .cmdline      *)
Suffix == 9        (* attestos_tamper=1      *)

(* The cell at an offset of the file, counted from 0 as the code does. *)
At(f, offset) == f[offset + 1]

Pe(f) == At(f, 0)
SectionCount(f) == At(f, Pe(f) + 1)
Optional(f) == Pe(f) + 3
OptionalEnd(f) == Optional(f) + At(f, Pe(f) + 2)
DirectoryCount(f) == Optional(f) + At(f, Optional(f))
CertDirectory(f) == DirectoryCount(f) + 1
CertOffset(f) == At(f, CertDirectory(f))
CertSize(f) == At(f, CertDirectory(f) + 1)
CertEnd(f) == CertOffset(f) + CertSize(f)

Sections(f) == 0 .. SectionCount(f) - 1
Entry(f, i) == OptionalEnd(f) + 3 * i
Name(f, i) == At(f, Entry(f, i))
RawSize(f, i) == At(f, Entry(f, i) + 1)
RawOffset(f, i) == At(f, Entry(f, i) + 2)
RawEnd(f, i) == RawOffset(f, i) + RawSize(f, i)
TableEnd(f) == OptionalEnd(f) + 3 * SectionCount(f)

(* What both tools demand of the headers, in their order. *)
HeadersOk(f) ==
  /\ Len(f) >= 1
  /\ Pe(f) + 3 <= Len(f) /\ At(f, Pe(f)) = Signature
  /\ OptionalEnd(f) <= Len(f)
  /\ Optional(f) < Len(f) /\ At(f, Optional(f)) \in Magics
  /\ DirectoryCount(f) < Len(f) /\ At(f, DirectoryCount(f)) > 4
  /\ CertDirectory(f) + 2 <= OptionalEnd(f)

HasTable(f) == CertOffset(f) # 0 /\ CertSize(f) # 0

SectionsInBounds(f) ==
  /\ TableEnd(f) <= Len(f)
  /\ \A i \in Sections(f) :
       RawSize(f, i) # 0 => RawOffset(f, i) # 0 /\ RawEnd(f, i) <= Len(f)

-----------------------------------------------------------------------------
(* mutate_pe_cmdline.py *)

CmdlineSections(f) == {i \in Sections(f) : Name(f, i) = Cmdline}
CmdlineSection(f) == CHOOSE i \in CmdlineSections(f) : TRUE
Start(f) == RawOffset(f, CmdlineSection(f))
End(f) == RawEnd(f, CmdlineSection(f))

(* The offset is part of the section's bytes once rstrip removed its NULs. *)
InText(f, offset) ==
  /\ offset >= Start(f)
  /\ \E later \in offset .. End(f) - 1 : At(f, later) # 0

(* Mutant: a declared table is taken to be there. *)
CertificatesDeclared(f) == HasTable(f)

CertificatesInBounds(f) == HasTable(f) /\ CertEnd(f) <= Len(f)

(* Mutant: only a command line that begins with the suffix is refused. *)
NotMutatedAtStart(f) == At(f, Start(f)) # Suffix

NotMutated(f) == \A offset \in Start(f) .. End(f) - 1 : At(f, offset) # Suffix

(* Mutant: the NUL may be missing. *)
RoomWithoutNul(f) == ~InText(f, End(f) - 1)

(* The suffix and a NUL fit behind the text. *)
Room(f) == Start(f) + 2 <= End(f) /\ ~InText(f, End(f) - 2)

Mutable(f) ==
  /\ HeadersOk(f)
  /\ CertificatesInBounds(f)
  /\ SectionsInBounds(f)
  /\ \E i \in CmdlineSections(f) : CmdlineSections(f) = {i}
  /\ \A i \in Sections(f) : RawEnd(f, i) <= CertOffset(f)
  /\ InText(f, Start(f))
  /\ NotMutated(f)
  /\ Room(f)

(* Text, suffix, and NULs up to the section's size. *)
MutateFile(f) ==
  [k \in 1 .. Len(f) |->
     IF k - 1 < Start(f) \/ k - 1 >= End(f) \/ InText(f, k - 1) THEN f[k]
     ELSE IF InText(f, k - 2) THEN Suffix ELSE 0]

-----------------------------------------------------------------------------
(* strip_pe_certificate_table.py *)

PaddedLength(length) == Align * ((length + Align - 1) \div Align)

(* The WIN_CERTIFICATE entries exactly fill the table. *)
EntriesFill(f) ==
  LET Fill[cursor \in CertOffset(f) .. CertEnd(f)] ==
        \/ cursor = CertEnd(f)
        \/ /\ cursor + Align <= CertEnd(f)
           /\ At(f, cursor) >= Align
           /\ cursor + PaddedLength(At(f, cursor)) <= CertEnd(f)
           /\ Fill[cursor + PaddedLength(At(f, cursor))]
  IN Fill[CertOffset(f)]

(* Mutant: one byte of padding less. *)
TerminalPaddingBelow(f) ==
  /\ Len(f) - CertEnd(f) < MaxPadding
  /\ \A offset \in CertEnd(f) .. Len(f) - 1 : At(f, offset) = 0

(* At most MAX_TERMINAL_PADDING bytes follow the table, all of them zero. *)
TerminalPadding(f) ==
  /\ Len(f) - CertEnd(f) <= MaxPadding
  /\ \A offset \in CertEnd(f) .. Len(f) - 1 : At(f, offset) = 0

Strippable(f) ==
  /\ HeadersOk(f)
  /\ HasTable(f)
  /\ CertOffset(f) % Align = 0 /\ CertSize(f) % Align = 0
  /\ SectionsInBounds(f)
  /\ \A i \in Sections(f) : RawSize(f, i) # 0 => RawEnd(f, i) <= CertOffset(f)
  /\ CertEnd(f) <= Len(f)
  /\ TerminalPadding(f)
  /\ EntriesFill(f)
  /\ CertDirectory(f) + 2 <= CertOffset(f)

(* Mutant: only the offset of the directory entry is zeroed. *)
StripFileHalf(f) ==
  [k \in 1 .. CertOffset(f) |-> IF k - 1 = CertDirectory(f) THEN 0 ELSE f[k]]

(* data[:certificate_offset] with the directory entry zeroed *)
StripFile(f) ==
  [k \in 1 .. CertOffset(f) |->
     IF k - 1 \in {CertDirectory(f), CertDirectory(f) + 1} THEN 0 ELSE f[k]]

=============================================================================

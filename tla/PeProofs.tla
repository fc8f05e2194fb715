------------------------------ MODULE PeProofs ------------------------------
(***************************************************************************)
(* What holds of the PE tools for every set of images, alignment, bound on *)
(* terminal padding and number of signatures.                              *)
(*                                                                         *)
(* The argument: whatever was done to it, an image that was not cut is     *)
(* Content, built and perhaps mutated, alone (Unsigned) or with the table  *)
(* of one known signature behind it (InTable); one that was cut declares   *)
(* more than it has (Broken).  A file is looked at through its cells: the  *)
(* headers (SameHeaders, SameTable), the signed body (Signed), the         *)
(* certificates (Entries) and the command line (TextEnd).                  *)
(***************************************************************************)
EXTENDS PeTools, SequenceTheorems, WellFoundedInduction, TLAPS

(* What the image holds before its certificates, up to the alignment. *)
Content == IF tampered THEN MutateFile(origin) ELSE origin

(* f is body with a table behind it whose first certificate is the n-th
   signature. *)
Signed(f, body, n) ==
  /\ f \in Files /\ HeadersOk(f) /\ CertDirectory(f) = CertDirectory(body)
  /\ HasTable(f) /\ CertEnd(f) <= Len(f)
  /\ StripFile(f) = body
  /\ CertOffset(f) + Align < CertEnd(f)
  /\ At(f, CertOffset(f) + Align) = n

(* The certificates of a signed image: its signature and perhaps an empty one
   behind it.  Zeros follow. *)
Entries(f) ==
  /\ At(f, CertOffset(f)) = Align + 1
  /\ \/ CertSize(f) = PaddedLength(Align + 1)
     \/ /\ CertSize(f) = PaddedLength(Align + 1) + Align
        /\ At(f, CertOffset(f) + PaddedLength(Align + 1)) = Align
  /\ \A k \in CertEnd(f) + 1 .. Len(f) : f[k] = 0

(* A file that is not as long as its headers say: neither tool nor the firmware
   accepts it. *)
Broken(f) == HeadersOk(f) /\ HasTable(f) => CertEnd(f) > Len(f)

(* The signature in the table of a file, if it has one, was made before. *)
Known(f) ==
  HeadersOk(f) /\ HasTable(f) /\ CertEnd(f) <= Len(f) =>
    At(f, CertOffset(f) + Align) \in DOMAIN signatures

Types ==
  /\ origin \in Images /\ file \in Files /\ signatures \in Seq(Files)
  /\ tampered \in BOOLEAN /\ stale \in BOOLEAN /\ cut \in BOOLEAN

Unsigned == file \in {Content, Aligned(Content)} /\ stale

(* A stale table holds the signature of the image before its mutation. *)
InTable ==
  \E n \in DOMAIN signatures :
    /\ Signed(file, Aligned(Content), n)
    /\ IF stale THEN tampered /\ signatures[n] = Aligned(origin)
                ELSE signatures[n] = Aligned(Content)

Inspected ==
  static # None =>
    /\ static.image \in Files /\ Known(static.image)
    /\ static.verified = Verifies(static.image)
    /\ static.raw = Dumped(static.image)

Inv ==
  /\ Types /\ Inspected
  /\ tampered => Room(origin)
  /\ cut => Broken(file) /\ stale /\ answer # "written"
  /\ ~cut /\ ~HasTable(file) => Unsigned
  /\ ~cut /\ HasTable(file) => InTable /\ Entries(file)

-----------------------------------------------------------------------------
(* Rounding up to the alignment. *)
LEMMA Division ==
  ASSUME NEW x \in Nat, NEW q \in Int, NEW r \in 0 .. Align - 1,
         x = Align * q + r
  PROVE  x \div Align = q
  BY ImageAssumption

LEMMA Padded ==
  ASSUME NEW x \in Nat
  PROVE  PaddedLength(x) \in Nat /\ PaddedLength(x) >= x
  BY ImageAssumption DEF PaddedLength

LEMMA PaddedTwice ==
  ASSUME NEW x \in Nat
  PROVE  PaddedLength(PaddedLength(x)) = PaddedLength(x)
<1> DEFINE q == (x + Align - 1) \div Align
<1>1. q \in Nat
  BY ImageAssumption
<1>2. Align * q + Align - 1 = Align * q + (Align - 1)
  BY <1>1, ImageAssumption
<1>3. (Align * q + Align - 1) \div Align = q
  BY <1>1, <1>2, Division, ImageAssumption
<1>. QED
  BY <1>3 DEF PaddedLength

-----------------------------------------------------------------------------
(* Headers. *)

Directory(f) == {CertDirectory(f), CertDirectory(f) + 1}

(* Where the fields of good headers are: the cells both tools read come before
   the directory entry, and the section table behind it. *)
LEMMA HeaderPlaces ==
  ASSUME NEW f \in Files, HeadersOk(f)
  PROVE  /\ Pe(f) \in Nat /\ Pe(f) >= 1 /\ Pe(f) + 3 <= Len(f)
         /\ SectionCount(f) \in Nat
         /\ OptionalEnd(f) \in Nat /\ OptionalEnd(f) <= Len(f)
         /\ TableEnd(f) \in Nat /\ TableEnd(f) >= OptionalEnd(f)
         /\ Optional(f) = Pe(f) + 3
         /\ DirectoryCount(f) \in {Pe(f) + 4, Pe(f) + 5}
         /\ CertDirectory(f) = DirectoryCount(f) + 1
         /\ CertDirectory(f) + 2 <= OptionalEnd(f) /\ CertDirectory(f) \in Nat
         /\ CertOffset(f) \in Nat /\ CertSize(f) \in Nat
<1>1. Len(f) \in Nat /\ \A k \in 1..Len(f) : f[k] \in Nat
  BY DEF Files
<1>2. \A offset \in Nat : offset < Len(f) => At(f, offset) \in Nat
  BY <1>1 DEF At
<1>3. Pe(f) \in Nat /\ Pe(f) + 3 <= Len(f) /\ Pe(f) # 0
  <2>1. Len(f) >= 1 /\ Pe(f) + 3 <= Len(f) /\ At(f, Pe(f)) = 80
    BY DEF HeadersOk, Signature
  <2>2. Pe(f) = At(f, 0) /\ Pe(f) \in Nat
    BY <1>1, <1>2, <2>1 DEF Pe
  <2>3. Pe(f) = 0 => At(f, 0) = 80 /\ At(f, 0) = 0
    BY <2>1, <2>2
  <2>. QED
    BY <2>1, <2>2, <2>3
<1>4. SectionCount(f) \in Nat /\ OptionalEnd(f) \in Nat
  <2>1. At(f, Pe(f) + 1) \in Nat /\ At(f, Pe(f) + 2) \in Nat
    BY <1>1, <1>2, <1>3
  <2>. QED
    BY <1>3, <2>1 DEF SectionCount, OptionalEnd, Optional
<1>5. DirectoryCount(f) \in {Pe(f) + 4, Pe(f) + 5}
  <2>1. At(f, Optional(f)) \in {1, 2}
    BY DEF HeadersOk, Magics
  <2>. QED
    BY <1>3, <2>1 DEF DirectoryCount, Optional
<1>6. CertDirectory(f) + 2 <= OptionalEnd(f) /\ OptionalEnd(f) <= Len(f)
  BY DEF HeadersOk
<1>7. CertOffset(f) \in Nat /\ CertSize(f) \in Nat
  <2>1. CertDirectory(f) \in Nat
    BY <1>3, <1>5 DEF CertDirectory
  <2>2. CertDirectory(f) < Len(f) /\ CertDirectory(f) + 1 < Len(f)
    BY <1>1, <1>4, <1>6, <2>1
  <2>. QED
    BY <1>2, <2>1, <2>2 DEF CertOffset, CertSize
<1>. QED
  <2>1. CertDirectory(f) = DirectoryCount(f) + 1 /\ CertDirectory(f) \in Nat
    BY <1>3, <1>5 DEF CertDirectory
  <2>2. TableEnd(f) \in Nat /\ TableEnd(f) >= OptionalEnd(f)
    BY <1>4 DEF TableEnd
  <2>. QED
    BY <1>3, <1>4, <1>5, <1>6, <1>7, <2>1, <2>2 DEF Optional

(* Files that agree on the headers of one of them, but perhaps for the
   directory entry, have the same headers. *)
LEMMA SameHeaders ==
  ASSUME NEW f \in Files, NEW g \in Files, HeadersOk(g),
         OptionalEnd(g) <= Len(f),
         \A k \in 1 .. OptionalEnd(g) : k - 1 \notin Directory(g) => f[k] = g[k]
  PROVE  /\ HeadersOk(f) /\ Pe(f) = Pe(g)
         /\ SectionCount(f) = SectionCount(g)
         /\ OptionalEnd(f) = OptionalEnd(g) /\ TableEnd(f) = TableEnd(g)
         /\ CertDirectory(f) = CertDirectory(g)
<1>1. /\ Pe(g) \in Nat /\ Pe(g) >= 1 /\ OptionalEnd(g) \in Nat
      /\ DirectoryCount(g) \in {Pe(g) + 4, Pe(g) + 5}
      /\ CertDirectory(g) = DirectoryCount(g) + 1
      /\ CertDirectory(g) + 2 <= OptionalEnd(g)
      /\ Len(f) \in Nat
  BY HeaderPlaces DEF Files
<1>2. \A offset \in 0 .. CertDirectory(g) - 1 : At(f, offset) = At(g, offset)
  BY <1>1 DEF Directory, At
<1>3. Pe(f) = Pe(g)
  BY <1>1, <1>2 DEF Pe
<1>4. /\ SectionCount(f) = SectionCount(g)
      /\ OptionalEnd(f) = OptionalEnd(g)
      /\ At(f, Pe(f)) = At(g, Pe(g))
      /\ Optional(f) = Optional(g)
      /\ At(f, Optional(f)) = At(g, Optional(g))
  BY <1>1, <1>2, <1>3 DEF SectionCount, OptionalEnd, Optional
<1>5. /\ DirectoryCount(f) = DirectoryCount(g)
      /\ At(f, DirectoryCount(f)) = At(g, DirectoryCount(g))
  BY <1>1, <1>2, <1>4 DEF DirectoryCount
<1>6. CertDirectory(f) = CertDirectory(g) /\ TableEnd(f) = TableEnd(g)
  BY <1>4, <1>5 DEF CertDirectory, TableEnd
<1>7. HeadersOk(f)
  BY <1>1, <1>3, <1>4, <1>5, <1>6 DEF HeadersOk, Optional
<1>. QED
  BY <1>3, <1>4, <1>6, <1>7

(* ...and when they agree on the section table, the same sections. *)
LEMMA SameTable ==
  ASSUME NEW f \in Files, NEW g \in Files, HeadersOk(g),
         TableEnd(g) <= Len(f),
         \A k \in 1 .. TableEnd(g) : k - 1 \notin Directory(g) => f[k] = g[k]
  PROVE  /\ HeadersOk(f) /\ CertDirectory(f) = CertDirectory(g)
         /\ OptionalEnd(f) = OptionalEnd(g) /\ TableEnd(f) = TableEnd(g)
         /\ Sections(f) = Sections(g)
         /\ \A i \in Sections(g) : /\ RawSize(f, i) = RawSize(g, i)
                                   /\ RawOffset(f, i) = RawOffset(g, i)
                                   /\ RawEnd(f, i) = RawEnd(g, i)
         /\ CmdlineSections(f) = CmdlineSections(g)
         /\ CmdlineSection(f) = CmdlineSection(g)
<1>1. /\ HeadersOk(f) /\ SectionCount(f) = SectionCount(g)
      /\ OptionalEnd(f) = OptionalEnd(g) /\ TableEnd(f) = TableEnd(g)
      /\ CertDirectory(f) = CertDirectory(g)
  <2>1. /\ OptionalEnd(g) <= TableEnd(g) /\ OptionalEnd(g) \in Nat
        /\ TableEnd(g) \in Nat /\ Len(f) \in Nat
    BY HeaderPlaces DEF Files
  <2>2. OptionalEnd(g) <= Len(f)
    BY <2>1
  <2>3. 1 .. OptionalEnd(g) \subseteq 1 .. TableEnd(g)
    BY <2>1
  <2>. QED
    BY <2>2, <2>3, SameHeaders
<1>2. /\ OptionalEnd(g) \in Nat /\ SectionCount(g) \in Nat
      /\ CertDirectory(g) + 2 <= OptionalEnd(g)
      /\ TableEnd(g) = OptionalEnd(g) + 3 * SectionCount(g)
      /\ CertDirectory(g) \in Nat /\ TableEnd(g) \in Nat
  BY HeaderPlaces DEF TableEnd
<1>3. Sections(f) = Sections(g)
  BY <1>1 DEF Sections
<1>4. ASSUME NEW i \in Sections(g)
      PROVE  /\ Name(f, i) = Name(g, i)
             /\ RawSize(f, i) = RawSize(g, i)
             /\ RawOffset(f, i) = RawOffset(g, i)
  <2>1. Entry(f, i) = Entry(g, i)
    BY <1>1 DEF Entry
  <2>2. Entry(g, i) \in OptionalEnd(g) .. TableEnd(g) - 3
    BY <1>2 DEF Entry, Sections
  <2>3. \A offset \in OptionalEnd(g) .. TableEnd(g) - 1 :
          At(f, offset) = At(g, offset)
    <3> TAKE offset \in OptionalEnd(g) .. TableEnd(g) - 1
    <3>1. /\ offset + 1 \in 1 .. TableEnd(g)
          /\ offset # CertDirectory(g) /\ offset # CertDirectory(g) + 1
          /\ offset + 1 - 1 = offset
      BY <1>2
    <3>2. f[offset + 1] = g[offset + 1]
      BY <3>1 DEF Directory
    <3>. QED
      BY <3>2 DEF At
  <2>. QED
    <3>1. /\ Entry(g, i) \in OptionalEnd(g) .. TableEnd(g) - 1
          /\ Entry(g, i) + 1 \in OptionalEnd(g) .. TableEnd(g) - 1
          /\ Entry(g, i) + 2 \in OptionalEnd(g) .. TableEnd(g) - 1
      BY <1>2, <2>2
    <3>2. /\ At(f, Entry(g, i)) = At(g, Entry(g, i))
          /\ At(f, Entry(g, i) + 1) = At(g, Entry(g, i) + 1)
          /\ At(f, Entry(g, i) + 2) = At(g, Entry(g, i) + 2)
      BY <2>3, <3>1, Zenon
    <3>. QED
      BY <2>1, <3>2 DEF Name, RawSize, RawOffset
<1>5. CmdlineSections(f) = CmdlineSections(g)
  BY <1>3, <1>4 DEF CmdlineSections
<1>6. CmdlineSection(f) = CmdlineSection(g)
  BY <1>5 DEF CmdlineSection
<1>. QED
  BY <1>1, <1>3, <1>4, <1>5, <1>6 DEF RawEnd

-----------------------------------------------------------------------------
(* Files as sequences of cells. *)

LEMMA ZerosCells ==
  ASSUME NEW n \in Nat
  PROVE  /\ Zeros(n) \in Files /\ Len(Zeros(n)) = n
         /\ \A k \in 1 .. n : Zeros(n)[k] = 0
  BY DEF Zeros, Files

LEMMA JoinedCells ==
  ASSUME NEW f \in Files, NEW g \in Files
  PROVE  /\ f \o g \in Files
         /\ Len(f) \in Nat /\ Len(g) \in Nat /\ Len(f \o g) = Len(f) + Len(g)
         /\ \A k \in 1 .. Len(f) : (f \o g)[k] = f[k]
         /\ \A k \in 1 .. Len(g) : (f \o g)[Len(f) + k] = g[k]
<1> DEFINE h == f \o g
<1>1. f \in Seq(Nat) /\ g \in Seq(Nat) /\ Len(f) \in Nat /\ Len(g) \in Nat
  BY DEF Files
<1>2. /\ h \in Seq(Nat) /\ Len(h) = Len(f) + Len(g)
      /\ \A k \in 1 .. Len(f) + Len(g) :
           h[k] = IF k <= Len(f) THEN f[k] ELSE g[k - Len(f)]
  BY <1>1, ConcatProperties
<1> HIDE DEF h
<1>3. \A k \in 1 .. Len(f) : h[k] = f[k]
  <2> TAKE k \in 1 .. Len(f)
  <2>1. k \in 1 .. Len(f) + Len(g) /\ k <= Len(f)
    BY <1>1
  <2>. QED
    BY <1>2, <2>1
<1>4. \A k \in 1 .. Len(g) : h[Len(f) + k] = g[k]
  <2> TAKE k \in 1 .. Len(g)
  <2> DEFINE at == Len(f) + k
  <2>1. at \in 1 .. Len(f) + Len(g) /\ ~(at <= Len(f)) /\ at - Len(f) = k
    BY <1>1
  <2> HIDE DEF at
  <2>2. h[at] = g[at - Len(f)]
    BY <1>2, <2>1
  <2>. QED
    BY <2>1, <2>2 DEF at
<1>. QED
  BY <1>1, <1>2, <1>3, <1>4 DEF Files, h

LEMMA SliceCells ==
  ASSUME NEW f \in Files, NEW a \in Nat, NEW b \in Nat, a <= b, b <= Len(f)
  PROVE  /\ SubSeq(f, a + 1, b) \in Files /\ Len(SubSeq(f, a + 1, b)) = b - a
         /\ \A k \in 1 .. b - a : SubSeq(f, a + 1, b)[k] = f[a + k]
<1>1. f \in Seq(Nat) /\ Len(f) \in Nat
  BY DEF Files
<1>2. \A k \in a + 1 .. b : f[k] \in Nat
  <2> TAKE k \in a + 1 .. b
  <2>1. k \in 1 .. Len(f)
    BY <1>1
  <2>. QED
    BY <1>1, <2>1, ElementOfSeq
<1> DEFINE s == SubSeq(f, a + 1, b)
<1>3. /\ s \in Seq(Nat)
      /\ Len(s) = IF a + 1 <= b THEN b - (a + 1) + 1 ELSE 0
      /\ \A k \in 1 .. b - (a + 1) + 1 : s[k] = f[a + 1 + k - 1]
  BY <1>2, SubSeqProperties
<1> HIDE DEF s
<1>4. Len(s) = b - a
  BY <1>3
<1>5. ASSUME NEW k \in 1 .. b - a PROVE s[k] = f[a + k]
  <2>1. k \in 1 .. b - (a + 1) + 1 /\ a + 1 + k - 1 = a + k
    OBVIOUS
  <2>. QED
    BY <1>3, <2>1
<1>. QED
  BY <1>3, <1>4, <1>5 DEF Files, s

(* Slices of files that hold the same cells are equal. *)
LEMMA SameSlice ==
  ASSUME NEW f \in Files, NEW g \in Files, NEW a \in Nat, NEW b \in Nat,
         a <= b, b <= Len(f), b <= Len(g), \A k \in a + 1 .. b : f[k] = g[k]
  PROVE  SubSeq(f, a + 1, b) = SubSeq(g, a + 1, b)
<1> DEFINE s == SubSeq(f, a + 1, b)
           t == SubSeq(g, a + 1, b)
<1>1. /\ s \in Seq(Nat) /\ t \in Seq(Nat) /\ Len(s) = b - a /\ Len(t) = b - a
      /\ \A k \in 1 .. b - a : s[k] = f[a + k] /\ t[k] = g[a + k]
  BY SliceCells DEF Files
<1> HIDE DEF s, t
<1>2. ASSUME NEW k \in 1 .. Len(s) PROVE s[k] = t[k]
  <2>1. k \in 1 .. b - a /\ a + k \in a + 1 .. b
    BY <1>1
  <2>2. f[a + k] = g[a + k]
    BY <2>1
  <2>. QED
    BY <1>1, <2>1, <2>2
<1>3. s = t
  BY <1>1, <1>2, SeqEqual
<1>. QED
  BY <1>3 DEF s, t

LEMMA AlignedCells ==
  ASSUME NEW f \in Files
  PROVE  /\ Aligned(f) \in Files /\ Len(Aligned(f)) = PaddedLength(Len(f))
         /\ Len(Aligned(f)) \in Nat /\ Len(Aligned(f)) >= Len(f)
         /\ \A k \in 1 .. Len(f) : Aligned(f)[k] = f[k]
         /\ \A k \in Len(f) + 1 .. Len(Aligned(f)) : Aligned(f)[k] = 0
<1> DEFINE z == PaddedLength(Len(f)) - Len(f)
<1>1. Len(f) \in Nat /\ f \in Seq(Nat)
  BY DEF Files
<1>2. z \in Nat
  BY <1>1, Padded
<1>3. Zeros(z) \in Seq(Nat) /\ Len(Zeros(z)) = z
  BY <1>2, ZerosCells DEF Files
<1>4. Aligned(f) = f \o Zeros(z)
  BY DEF Aligned
<1> HIDE DEF z
<1>5. /\ Aligned(f) \in Seq(Nat) /\ Len(Aligned(f)) = Len(f) + z
      /\ \A k \in 1 .. Len(f) + z :
           Aligned(f)[k] = IF k <= Len(f) THEN f[k] ELSE Zeros(z)[k - Len(f)]
  BY <1>1, <1>3, <1>4, ConcatProperties
<1>6. \A k \in 1 .. Len(f) : Aligned(f)[k] = f[k]
  BY <1>1, <1>2, <1>5
<1>7. Len(f) + z = PaddedLength(Len(f))
  BY <1>1, Padded DEF z
<1>8. \A k \in Len(f) + 1 .. Len(f) + z : Aligned(f)[k] = 0
  <2> TAKE k \in Len(f) + 1 .. Len(f) + z
  <2>1. k \in 1 .. Len(f) + z /\ ~(k <= Len(f)) /\ k - Len(f) \in 1 .. z
    BY <1>1, <1>2
  <2>. QED
    BY <1>2, <1>5, <2>1, ZerosCells
<1>. QED
  BY <1>1, <1>2, <1>5, <1>6, <1>7, <1>8 DEF Files

(* Aligning twice is aligning once. *)
LEMMA AlignedTwice ==
  ASSUME NEW f \in Files
  PROVE  Aligned(Aligned(f)) = Aligned(f)
<1>1. /\ Aligned(f) \in Files /\ Len(Aligned(f)) = PaddedLength(Len(f))
      /\ Len(f) \in Nat
  BY AlignedCells DEF Files
<1>2. PaddedLength(Len(Aligned(f))) - Len(Aligned(f)) = 0
  BY <1>1, PaddedTwice, Padded
<1>3. Zeros(0) = <<>>
  BY DEF Zeros
<1>4. Aligned(Aligned(f)) = Aligned(f) \o <<>>
  BY <1>2, <1>3 DEF Aligned
<1>. QED
  BY <1>1, <1>4, ConcatEmptySeq DEF Files

(* Images that differ differ when they are aligned. *)
LEMMA AlignedApart ==
  ASSUME NEW f \in Files, NEW g \in Files, Len(f) = Len(g),
         NEW k \in 1 .. Len(f), f[k] # g[k]
  PROVE  Aligned(f) # Aligned(g)
  BY AlignedCells

LEMMA CertificateCells ==
  ASSUME NEW n \in Nat
  PROVE  /\ Certificate(n) \in Files /\ Len(Certificate(n)) \in Nat
         /\ Len(Certificate(n)) > Align
         /\ Len(Certificate(n)) = PaddedLength(Align + 1)
         /\ Certificate(n)[1] = Align + 1
         /\ Certificate(n)[Align + 1] = n
<1> DEFINE p == PaddedLength(Align + 1) - Align - 1
           head == <<Align + 1>> \o Zeros(Align - 1)
           text == head \o <<n>>
<1>1. Align \in Nat /\ Align >= 2 /\ Align - 1 \in Nat
  BY ImageAssumption
<1>2. p \in Nat
  BY <1>1, Padded
<1>3. /\ Zeros(Align - 1) \in Seq(Nat) /\ Len(Zeros(Align - 1)) = Align - 1
      /\ Zeros(p) \in Seq(Nat) /\ Len(Zeros(p)) = p
  BY <1>1, <1>2, ZerosCells DEF Files
<1>4. <<Align + 1>> \in Seq(Nat) /\ Len(<<Align + 1>>) = 1
  BY <1>1
<1>5. head \in Seq(Nat) /\ Len(head) = Align /\ head[1] = Align + 1
  BY <1>1, <1>3, <1>4, ConcatProperties
<1>6. <<n>> \in Seq(Nat) /\ Len(<<n>>) = 1 /\ <<n>>[1] = n
  OBVIOUS
<1>7. Certificate(n) = text \o Zeros(p)
  BY DEF Certificate
<1> HIDE DEF p, head
<1>8. /\ text \in Seq(Nat) /\ Len(text) = Align + 1 /\ text[Align + 1] = n
      /\ text[1] = Align + 1
  BY <1>1, <1>5, <1>6, ConcatProperties DEF text
<1> HIDE DEF text
<1>9. /\ text \o Zeros(p) \in Seq(Nat)
      /\ Len(text \o Zeros(p)) = Len(text) + Len(Zeros(p))
      /\ \A k \in 1 .. Len(text) + Len(Zeros(p)) :
           (text \o Zeros(p))[k] =
             IF k <= Len(text) THEN text[k] ELSE Zeros(p)[k - Len(text)]
  BY <1>3, <1>8, ConcatProperties
<1>10. (text \o Zeros(p))[Align + 1] = n
  BY <1>1, <1>2, <1>3, <1>8, <1>9
<1>11. (text \o Zeros(p))[1] = Align + 1
  BY <1>1, <1>2, <1>3, <1>8, <1>9
<1>12. Len(text) + Len(Zeros(p)) = PaddedLength(Align + 1)
  <2>1. Align + 1 \in Nat
    BY <1>1
  <2>2. PaddedLength(Align + 1) \in Nat
    BY <2>1, Padded
  <2>3. PaddedLength(Align + 1) = Align + 1 + p
    BY <1>1, <2>2 DEF p
  <2>. QED
    BY <1>3, <1>8, <2>3
<1>. QED
  BY <1>1, <1>2, <1>3, <1>7, <1>8, <1>9, <1>10, <1>11, <1>12 DEF Files

-----------------------------------------------------------------------------
(* Images without certificates and images with them. *)

Plain(f) ==
  /\ f \in Files /\ HeadersOk(f) /\ TableEnd(f) <= Len(f)
  /\ CertOffset(f) = 0 /\ CertSize(f) = 0

(* A file that begins with the headers of a plain one is plain. *)
LEMMA PlainPrefix ==
  ASSUME NEW f \in Files, NEW g \in Files, Plain(g), Len(f) >= Len(g),
         \A k \in 1 .. TableEnd(g) : f[k] = g[k]
  PROVE  /\ Plain(f) /\ ~HasTable(f) /\ CertDirectory(f) = CertDirectory(g)
         /\ TableEnd(f) = TableEnd(g) /\ Sections(f) = Sections(g)
         /\ \A i \in Sections(g) : /\ RawSize(f, i) = RawSize(g, i)
                                   /\ RawOffset(f, i) = RawOffset(g, i)
                                   /\ RawEnd(f, i) = RawEnd(g, i)
         /\ CmdlineSections(f) = CmdlineSections(g)
         /\ CmdlineSection(f) = CmdlineSection(g)
<1>1. /\ Len(f) \in Nat /\ Len(g) \in Nat /\ TableEnd(g) \in Nat
      /\ TableEnd(g) <= Len(g) /\ HeadersOk(g)
      /\ CertDirectory(g) \in Nat /\ CertDirectory(g) + 2 <= TableEnd(g)
      /\ CertOffset(g) = 0 /\ CertSize(g) = 0
  <2>1. HeadersOk(g) /\ TableEnd(g) <= Len(g)
        /\ CertOffset(g) = 0 /\ CertSize(g) = 0
    BY DEF Plain
  <2>2. /\ TableEnd(g) \in Nat /\ TableEnd(g) >= OptionalEnd(g)
        /\ OptionalEnd(g) \in Nat /\ CertDirectory(g) \in Nat
        /\ CertDirectory(g) + 2 <= OptionalEnd(g)
    BY <2>1, HeaderPlaces
  <2>3. Len(f) \in Nat /\ Len(g) \in Nat
    BY DEF Files
  <2>. QED
    BY <2>1, <2>2, <2>3
<1>2. TableEnd(g) <= Len(f)
  BY <1>1
<1>3. /\ HeadersOk(f) /\ CertDirectory(f) = CertDirectory(g)
      /\ TableEnd(f) = TableEnd(g)
  BY <1>1, <1>2, SameTable
<1>4. CertOffset(f) = 0 /\ CertSize(f) = 0
  <2>1. /\ CertDirectory(g) + 1 \in 1 .. TableEnd(g)
        /\ CertDirectory(g) + 1 + 1 \in 1 .. TableEnd(g)
    BY <1>1
  <2>. QED
    BY <1>1, <1>3, <2>1 DEF CertOffset, CertSize, At
<1>. QED
  BY <1>1, <1>2, <1>3, <1>4, SameTable DEF Plain, HasTable

LEMMA PlainAligned ==
  ASSUME NEW f \in Files, Plain(f)
  PROVE  Plain(Aligned(f)) /\ CertDirectory(Aligned(f)) = CertDirectory(f)
<1>1. /\ TableEnd(f) <= Len(f) /\ TableEnd(f) \in Nat /\ Len(f) \in Nat
  BY HeaderPlaces DEF Plain, Files
<1>2. \A k \in 1 .. TableEnd(f) : Aligned(f)[k] = f[k]
  BY <1>1, AlignedCells
<1>. QED
  BY <1>2, PlainPrefix, AlignedCells

(* What a signed image shares with its body. *)
LEMMA SignedCells ==
  ASSUME NEW f, NEW body \in Files, NEW n, Plain(body), Signed(f, body, n)
  PROVE  /\ f \in Files /\ HeadersOk(f) /\ HasTable(f)
         /\ CertDirectory(f) = CertDirectory(body)
         /\ CertOffset(f) = Len(body) /\ CertOffset(f) \in Nat
         /\ CertSize(f) \in Nat /\ Len(f) \in Nat
         /\ CertOffset(f) + Align < CertEnd(f)
         /\ CertEnd(f) <= Len(f) /\ CertEnd(f) \in Nat
         /\ OptionalEnd(f) = OptionalEnd(body)
         /\ TableEnd(f) = TableEnd(body)
         /\ TableEnd(f) \in Nat /\ TableEnd(f) <= CertOffset(f)
         /\ \A k \in 1 .. CertOffset(f) :
              k - 1 \notin Directory(body) => f[k] = body[k]
<1> USE DEF Signed
<1>1. /\ f \in Files /\ Len(f) \in Nat /\ body \in Files /\ Len(body) \in Nat
      /\ HeadersOk(f) /\ CertDirectory(f) = CertDirectory(body)
      /\ CertOffset(f) \in Nat /\ CertSize(f) \in Nat
  <2>1. f \in Files /\ HeadersOk(f)
    OBVIOUS
  <2>2. CertOffset(f) \in Nat /\ CertSize(f) \in Nat
    BY <2>1, HeaderPlaces
  <2>3. Len(f) \in Nat /\ Len(body) \in Nat
    BY <2>1 DEF Files
  <2>. QED
    BY <2>1, <2>2, <2>3
<1>2. /\ TableEnd(body) \in Nat /\ TableEnd(body) <= Len(body)
      /\ HeadersOk(body)
  BY HeaderPlaces DEF Plain
<1>3. DOMAIN StripFile(f) = 1 .. CertOffset(f) /\ DOMAIN body = 1 .. Len(body)
  BY DEF StripFile, Files
<1>4. CertOffset(f) = Len(body)
  <2>1. 1 .. CertOffset(f) = 1 .. Len(body)
    BY <1>3
  <2>. QED
    BY <1>1, <2>1
<1>5. \A k \in 1 .. CertOffset(f) : k - 1 \notin Directory(body) => f[k] = body[k]
  <2> TAKE k \in 1 .. CertOffset(f)
  <2> HAVE k - 1 \notin Directory(body)
  <2>1. StripFile(f)[k] = f[k]
    BY <1>1 DEF StripFile, Directory
  <2>. QED
    BY <2>1
<1>6. CertEnd(f) \in Nat /\ CertEnd(f) <= Len(f) /\ CertOffset(f) <= Len(f)
  BY <1>1 DEF CertEnd
<1>7. /\ OptionalEnd(f) = OptionalEnd(body)
      /\ TableEnd(f) = TableEnd(body)
  <2>1. TableEnd(body) <= Len(f)
    BY <1>1, <1>2, <1>4, <1>6
  <2>2. \A k \in 1 .. TableEnd(body) :
          k - 1 \notin Directory(body) => f[k] = body[k]
    BY <1>1, <1>2, <1>4, <1>5
  <2>. QED
    BY <1>1, <1>2, <2>1, <2>2, SameTable
<1>. QED
  BY <1>1, <1>2, <1>4, <1>5, <1>6, <1>7

(* The signer puts a table with its signature behind the aligned image. *)
LEMMA SignsPlain ==
  ASSUME NEW f \in Files, Plain(f), NEW n \in Nat
  PROVE  /\ Signed(SignFile(f, n), Aligned(f), n)
         /\ Entries(SignFile(f, n))
         /\ CertSize(SignFile(f, n)) = PaddedLength(Align + 1)
         /\ CertEnd(SignFile(f, n)) = Len(SignFile(f, n))
<1> DEFINE body == Aligned(f)
           cert == Certificate(n)
           head == [k \in 1 .. Len(body) |->
                      IF k - 1 = CertDirectory(f) THEN Len(body)
                      ELSE IF k - 1 = CertDirectory(f) + 1 THEN Len(cert)
                      ELSE body[k]]
           g == SignFile(f, n)
<1>1. /\ Plain(body) /\ body \in Files /\ Len(body) \in Nat
      /\ CertDirectory(body) = CertDirectory(f)
  BY PlainAligned, AlignedCells
<1>2. /\ cert \in Files /\ Len(cert) \in Nat /\ Len(cert) > Align
      /\ Len(cert) = PaddedLength(Align + 1)
      /\ cert[1] = Align + 1 /\ cert[Align + 1] = n
  BY CertificateCells
<1>3. g = head \o cert
  BY DEF SignFile
<1> HIDE DEF body, cert, g
<1>4. body \in Seq(Nat) /\ \A k \in 1 .. Len(body) : body[k] \in Nat
  BY <1>1 DEF Files
<1>5. head \in Seq(Nat) /\ Len(head) = Len(body)
  BY <1>1, <1>2, <1>4
<1> DEFINE d == CertDirectory(f)
<1>6. /\ d \in Nat /\ d + 2 <= OptionalEnd(body) /\ OptionalEnd(body) \in Nat
      /\ TableEnd(body) \in Nat /\ OptionalEnd(body) <= TableEnd(body)
      /\ TableEnd(body) <= Len(body) /\ HeadersOk(body)
      /\ CertOffset(body) = 0 /\ CertSize(body) = 0
  BY <1>1, HeaderPlaces DEF Plain
<1>7. /\ head[d + 1] = Len(body) /\ head[d + 2] = Len(cert)
      /\ \A k \in 1 .. Len(body) : k # d + 1 /\ k # d + 2 => head[k] = body[k]
  BY <1>1, <1>6
<1>8. body[d + 1] = 0 /\ body[d + 2] = 0
  <2>1. d + 1 + 1 = d + 2
    BY <1>6
  <2>. QED
    BY <1>1, <1>6, <2>1 DEF CertOffset, CertSize, At
<1> HIDE DEF head
<1>9. /\ g \in Seq(Nat) /\ Len(g) = Len(body) + Len(cert)
      /\ \A k \in 1 .. Len(body) + Len(cert) :
           g[k] = IF k <= Len(body) THEN head[k] ELSE cert[k - Len(body)]
  <2>1. cert \in Seq(Nat)
    BY <1>2 DEF Files
  <2>2. /\ head \o cert \in Seq(Nat)
        /\ Len(head \o cert) = Len(head) + Len(cert)
        /\ \A k \in 1 .. Len(head) + Len(cert) :
             (head \o cert)[k] =
               IF k <= Len(head) THEN head[k] ELSE cert[k - Len(head)]
    BY <2>1, <1>5, ConcatProperties
  <2>. QED
    BY <2>2, <1>3, <1>5
<1>10. \A k \in 1 .. Len(body) : g[k] = head[k]
  BY <1>1, <1>2, <1>9
<1>11. g[Len(body) + Align + 1] = n
  <2> DEFINE at == Len(body) + Align + 1
  <2>1. at \in 1 .. Len(body) + Len(cert) /\ ~(at <= Len(body))
    BY <1>1, <1>2, ImageAssumption
  <2>2. at - Len(body) = Align + 1
    BY <1>1, ImageAssumption
  <2> HIDE DEF at
  <2>3. g[at] = cert[at - Len(body)]
    BY <1>9, <2>1
  <2>. QED
    BY <1>2, <2>2, <2>3 DEF at
<1>12. HeadersOk(g) /\ CertDirectory(g) = d
  <2>1. OptionalEnd(body) <= Len(g) /\ g \in Files
    BY <1>1, <1>2, <1>6, <1>9 DEF Files
  <2>2. ASSUME NEW k \in 1 .. OptionalEnd(body), k - 1 \notin Directory(body)
        PROVE  g[k] = body[k]
    <3>1. k \in Nat /\ d \in Nat
      BY <1>6
    <3>2. k # d + 1 /\ k # d + 2
      <4>1. CertDirectory(body) = d
        BY <1>1
      <4>2. k - 1 # d /\ k - 1 # d + 1
        BY ONLY <2>2, <4>1 DEF Directory
      <4>. QED
        BY ONLY <3>1, <4>2
    <3>3. k \in 1 .. Len(body)
      BY <1>1, <1>6
    <3>. QED
      BY ONLY <1>7, <1>10, <3>2, <3>3
  <2>. QED
    BY <1>1, <1>6, <2>1, <2>2, SameHeaders
<1>13. CertOffset(g) = Len(body) /\ CertSize(g) = Len(cert)
  <2>1. /\ d + 1 \in 1 .. Len(body) /\ d + 2 \in 1 .. Len(body)
        /\ d + 1 + 1 = d + 2
    BY <1>1, <1>6
  <2>2. CertOffset(g) = g[d + 1] /\ CertSize(g) = g[d + 2]
    BY <1>12, <2>1 DEF CertOffset, CertSize, At
  <2>. QED
    BY <1>7, <1>10, <2>1, <2>2
<1>14. CertEnd(g) = Len(g) /\ Len(g) \in Nat
  BY <1>1, <1>2, <1>9, <1>13 DEF CertEnd
<1>15. StripFile(g) = body
  <2>1. StripFile(g) = [k \in 1 .. Len(body) |->
                          IF k - 1 \in {d, d + 1} THEN 0 ELSE g[k]]
    BY <1>12, <1>13 DEF StripFile
  <2>2. \A k \in 1 .. Len(body) :
          body[k] = IF k - 1 \in {d, d + 1} THEN 0 ELSE g[k]
    BY <1>1, <1>6, <1>7, <1>8, <1>10
  <2>3. body = [k \in 1 .. Len(body) |-> body[k]]
    BY <1>4
  <2>. QED
    BY <2>1, <2>2, <2>3
<1>16. HasTable(g)
  BY <1>1, <1>2, <1>6, <1>13, ImageAssumption DEF HasTable
<1>17. /\ CertOffset(g) + Align < CertEnd(g)
       /\ At(g, CertOffset(g) + Align) = n
  BY <1>1, <1>2, <1>9, <1>11, <1>13, <1>14, ImageAssumption DEF At
<1>18. At(g, CertOffset(g)) = Align + 1
  <2> DEFINE at == Len(body) + 1
  <2>1. at \in 1 .. Len(body) + Len(cert) /\ ~(at <= Len(body))
    BY <1>1, <1>2, ImageAssumption
  <2>2. at - Len(body) = 1
    BY <1>1
  <2> HIDE DEF at
  <2>3. g[at] = cert[at - Len(body)]
    BY <1>9, <2>1
  <2>. QED
    BY <1>2, <1>13, <2>2, <2>3 DEF At, at
<1>19. Entries(g) /\ CertSize(g) = PaddedLength(Align + 1)
  BY <1>2, <1>13, <1>14, <1>18 DEF Entries
<1>. QED
  BY <1>1, <1>9, <1>12, <1>14, <1>15, <1>16, <1>17, <1>19
     DEF Signed, Files, body, g

(* A file that keeps all cells up to the end of the table, such as a padded or
   slightly shortened copy, is signed like the original. *)
LEMMA StaysSigned ==
  ASSUME NEW f, NEW body \in Files, NEW n, Plain(body), Signed(f, body, n),
         NEW g \in Files, Len(g) >= CertEnd(f),
         \A k \in 1 .. CertEnd(f) : g[k] = f[k]
  PROVE  /\ Signed(g, body, n)
         /\ CertOffset(g) = CertOffset(f) /\ CertSize(g) = CertSize(f)
<1>1. /\ f \in Files /\ HeadersOk(f) /\ HasTable(f)
      /\ CertDirectory(f) = CertDirectory(body)
      /\ CertOffset(f) \in Nat /\ CertEnd(f) \in Nat
      /\ CertOffset(f) + Align < CertEnd(f)
      /\ TableEnd(f) \in Nat /\ TableEnd(f) <= CertOffset(f)
      /\ CertEnd(f) <= Len(f)
  BY SignedCells
<1>2. /\ CertDirectory(f) \in Nat /\ CertDirectory(f) + 2 <= OptionalEnd(f)
      /\ OptionalEnd(f) \in Nat /\ OptionalEnd(f) <= TableEnd(f)
  BY <1>1, HeaderPlaces
<1>3. /\ Len(g) \in Nat /\ OptionalEnd(f) <= Len(g) /\ Align \in Nat
      /\ 1 .. OptionalEnd(f) \subseteq 1 .. CertEnd(f)
      /\ 1 .. CertOffset(f) \subseteq 1 .. CertEnd(f)
  <2>1. Len(g) \in Nat /\ Align \in Nat
    BY ImageAssumption DEF Files
  <2>. QED
    BY <1>1, <1>2, <2>1
<1>4. HeadersOk(g) /\ CertDirectory(g) = CertDirectory(f)
  BY <1>1, <1>3, SameHeaders
<1>5. CertOffset(g) = CertOffset(f) /\ CertSize(g) = CertSize(f)
  <2>1. /\ CertDirectory(f) + 1 \in 1 .. CertEnd(f)
        /\ CertDirectory(f) + 1 + 1 \in 1 .. CertEnd(f)
    BY <1>1, <1>2, <1>3
  <2>. QED
    BY <1>4, <2>1 DEF CertOffset, CertSize, At
<1>6. CertEnd(g) = CertEnd(f) /\ HasTable(g)
  BY <1>1, <1>5 DEF CertEnd, HasTable
<1>7. StripFile(g) = StripFile(f)
  BY <1>3, <1>4, <1>5 DEF StripFile
<1>8. At(g, CertOffset(g) + Align) = At(f, CertOffset(f) + Align)
  <2>1. CertOffset(f) + Align + 1 \in 1 .. CertEnd(f)
    BY <1>1, <1>3
  <2>. QED
    BY <1>5, <2>1 DEF At
<1>. QED
  BY <1>1, <1>4, <1>5, <1>6, <1>7, <1>8 DEF Signed

LEMMA KeepsEntries ==
  ASSUME NEW f, NEW g, NEW body \in Files, NEW n,
         Plain(body), Signed(f, body, n), Entries(f),
         CertOffset(g) = CertOffset(f), CertSize(g) = CertSize(f),
         \A k \in CertOffset(f) + 1 .. CertEnd(f) : g[k] = f[k],
         \A k \in CertEnd(f) + 1 .. Len(g) : g[k] = 0
  PROVE  Entries(g)
<1> DEFINE p == PaddedLength(Align + 1)
<1>1. /\ CertOffset(f) \in Nat /\ CertSize(f) \in Nat
      /\ CertOffset(f) + Align < CertEnd(f) /\ Align \in Nat
      /\ CertEnd(f) = CertOffset(f) + CertSize(f)
  BY SignedCells, ImageAssumption DEF CertEnd
<1>2. p \in Nat /\ p >= Align + 1
  <2>1. Align + 1 \in Nat
    BY <1>1
  <2>. QED
    BY <2>1, Padded
<1> HIDE DEF p
<1>3. /\ At(f, CertOffset(f)) = Align + 1
      /\ \/ CertSize(f) = p
         \/ CertSize(f) = p + Align /\ At(f, CertOffset(f) + p) = Align
  BY DEF Entries, p
<1>4. At(g, CertOffset(g)) = Align + 1
  <2>1. CertOffset(f) + 1 \in CertOffset(f) + 1 .. CertEnd(f)
    BY <1>1
  <2>. QED
    BY <1>3, <2>1 DEF At
<1>5. CertSize(f) = p + Align => At(g, CertOffset(g) + p) = At(f, CertOffset(f) + p)
  <2> HAVE CertSize(f) = p + Align
  <2>1. CertOffset(f) + p + 1 \in CertOffset(f) + 1 .. CertEnd(f)
    BY <1>1, <1>2, ImageAssumption
  <2>. QED
    BY <2>1 DEF At
<1>6. CertEnd(g) = CertEnd(f)
  BY DEF CertEnd
<1>. QED
  BY <1>3, <1>4, <1>5, <1>6 DEF Entries, p

(* A signer's second, empty certificate changes nothing of this. *)
LEMMA StaysSignedWithSecond ==
  ASSUME NEW f, NEW body \in Files, NEW n, Plain(body), Signed(f, body, n)
  PROVE  /\ Signed(WithSecond(f), body, n)
         /\ /\ Entries(f) /\ CertSize(f) = PaddedLength(Align + 1)
            /\ CertEnd(f) = Len(f)
            => Entries(WithSecond(f))
<1> DEFINE d == CertDirectory(f)
           e == [f EXCEPT ![d + 2] = @ + Align]
           g == WithSecond(f)
<1>1. /\ f \in Files /\ HeadersOk(f) /\ HasTable(f) /\ Len(f) \in Nat
      /\ CertDirectory(f) = CertDirectory(body)
      /\ CertOffset(f) \in Nat /\ CertEnd(f) \in Nat /\ CertSize(f) \in Nat
      /\ CertOffset(f) + Align < CertEnd(f)
      /\ TableEnd(f) \in Nat /\ TableEnd(f) <= CertOffset(f)
      /\ CertEnd(f) <= Len(f)
  BY SignedCells
<1>2. /\ d \in Nat /\ d + 2 <= OptionalEnd(f)
      /\ OptionalEnd(f) \in Nat /\ OptionalEnd(f) <= TableEnd(f)
      /\ Align \in Nat /\ Align >= 2
  BY <1>1, HeaderPlaces, ImageAssumption
<1>3. /\ f \in Seq(Nat) /\ d + 2 \in 1 .. Len(f) /\ f[d + 2] \in Nat
      /\ f[d + 2] + Align \in Nat
  <2>1. f \in Seq(Nat)
    BY <1>1 DEF Files
  <2>2. d + 2 \in 1 .. Len(f)
    BY <1>1, <1>2
  <2>. QED
    BY <1>2, <2>1, <2>2, ElementOfSeq
<1>4. /\ e \in Files /\ Len(e) = Len(f) /\ e[d + 2] = f[d + 2] + Align
      /\ \A k \in 1 .. Len(f) : k # d + 2 => e[k] = f[k]
  BY <1>3, ExceptSeq DEF Files
<1>5. /\ <<Align>> \in Files /\ Len(<<Align>>) = 1
      /\ Zeros(Align - 1) \in Files /\ Len(Zeros(Align - 1)) = Align - 1
  <2>1. <<Align>> \in Files /\ Len(<<Align>>) = 1
    BY <1>2 DEF Files
  <2>2. Align - 1 \in Nat
    BY <1>2
  <2>. QED
    BY <2>1, <2>2, ZerosCells
<1>6. g = (e \o <<Align>>) \o Zeros(Align - 1)
  BY DEF WithSecond
<1> HIDE DEF e, d, g
<1>7. /\ g \in Files /\ Len(g) = Len(f) + Align
      /\ \A k \in 1 .. Len(f) : g[k] = e[k]
      /\ g[Len(f) + 1] = Align
  <2> DEFINE h == e \o <<Align>>
  <2>1. /\ h \in Files /\ Len(h) = Len(f) + 1
        /\ \A k \in 1 .. Len(f) : h[k] = e[k]
        /\ h[Len(f) + 1] = Align
    <3>1. /\ h \in Files /\ Len(h) = Len(e) + Len(<<Align>>)
          /\ \A k \in 1 .. Len(e) : h[k] = e[k]
          /\ \A k \in 1 .. Len(<<Align>>) : h[Len(e) + k] = <<Align>>[k]
      BY <1>4, <1>5, JoinedCells
    <3> HIDE DEF h
    <3>2. 1 \in 1 .. Len(<<Align>>) /\ <<Align>>[1] = Align
      BY <1>5
    <3>. QED
      BY <1>4, <1>5, <3>1, <3>2
  <2>2. g = h \o Zeros(Align - 1)
    BY <1>6
  <2> HIDE DEF h
  <2>3. /\ g \in Files /\ Len(g) = Len(h) + Len(Zeros(Align - 1))
        /\ \A k \in 1 .. Len(h) : g[k] = h[k]
    <3>1. /\ h \o Zeros(Align - 1) \in Files
          /\ Len(h \o Zeros(Align - 1)) = Len(h) + Len(Zeros(Align - 1))
          /\ \A k \in 1 .. Len(h) : (h \o Zeros(Align - 1))[k] = h[k]
      BY <1>5, <2>1, JoinedCells
    <3>. QED
      BY <2>2, <3>1
  <2>4. Len(g) = Len(f) + Align
    <3>1. Len(g) = Len(f) + 1 + (Align - 1)
      BY <1>5, <2>1, <2>3
    <3>. QED
      BY <1>1, <1>2, <3>1
  <2>5. 1 .. Len(f) \subseteq 1 .. Len(h) /\ Len(f) + 1 \in 1 .. Len(h)
    BY <1>1, <2>1
  <2>. QED
    BY <2>1, <2>3, <2>4, <2>5
<1>8. \A k \in 1 .. Len(f) : k # d + 2 => g[k] = f[k]
  BY <1>4, <1>7
<1>9. HeadersOk(g) /\ CertDirectory(g) = d
  <2>1. \A k \in 1 .. OptionalEnd(f) : k - 1 \notin Directory(f) => g[k] = f[k]
    BY <1>1, <1>2, <1>8 DEF Directory, d
  <2>2. g \in Files /\ OptionalEnd(f) <= Len(g)
    BY <1>1, <1>2, <1>7
  <2>. QED
    BY <1>1, <2>1, <2>2, SameHeaders DEF d
<1>10. CertOffset(g) = CertOffset(f) /\ CertSize(g) = CertSize(f) + Align
  <2>1. d + 1 \in 1 .. Len(f) /\ d + 1 # d + 2 /\ d + 1 + 1 = d + 2
    BY <1>2, <1>3
  <2>2. g[d + 1] = f[d + 1] /\ g[d + 2] = f[d + 2] + Align
    BY <1>3, <1>4, <1>7, <1>8, <2>1
  <2>3. CertOffset(f) = f[d + 1] /\ CertSize(f) = f[d + 2]
    BY <2>1 DEF CertOffset, CertSize, At, d
  <2>4. CertOffset(g) = g[d + 1] /\ CertSize(g) = g[d + 2]
    BY <1>9, <2>1 DEF CertOffset, CertSize, At
  <2>. QED
    BY <2>2, <2>3, <2>4
<1>11. /\ CertEnd(g) = CertEnd(f) + Align /\ CertEnd(g) <= Len(g)
       /\ HasTable(g) /\ CertOffset(g) + Align < CertEnd(g)
  <2>1. CertEnd(g) = CertEnd(f) + Align
    BY <1>1, <1>2, <1>10 DEF CertEnd
  <2>2. HasTable(g)
    BY <1>1, <1>2, <1>10 DEF HasTable
  <2>. QED
    BY <1>1, <1>2, <1>7, <1>10, <2>1, <2>2
<1>12. StripFile(g) = StripFile(f)
  <2>1. \A k \in 1 .. CertOffset(f) : k - 1 \notin {d, d + 1} => g[k] = f[k]
    BY <1>1, <1>2, <1>8
  <2>. QED
    BY <1>9, <1>10, <2>1 DEF StripFile, d
<1>13. At(g, CertOffset(g) + Align) = At(f, CertOffset(f) + Align)
  <2>1. /\ CertOffset(f) + Align + 1 \in 1 .. Len(f)
        /\ CertOffset(f) + Align + 1 # d + 2
    BY <1>1, <1>2
  <2>. QED
    BY <1>8, <1>10, <2>1 DEF At
<1>14. Signed(g, body, n)
  BY <1>1, <1>7, <1>9, <1>11, <1>12, <1>13 DEF Signed, d
<1>15. ASSUME Entries(f), CertSize(f) = PaddedLength(Align + 1),
              CertEnd(f) = Len(f)
       PROVE  Entries(g)
  <2>1. At(g, CertOffset(g)) = At(f, CertOffset(f))
    <3>1. CertOffset(f) + 1 \in 1 .. Len(f) /\ CertOffset(f) + 1 # d + 2
      BY <1>1, <1>2
    <3>. QED
      BY <1>8, <1>10, <3>1 DEF At
  <2>2. At(g, CertOffset(g) + PaddedLength(Align + 1)) = Align
    BY <1>7, <1>10, <1>15 DEF At, CertEnd
  <2>3. CertEnd(g) = Len(g)
    BY <1>7, <1>11, <1>15
  <2>4. \A k \in CertEnd(g) + 1 .. Len(g) : g[k] = 0
    BY <1>1, <1>7, <2>3
  <2>. QED
    BY <1>10, <1>15, <2>1, <2>2, <2>4 DEF Entries
<1>. QED
  BY <1>14, <1>15 DEF g

-----------------------------------------------------------------------------
(* The least and the greatest element of a set of numbers. *)
LEMMA LeastElement ==
  ASSUME NEW T \in SUBSET Nat, T # {}
  PROVE  \E x \in T : \A y \in T : x <= y
<1> DEFINE R == OpToRel(<, Nat)
<1>1. \A x, y \in Nat : y < x => <<y, x>> \in R
  BY DEF OpToRel
<1>2. IsWellFoundedOn(R, Nat)
  BY NatLessThanWellFounded
<1> HIDE DEF R
<1>3. PICK x \in T : \A y \in T : ~ (<<y, x>> \in R)
  BY <1>2, WFMin
<1>4. \A y \in T : x <= y
  <2> TAKE y \in T
  <2>1. x \in Nat /\ y \in Nat /\ ~(y < x)
    BY <1>1, <1>3
  <2>. QED
    BY <2>1
<1>. QED
  BY <1>4

LEMMA MaxIsGreatest ==
  ASSUME NEW T \in SUBSET Nat, T # {}, NEW bound \in Nat,
         \A x \in T : x <= bound
  PROVE  Max(T) \in T /\ \A y \in T : y <= Max(T)
<1> DEFINE U == {bound - x : x \in T}
<1>1. U \in SUBSET Nat
  <2>1. \A x \in T : x \in Nat /\ x <= bound /\ bound - x \in Nat
    OBVIOUS
  <2>. QED
    BY <2>1
<1>2. PICK u \in U : \A v \in U : u <= v
  BY <1>1, LeastElement
<1>3. PICK m \in T : u = bound - m
  OBVIOUS
<1>4. \A y \in T : m >= y
  <2> TAKE y \in T
  <2>1. bound - m <= bound - y /\ m \in Nat /\ y \in Nat
    BY <1>2, <1>3
  <2>. QED
    BY <2>1
<1>5. Max(T) \in T /\ \A y \in T : Max(T) >= y
  BY <1>4 DEF Max
<1>. QED
  BY <1>5

-----------------------------------------------------------------------------
(* The command line. *)

(* The cell its text ends with, or the one before it. *)
TextEnd(f) ==
  Max({Start(f)} \union {k \in Start(f) + 1 .. End(f) : f[k] # 0})

Placed(f) ==
  /\ f \in Files /\ Start(f) \in Nat /\ End(f) \in Nat /\ Start(f) <= End(f)
  /\ End(f) <= Len(f)

LEMMA TextPlaces ==
  ASSUME NEW f, Placed(f)
  PROVE  /\ TextEnd(f) \in Nat
         /\ Start(f) <= TextEnd(f) /\ TextEnd(f) <= End(f)
         /\ TextEnd(f) = Start(f) \/ f[TextEnd(f)] # 0
         /\ \A k \in TextEnd(f) + 1 .. End(f) : f[k] = 0
         /\ \A offset \in Int :
              InText(f, offset) <=> Start(f) <= offset /\ offset < TextEnd(f)
<1> DEFINE T == {Start(f)} \union {k \in Start(f) + 1 .. End(f) : f[k] # 0}
           m == TextEnd(f)
<1>1. Start(f) \in Nat /\ End(f) \in Nat /\ Start(f) <= End(f)
  BY DEF Placed
<1>2. T \in SUBSET Nat /\ T # {} /\ \A x \in T : x <= End(f)
  BY <1>1
<1>3. m \in T /\ \A y \in T : y <= m
  BY <1>1, <1>2, MaxIsGreatest DEF TextEnd
<1> HIDE DEF m
<1>4. /\ m \in Nat /\ Start(f) <= m /\ m <= End(f)
      /\ m = Start(f) \/ f[m] # 0
  BY <1>1, <1>3
<1>5. \A k \in m + 1 .. End(f) : f[k] = 0
  BY <1>1, <1>3, <1>4
<1>6. ASSUME NEW offset \in Int, InText(f, offset)
      PROVE  Start(f) <= offset /\ offset < m
  <2>1. PICK later \in offset .. End(f) - 1 : f[later + 1] # 0
    BY <1>6 DEF InText, At
  <2>2. Start(f) <= offset
    BY <1>1, <1>6 DEF InText
  <2>3. later + 1 \in T
    BY <1>1, <2>1, <2>2
  <2>4. later + 1 <= m
    BY <1>3, <2>3
  <2>. QED
    BY <1>1, <1>4, <2>1, <2>2, <2>4
<1>7. ASSUME NEW offset \in Int, Start(f) <= offset, offset < m
      PROVE  InText(f, offset)
  <2>1. m - 1 \in offset .. End(f) - 1 /\ m - 1 + 1 = m /\ f[m] # 0
    BY <1>1, <1>4, <1>7
  <2>2. At(f, m - 1) # 0
    BY <2>1 DEF At
  <2>. QED
    BY <1>1, <1>7, <2>1, <2>2 DEF InText
<1>. QED
  BY <1>4, <1>5, <1>6, <1>7 DEF m

(* The text is what the Placed cells alone say it is. *)
LEMMA SameText ==
  ASSUME NEW f, NEW g, Placed(f), Placed(g),
         Start(f) = Start(g), End(f) = End(g),
         \A k \in Start(g) + 1 .. End(g) : f[k] = g[k]
  PROVE  /\ TextEnd(f) = TextEnd(g) /\ Text(f) = Text(g)
         /\ Room(f) <=> Room(g)
         /\ \A offset \in Int : InText(f, offset) <=> InText(g, offset)
         /\ NotMutated(f) <=> NotMutated(g)
<1>1. TextEnd(f) = TextEnd(g)
  BY DEF TextEnd
<1>2. \A offset \in Int : InText(f, offset) <=> InText(g, offset)
  BY <1>1, TextPlaces
<1>3. Room(f) <=> Room(g)
  <2>1. End(f) - 2 \in Int
    BY DEF Placed
  <2>. QED
    BY <1>2, <2>1 DEF Room
<1>4. NotMutated(f) <=> NotMutated(g)
  <2>1. \A offset \in Start(g) .. End(g) - 1 : At(f, offset) = At(g, offset)
    BY DEF At, Placed
  <2>. QED
    BY <2>1 DEF NotMutated
<1>5. Text(f) = Text(g)
  <2>1. /\ TextEnd(f) \in Nat /\ Start(f) <= TextEnd(f) /\ TextEnd(f) <= End(f)
        /\ f \in Files /\ g \in Files /\ Start(f) \in Nat
        /\ TextEnd(f) <= Len(f) /\ TextEnd(f) <= Len(g)
    <3>1. /\ End(f) <= Len(f) /\ End(f) <= Len(g) /\ End(f) \in Nat
          /\ f \in Files /\ g \in Files /\ Start(f) \in Nat
      BY DEF Placed
    <3>2. Len(f) \in Nat /\ Len(g) \in Nat
      BY <3>1 DEF Files
    <3>. QED
      BY <3>1, <3>2, TextPlaces
  <2>2. \A k \in Start(f) + 1 .. TextEnd(f) : f[k] = g[k]
    BY <2>1 DEF Placed
  <2>3. /\ Text(f) = SubSeq(f, Start(f) + 1, TextEnd(f))
        /\ Text(g) = SubSeq(g, Start(f) + 1, TextEnd(f))
    BY <1>1 DEF Text, TextEnd
  <2>. QED
    BY <2>1, <2>2, <2>3, SameSlice
<1>. QED
  BY <1>1, <1>2, <1>3, <1>4, <1>5

(* There is room for the suffix when two cells behind the text are left. *)
LEMMA RoomBehindText ==
  ASSUME NEW f, Placed(f)
  PROVE  /\ Room(f) <=> Start(f) + 2 <= End(f) /\ TextEnd(f) + 2 <= End(f)
         /\ Text(f) = SubSeq(f, Start(f) + 1, TextEnd(f))
         /\ Len(Text(f)) = TextEnd(f) - Start(f)
         /\ Len(Dumped(f)) = End(f) - Start(f)
<1>1. /\ f \in Files /\ Start(f) \in Nat /\ End(f) \in Nat /\ Len(f) \in Nat
      /\ Start(f) <= End(f) /\ End(f) <= Len(f)
  BY DEF Placed, Files
<1>2. /\ TextEnd(f) \in Nat /\ Start(f) <= TextEnd(f) /\ TextEnd(f) <= End(f)
      /\ InText(f, End(f) - 2) <=>
           Start(f) <= End(f) - 2 /\ End(f) - 2 < TextEnd(f)
  BY <1>1, TextPlaces
<1>3. Room(f) <=> Start(f) + 2 <= End(f) /\ TextEnd(f) + 2 <= End(f)
  BY <1>1, <1>2 DEF Room
<1>4. Text(f) = SubSeq(f, Start(f) + 1, TextEnd(f))
  BY DEF Text, TextEnd
<1>5. Len(Text(f)) = TextEnd(f) - Start(f)
  <2>1. TextEnd(f) <= Len(f)
    BY <1>1, <1>2
  <2>. QED
    BY <1>1, <1>2, <1>4, <2>1, SliceCells
<1>6. Len(Dumped(f)) = End(f) - Start(f)
  BY <1>1, SliceCells DEF Dumped
<1>. QED
  BY <1>3, <1>4, <1>5, <1>6

(* The mutation writes the suffix behind the text and touches nothing else. *)
LEMMA MutatedCells ==
  ASSUME NEW f, Placed(f)
  PROVE  /\ MutateFile(f) \in Files /\ Len(MutateFile(f)) = Len(f)
         /\ \A k \in 1 .. Len(f) :
              MutateFile(f)[k] =
                IF k <= TextEnd(f) \/ k > End(f) THEN f[k]
                ELSE IF k = TextEnd(f) + 1 /\ Start(f) < TextEnd(f)
                  THEN Suffix ELSE 0
<1>1. /\ f \in Seq(Nat) /\ Len(f) \in Nat
      /\ Start(f) \in Nat /\ End(f) \in Nat
      /\ Start(f) <= End(f) /\ End(f) <= Len(f)
      /\ TextEnd(f) \in Nat /\ Start(f) <= TextEnd(f) /\ TextEnd(f) <= End(f)
  BY TextPlaces DEF Placed, Files
<1>2. \A offset \in Int :
        InText(f, offset) <=> Start(f) <= offset /\ offset < TextEnd(f)
  BY TextPlaces
<1>3. ASSUME NEW k \in 1 .. Len(f)
      PROVE  MutateFile(f)[k] =
                IF k <= TextEnd(f) \/ k > End(f) THEN f[k]
                ELSE IF k = TextEnd(f) + 1 /\ Start(f) < TextEnd(f)
                  THEN Suffix ELSE 0
  <2>1. /\ InText(f, k - 1) <=> Start(f) <= k - 1 /\ k - 1 < TextEnd(f)
        /\ InText(f, k - 2) <=> Start(f) <= k - 2 /\ k - 2 < TextEnd(f)
    BY <1>1, <1>2
  <2>2. MutateFile(f)[k] =
          IF k - 1 < Start(f) \/ k - 1 >= End(f) \/ InText(f, k - 1) THEN f[k]
          ELSE IF InText(f, k - 2) THEN Suffix ELSE 0
    BY DEF MutateFile
  <2> DEFINE was == f[k]
             is == MutateFile(f)[k]
             one == InText(f, k - 1)
             two == InText(f, k - 2)
             end == TextEnd(f)
  <2>3. is = IF k - 1 < Start(f) \/ k - 1 >= End(f) \/ one THEN was
             ELSE IF two THEN Suffix ELSE 0
    BY <2>2
  <2>4. /\ one <=> Start(f) <= k - 1 /\ k - 1 < end
        /\ two <=> Start(f) <= k - 2 /\ k - 2 < end
        /\ end \in Nat /\ Start(f) <= end /\ end <= End(f)
    BY <1>1, <2>1
  <2> HIDE DEF was, is, one, two, end
  <2>5. CASE k <= end \/ k > End(f)
    BY <1>1, <2>3, <2>4, <2>5 DEF was, is, end
  <2>6. CASE end < k /\ k <= End(f) /\ k = end + 1 /\ Start(f) < end
    <3>1. ~(k - 1 < Start(f) \/ k - 1 >= End(f)) /\ ~one /\ two
      BY <1>1, <2>4, <2>6
    <3>2. is = Suffix
      BY <2>3, <3>1
    <3>3. ~(k <= end \/ k > End(f)) /\ k = end + 1 /\ Start(f) < end
      BY <1>1, <2>4, <2>6
    <3>. QED
      BY ONLY <3>2, <3>3 DEF is, end
  <2>7. CASE end < k /\ k <= End(f) /\ ~(k = end + 1 /\ Start(f) < end)
    <3>1. ~(k - 1 < Start(f) \/ k - 1 >= End(f)) /\ ~one /\ ~two
      BY <1>1, <2>4, <2>7
    <3>2. is = 0
      BY <2>3, <3>1
    <3>3. ~(k <= end \/ k > End(f)) /\ ~(k = end + 1 /\ Start(f) < end)
      BY <1>1, <2>4, <2>7
    <3>. QED
      BY ONLY <3>2, <3>3 DEF is, end
  <2>. QED
    BY <1>1, <2>4, <2>5, <2>6, <2>7
<1>4. \A k \in 1 .. Len(f) : MutateFile(f)[k] \in Nat
  BY <1>1, <1>3 DEF Suffix
<1>5. MutateFile(f) = [k \in 1 .. Len(f) |-> MutateFile(f)[k]]
  BY DEF MutateFile
<1>6. MutateFile(f) \in Files /\ Len(MutateFile(f)) = Len(f)
  BY <1>1, <1>4, <1>5 DEF Files
<1>. QED
  BY <1>3, <1>6

-----------------------------------------------------------------------------
(* Images as they are built. *)

LEMMA SectionCells ==
  ASSUME NEW f \in Files, HeadersOk(f), TableEnd(f) <= Len(f),
         NEW i \in Sections(f)
  PROVE  RawSize(f, i) \in Nat /\ RawOffset(f, i) \in Nat /\ RawEnd(f, i) \in Nat
<1>1. /\ OptionalEnd(f) \in Nat /\ SectionCount(f) \in Nat
      /\ i \in 0 .. SectionCount(f) - 1
      /\ TableEnd(f) = OptionalEnd(f) + 3 * SectionCount(f)
  BY HeaderPlaces DEF TableEnd, Sections
<1>2. Len(f) \in Nat /\ \A k \in 1 .. Len(f) : f[k] \in Nat
  BY DEF Files
<1>3. /\ Entry(f, i) + 1 + 1 \in 1 .. Len(f)
      /\ Entry(f, i) + 2 + 1 \in 1 .. Len(f)
  BY <1>1, <1>2 DEF Entry
<1>4. RawSize(f, i) \in Nat /\ RawOffset(f, i) \in Nat
  BY <1>2, <1>3 DEF RawSize, RawOffset, At
<1>. QED
  BY <1>4 DEF RawEnd

(* The one command line lies behind the headers, apart from other sections. *)
LEMMA CommandPlace ==
  ASSUME NEW f, WellFormed(f)
  PROVE  /\ f \in Files /\ Plain(f) /\ Placed(f)
         /\ CmdlineSections(f) = {CmdlineSection(f)}
         /\ TableEnd(f) <= Start(f) /\ Start(f) < TextEnd(f) /\ NotMutated(f)
         /\ \A i \in Sections(f) \ CmdlineSections(f) :
              /\ RawOffset(f, i) \in Nat /\ RawEnd(f, i) \in Nat
              /\ RawOffset(f, i) <= RawEnd(f, i) /\ RawEnd(f, i) <= Len(f)
              /\ \A k \in RawOffset(f, i) + 1 .. RawEnd(f, i) :
                   k > TableEnd(f) /\ (k <= Start(f) \/ k > End(f))
<1>1. f \in Files /\ HeadersOk(f) /\ SectionsInBounds(f) /\ TableEnd(f) <= Len(f)
  BY DEF WellFormed, SectionsInBounds
<1>2. /\ Len(f) \in Nat /\ TableEnd(f) \in Nat
  BY <1>1, HeaderPlaces DEF Files
<1>3. \A i \in Sections(f) :
        RawSize(f, i) \in Nat /\ RawOffset(f, i) \in Nat /\ RawEnd(f, i) \in Nat
        /\ RawEnd(f, i) = RawOffset(f, i) + RawSize(f, i)
  BY <1>1, SectionCells DEF RawEnd
<1>4. Plain(f)
  BY <1>1 DEF Plain, WellFormed
<1> DEFINE c == CmdlineSection(f)
<1>5. CmdlineSections(f) = {c} /\ c \in Sections(f)
  <2>1. PICK i \in CmdlineSections(f) : CmdlineSections(f) = {i}
    BY DEF WellFormed
  <2>2. c = i
    BY <2>1 DEF CmdlineSection
  <2>. QED
    BY <2>1, <2>2 DEF CmdlineSections
<1>6. /\ Start(f) \in Nat /\ End(f) \in Nat
      /\ Start(f) = RawOffset(f, c) /\ End(f) = RawEnd(f, c)
  BY <1>3, <1>5 DEF Start, End
<1>7. InText(f, Start(f))
  BY DEF WellFormed
<1>8. Start(f) < End(f)
  BY <1>6, <1>7 DEF InText
<1>9. RawSize(f, c) # 0
  BY <1>3, <1>5, <1>6, <1>8
<1>10. TableEnd(f) <= Start(f) /\ End(f) <= Len(f)
  BY <1>1, <1>2, <1>5, <1>6, <1>9 DEF WellFormed, SectionsInBounds
<1>11. Placed(f)
  BY <1>1, <1>6, <1>8, <1>10 DEF Placed
<1>12. Start(f) < TextEnd(f)
  BY <1>6, <1>7, <1>11, TextPlaces
<1>13. NotMutated(f)
  BY DEF WellFormed, NotMutated
<1>14. ASSUME NEW i \in Sections(f) \ CmdlineSections(f)
       PROVE  /\ RawOffset(f, i) \in Nat /\ RawEnd(f, i) \in Nat
              /\ RawOffset(f, i) <= RawEnd(f, i) /\ RawEnd(f, i) <= Len(f)
              /\ \A k \in RawOffset(f, i) + 1 .. RawEnd(f, i) :
                   k > TableEnd(f) /\ (k <= Start(f) \/ k > End(f))
  <2>1. /\ RawOffset(f, i) \in Nat /\ RawEnd(f, i) \in Nat /\ RawSize(f, i) \in Nat
        /\ RawEnd(f, i) = RawOffset(f, i) + RawSize(f, i)
    BY <1>3
  <2>2. CASE RawSize(f, i) = 0
    <3>1. RawOffset(f, i) = 0
      BY <2>2 DEF WellFormed
    <3>. QED
      BY <1>2, <2>1, <2>2, <3>1
  <2>3. CASE RawSize(f, i) # 0
    <3>1. RawOffset(f, i) >= TableEnd(f) /\ RawEnd(f, i) <= Len(f)
      BY <1>1, <2>3 DEF WellFormed, SectionsInBounds
    <3>2. c \in Sections(f) \ {i}
      BY <1>5
    <3>3. RawEnd(f, i) <= Start(f) \/ End(f) <= RawOffset(f, i)
      BY <1>6, <1>9, <2>3, <3>2 DEF WellFormed
    <3>. QED
      BY <1>2, <1>6, <2>1, <3>1, <3>3
  <2>. QED
    BY <2>2, <2>3
<1>. QED
  BY <1>1, <1>4, <1>5, <1>10, <1>11, <1>12, <1>13, <1>14

(* f holds the cells of c, but perhaps for the directory entry. *)
Carries(f, c) ==
  /\ f \in Files /\ Len(c) <= Len(f)
  /\ \A k \in 1 .. Len(c) : k - 1 \notin Directory(c) => f[k] = c[k]

(* c and what lies in it: an image as it was built, or mutated. *)
Built(c) ==
  /\ Plain(c) /\ Placed(c) /\ CmdlineSections(c) = {CmdlineSection(c)}
  /\ TableEnd(c) <= Start(c) /\ Start(c) < TextEnd(c)

SameSections(f, g) ==
  /\ Sections(f) = Sections(g) /\ CmdlineSections(f) = CmdlineSections(g)
  /\ \A i \in Sections(g) : /\ RawSize(f, i) = RawSize(g, i)
                            /\ RawOffset(f, i) = RawOffset(g, i)
                            /\ RawEnd(f, i) = RawEnd(g, i)

LEMMA CarriedCommand ==
  ASSUME NEW f, NEW c, Built(c), Carries(f, c)
  PROVE  /\ Placed(f) /\ Start(f) = Start(c) /\ End(f) = End(c)
         /\ \A k \in TableEnd(c) + 1 .. Len(c) : f[k] = c[k]
         /\ TextEnd(f) = TextEnd(c) /\ Text(f) = Text(c)
         /\ Room(f) <=> Room(c)
         /\ NotMutated(f) <=> NotMutated(c)
         /\ SameSections(f, c) /\ TableEnd(f) = TableEnd(c)
<1>1. /\ c \in Files /\ f \in Files /\ HeadersOk(c) /\ TableEnd(c) <= Len(c)
      /\ Len(c) <= Len(f) /\ TableEnd(c) <= Start(c)
      /\ Start(c) \in Nat /\ End(c) \in Nat /\ Start(c) <= End(c)
      /\ End(c) <= Len(c)
      /\ \A k \in 1 .. Len(c) : k - 1 \notin Directory(c) => f[k] = c[k]
  BY DEF Built, Plain, Placed, Carries
<1>2. /\ Len(c) \in Nat /\ Len(f) \in Nat /\ TableEnd(c) \in Nat
      /\ CertDirectory(c) \in Nat /\ CertDirectory(c) + 2 <= TableEnd(c)
  <2>1. Len(c) \in Nat /\ Len(f) \in Nat
    BY <1>1 DEF Files
  <2>2. /\ TableEnd(c) \in Nat /\ CertDirectory(c) \in Nat
        /\ CertDirectory(c) + 2 <= OptionalEnd(c)
        /\ OptionalEnd(c) <= TableEnd(c) /\ OptionalEnd(c) \in Nat
    BY <1>1, HeaderPlaces
  <2>. QED
    BY <2>1, <2>2
<1>3. \A k \in TableEnd(c) + 1 .. Len(c) : f[k] = c[k]
  <2> TAKE k \in TableEnd(c) + 1 .. Len(c)
  <2>1. k \in 1 .. Len(c) /\ k - 1 \notin Directory(c)
    BY <1>2 DEF Directory
  <2>. QED
    BY <1>1, <2>1
<1>4. /\ CmdlineSection(f) = CmdlineSection(c)
      /\ CmdlineSections(f) = CmdlineSections(c)
      /\ Sections(f) = Sections(c) /\ TableEnd(f) = TableEnd(c)
      /\ \A i \in Sections(c) : /\ RawSize(f, i) = RawSize(c, i)
                                /\ RawOffset(f, i) = RawOffset(c, i)
                                /\ RawEnd(f, i) = RawEnd(c, i)
  <2>1. TableEnd(c) <= Len(f) /\ 1 .. TableEnd(c) \subseteq 1 .. Len(c)
    BY <1>1, <1>2
  <2>. QED
    BY <1>1, <2>1, SameTable
<1>5. CmdlineSection(c) \in Sections(c)
  BY DEF Built, CmdlineSections
<1>6. Start(f) = Start(c) /\ End(f) = End(c)
  BY <1>4, <1>5 DEF Start, End
<1>7. Placed(f) /\ Placed(c)
  BY <1>1, <1>2, <1>6 DEF Placed
<1>8. \A k \in Start(c) + 1 .. End(c) : f[k] = c[k]
  BY <1>1, <1>2, <1>3
<1>9. /\ TextEnd(f) = TextEnd(c) /\ Text(f) = Text(c)
      /\ Room(f) <=> Room(c)
      /\ NotMutated(f) <=> NotMutated(c)
  BY <1>6, <1>7, <1>8, SameText
<1>. QED
  BY <1>3, <1>4, <1>6, <1>7, <1>9 DEF SameSections

(* Images carry what they were built from. *)
LEMMA PlainCarries ==
  ASSUME NEW c, Plain(c)
  PROVE  Carries(c, c) /\ Carries(Aligned(c), c)
<1>1. c \in Files
  BY DEF Plain
<1>2. Len(c) \in Nat
  BY <1>1 DEF Files
<1>. QED
  BY <1>1, <1>2, AlignedCells DEF Carries

LEMMA SignedCarries ==
  ASSUME NEW f, NEW c, NEW n, Plain(c), Signed(f, Aligned(c), n)
  PROVE  Carries(f, c) /\ CertOffset(f) >= Len(c)
<1> DEFINE body == Aligned(c)
<1>1. /\ c \in Files /\ body \in Files /\ Plain(body)
      /\ CertDirectory(body) = CertDirectory(c)
      /\ Len(c) \in Nat /\ Len(body) \in Nat /\ Len(body) >= Len(c)
      /\ \A k \in 1 .. Len(c) : body[k] = c[k]
  <2>1. c \in Files
    BY DEF Plain
  <2>2. Len(c) \in Nat
    BY <2>1 DEF Files
  <2>. QED
    BY <2>1, <2>2, AlignedCells, PlainAligned
<1> HIDE DEF body
<1>2. /\ f \in Files /\ CertOffset(f) = Len(body) /\ Len(f) \in Nat
      /\ CertOffset(f) \in Nat /\ CertOffset(f) + Align < CertEnd(f)
      /\ CertEnd(f) <= Len(f) /\ CertEnd(f) \in Nat
      /\ \A k \in 1 .. CertOffset(f) :
           k - 1 \notin Directory(body) => f[k] = body[k]
  <2>1. Signed(f, body, n)
    BY DEF body
  <2>. QED
    BY <1>1, <2>1, SignedCells
<1>3. Len(c) <= Len(f)
  BY <1>1, <1>2, ImageAssumption
<1>4. \A k \in 1 .. Len(c) : k - 1 \notin Directory(c) => f[k] = c[k]
  <2> TAKE k \in 1 .. Len(c)
  <2>1. k \in 1 .. CertOffset(f)
    BY <1>1, <1>2
  <2>. QED
    BY <1>1, <1>2, <2>1 DEF Directory
<1>. QED
  BY <1>1, <1>2, <1>3, <1>4 DEF Carries

(* A mutated image: its text is one suffix longer, everything else stays. *)
LEMMA MutatedImage ==
  ASSUME NEW c, Built(c), Room(c)
  PROVE  /\ Built(MutateFile(c)) /\ ~NotMutated(MutateFile(c))
         /\ Len(MutateFile(c)) = Len(c)
         /\ CertDirectory(MutateFile(c)) = CertDirectory(c)
         /\ Text(MutateFile(c)) = Text(c) \o <<Suffix>>
         /\ Aligned(MutateFile(c)) # Aligned(c)
         /\ SameSections(MutateFile(c), c)
<1> DEFINE m == MutateFile(c)
           end == TextEnd(c)
<1>1. /\ c \in Files /\ Plain(c) /\ Placed(c) /\ Len(c) \in Nat
      /\ Start(c) \in Nat /\ End(c) \in Nat /\ End(c) <= Len(c)
      /\ TableEnd(c) <= Start(c) /\ Start(c) < end
      /\ end \in Nat /\ end + 2 <= End(c)
      /\ \A k \in end + 1 .. End(c) : c[k] = 0
  <2>1. Plain(c) /\ Placed(c) /\ TableEnd(c) <= Start(c) /\ Start(c) < end
    BY DEF Built
  <2>2. c \in Files /\ Start(c) \in Nat /\ End(c) \in Nat /\ End(c) <= Len(c)
    BY <2>1 DEF Placed
  <2>3. Len(c) \in Nat
    BY <2>2 DEF Files
  <2>4. end \in Nat /\ \A k \in end + 1 .. End(c) : c[k] = 0
    BY <2>1, TextPlaces
  <2>5. end + 2 <= End(c)
    BY <2>1, RoomBehindText
  <2>. QED
    BY <2>1, <2>2, <2>3, <2>4, <2>5
<1>2. TableEnd(c) \in Nat
  BY <1>1, HeaderPlaces DEF Plain
<1>3. /\ m \in Files /\ Len(m) = Len(c)
      /\ \A k \in 1 .. Len(c) :
           m[k] = IF k <= end \/ k > End(c) THEN c[k]
                  ELSE IF k = end + 1 /\ Start(c) < end THEN Suffix ELSE 0
  BY <1>1, MutatedCells
<1> HIDE DEF m, end
<1>4. \A k \in 1 .. end : m[k] = c[k]
  BY <1>1, <1>3
<1>5. m[end + 1] = Suffix /\ end + 1 \in 1 .. Len(c) /\ c[end + 1] = 0
  BY <1>1, <1>3
<1>6. \A k \in end + 2 .. End(c) : m[k] = 0
  BY <1>1, <1>3
<1>7. /\ Plain(m) /\ CertDirectory(m) = CertDirectory(c)
      /\ TableEnd(m) = TableEnd(c)
      /\ CmdlineSections(m) = CmdlineSections(c)
      /\ CmdlineSection(m) = CmdlineSection(c)
      /\ Sections(m) = Sections(c)
      /\ \A i \in Sections(c) : /\ RawSize(m, i) = RawSize(c, i)
                                /\ RawOffset(m, i) = RawOffset(c, i)
                                /\ RawEnd(m, i) = RawEnd(c, i)
  <2>1. \A k \in 1 .. TableEnd(c) : m[k] = c[k]
    BY <1>1, <1>2, <1>4
  <2>2. Len(m) >= Len(c)
    BY <1>1, <1>3
  <2>. QED
    BY <1>1, <1>3, <2>1, <2>2, PlainPrefix
<1>8. CmdlineSection(c) \in Sections(c)
  BY DEF Built, CmdlineSections
<1>9. Start(m) = Start(c) /\ End(m) = End(c)
  BY <1>7, <1>8 DEF Start, End
<1>10. Placed(m)
  BY <1>1, <1>3, <1>9 DEF Placed
<1>11. /\ TextEnd(m) \in Nat /\ Start(m) <= TextEnd(m) /\ TextEnd(m) <= End(m)
       /\ TextEnd(m) = Start(m) \/ m[TextEnd(m)] # 0
       /\ \A k \in TextEnd(m) + 1 .. End(m) : m[k] = 0
  BY <1>10, TextPlaces
<1>12. TextEnd(m) = end + 1
  <2>1. ~(TextEnd(m) < end + 1)
    <3> SUFFICES ASSUME TextEnd(m) < end + 1 PROVE FALSE
      OBVIOUS
    <3>1. end + 1 \in TextEnd(m) + 1 .. End(m)
      BY <1>1, <1>9, <1>11
    <3>. QED
      BY <1>5, <1>11, <3>1 DEF Suffix
  <2>2. ~(TextEnd(m) > end + 1)
    <3> SUFFICES ASSUME TextEnd(m) > end + 1 PROVE FALSE
      OBVIOUS
    <3>1. TextEnd(m) \in end + 2 .. End(c) /\ TextEnd(m) # Start(m)
      BY <1>1, <1>9, <1>11
    <3>. QED
      BY <1>6, <1>11, <3>1
  <2>. QED
    BY <1>1, <1>11, <2>1, <2>2
<1>13. ~NotMutated(m)
  <2>1. end \in Start(m) .. End(m) - 1 /\ At(m, end) = Suffix
    BY <1>1, <1>5, <1>9 DEF At
  <2>. QED
    BY <2>1 DEF NotMutated
<1>14. Text(m) = Text(c) \o <<Suffix>>
  <2> DEFINE t == SubSeq(c, Start(c) + 1, end)
             u == SubSeq(m, Start(c) + 1, end + 1)
             j == t \o <<Suffix>>
  <2>1. Text(c) = t /\ Text(m) = u
    BY <1>1, <1>9, <1>10, <1>12, RoomBehindText DEF end
  <2>2. end <= Len(c) /\ Start(c) <= end /\ end + 1 <= Len(m)
        /\ Start(c) <= end + 1 /\ end + 1 \in Nat
    BY <1>1, <1>3
  <2>3. /\ t \in Files /\ Len(t) = end - Start(c)
        /\ \A k \in 1 .. end - Start(c) : t[k] = c[Start(c) + k]
    BY <1>1, <2>2, SliceCells
  <2>4. /\ u \in Files /\ Len(u) = end + 1 - Start(c)
        /\ \A k \in 1 .. end + 1 - Start(c) : u[k] = m[Start(c) + k]
    BY <1>1, <1>3, <2>2, SliceCells
  <2>5. <<Suffix>> \in Files /\ Len(<<Suffix>>) = 1 /\ <<Suffix>>[1] = Suffix
    BY DEF Files, Suffix
  <2> HIDE DEF t, u
  <2>6. /\ j \in Files /\ Len(j) = Len(t) + Len(<<Suffix>>)
        /\ \A k \in 1 .. Len(t) : j[k] = t[k]
        /\ \A k \in 1 .. Len(<<Suffix>>) : j[Len(t) + k] = <<Suffix>>[k]
    BY <2>3, <2>5, JoinedCells
  <2> HIDE DEF j
  <2>7. Len(j) = Len(u) /\ Len(t) + 1 = Len(u)
    BY <1>1, <2>3, <2>4, <2>5, <2>6
  <2>8. ASSUME NEW k \in 1 .. Len(j) PROVE j[k] = u[k]
    <3>1. CASE k <= Len(t)
      <4>1. /\ k \in 1 .. Len(t) /\ k \in 1 .. end - Start(c)
            /\ k \in 1 .. end + 1 - Start(c)
            /\ Start(c) + k \in 1 .. end
        BY <1>1, <2>3, <2>7, <2>4, <3>1
      <4>. QED
        BY <1>4, <2>3, <2>4, <2>6, <4>1
    <3>2. CASE k = Len(t) + 1
      <4>1. /\ 1 \in 1 .. Len(<<Suffix>>) /\ k \in 1 .. end + 1 - Start(c)
            /\ Start(c) + k = end + 1
        BY <1>1, <2>3, <2>4, <2>5, <2>7, <3>2
      <4>2. j[k] = Suffix
        BY <2>5, <2>6, <3>2, <4>1
      <4>. QED
        BY <1>5, <2>4, <4>1, <4>2
    <3>. QED
      BY <1>1, <2>3, <2>4, <2>7, <3>1, <3>2
  <2>9. j = u
    <3>1. j \in Seq(Nat) /\ u \in Seq(Nat)
      BY <2>4, <2>6 DEF Files
    <3>. QED
      BY <2>7, <2>8, <3>1, SeqEqual
  <2>. QED
    BY <2>1, <2>9 DEF j
<1>15. Built(m)
  BY <1>1, <1>7, <1>9, <1>10, <1>12 DEF Built
<1>16. Aligned(m) # Aligned(c)
  BY <1>1, <1>3, <1>5, AlignedApart DEF Suffix
<1>. QED
  BY <1>3, <1>7, <1>13, <1>14, <1>15, <1>16 DEF m, SameSections

(* Mutating a signed image mutates its body and leaves the table. *)
LEMMA MutateSigned ==
  ASSUME NEW f, NEW c, NEW n, Built(c), Room(c), Signed(f, Aligned(c), n)
  PROVE  /\ Signed(MutateFile(f), Aligned(MutateFile(c)), n)
         /\ CertOffset(MutateFile(f)) = CertOffset(f)
         /\ CertSize(MutateFile(f)) = CertSize(f)
         /\ Len(MutateFile(f)) = Len(f)
         /\ \A k \in CertOffset(f) + 1 .. Len(f) : MutateFile(f)[k] = f[k]
<1> DEFINE m == MutateFile(c)
           g == MutateFile(f)
           body == Aligned(c)
           new == Aligned(m)
           d == CertDirectory(c)
           end == TextEnd(c)
<1>1. /\ c \in Files /\ Plain(c) /\ Placed(c) /\ Len(c) \in Nat
      /\ Start(c) \in Nat /\ End(c) \in Nat /\ End(c) <= Len(c)
      /\ TableEnd(c) <= Start(c) /\ Start(c) < end
      /\ end \in Nat /\ end <= End(c)
  <2>1. Plain(c) /\ Placed(c) /\ TableEnd(c) <= Start(c) /\ Start(c) < end
    BY DEF Built
  <2>2. c \in Files /\ Start(c) \in Nat /\ End(c) \in Nat /\ End(c) <= Len(c)
    BY <2>1 DEF Placed
  <2>3. Len(c) \in Nat
    BY <2>2 DEF Files
  <2>4. end \in Nat /\ end <= End(c)
    BY <2>1, TextPlaces
  <2>. QED
    BY <2>1, <2>2, <2>3, <2>4
<1>2. /\ TableEnd(c) \in Nat /\ d \in Nat /\ d + 2 <= TableEnd(c)
      /\ HeadersOk(c)
  <2>1. HeadersOk(c)
    BY <1>1 DEF Plain
  <2>2. /\ TableEnd(c) \in Nat /\ d \in Nat /\ d + 2 <= OptionalEnd(c)
        /\ OptionalEnd(c) <= TableEnd(c) /\ OptionalEnd(c) \in Nat
    BY <2>1, <1>1, HeaderPlaces
  <2>. QED
    BY <2>1, <2>2
<1>3. /\ body \in Files /\ Plain(body) /\ CertDirectory(body) = d
      /\ Len(body) = PaddedLength(Len(c)) /\ Len(body) \in Nat
      /\ Len(body) >= Len(c)
      /\ \A k \in 1 .. Len(c) : body[k] = c[k]
      /\ \A k \in Len(c) + 1 .. Len(body) : body[k] = 0
  BY <1>1, AlignedCells, PlainAligned
<1>4. /\ m \in Files /\ Len(m) = Len(c) /\ CertDirectory(m) = d /\ Plain(m)
      /\ \A k \in 1 .. Len(c) :
           m[k] = IF k <= end \/ k > End(c) THEN c[k]
                  ELSE IF k = end + 1 /\ Start(c) < end THEN Suffix ELSE 0
  BY <1>1, MutatedCells, MutatedImage DEF Built
<1>5. /\ new \in Files /\ Len(new) = Len(body) /\ CertDirectory(new) = d
      /\ \A k \in 1 .. Len(c) : new[k] = m[k]
      /\ \A k \in Len(c) + 1 .. Len(body) : new[k] = 0
  BY <1>3, <1>4, AlignedCells, PlainAligned
<1>6. /\ f \in Files /\ HeadersOk(f) /\ HasTable(f) /\ Len(f) \in Nat
      /\ CertDirectory(f) = d /\ CertOffset(f) = Len(body)
      /\ CertOffset(f) \in Nat /\ CertEnd(f) \in Nat /\ CertEnd(f) <= Len(f)
      /\ CertOffset(f) + Align < CertEnd(f) /\ StripFile(f) = body
      /\ OptionalEnd(f) = OptionalEnd(body) /\ TableEnd(f) = TableEnd(body)
      /\ At(f, CertOffset(f) + Align) = n
      /\ \A k \in 1 .. CertOffset(f) : k - 1 \notin Directory(body) => f[k] = body[k]
  BY <1>3, SignedCells DEF Signed
<1>7. /\ Placed(f) /\ Start(f) = Start(c) /\ End(f) = End(c)
      /\ TextEnd(f) = end
  BY SignedCarries, CarriedCommand, <1>1
<1>8. /\ g \in Files /\ Len(g) = Len(f)
      /\ \A k \in 1 .. Len(f) :
           g[k] = IF k <= end \/ k > End(c) THEN f[k]
                  ELSE IF k = end + 1 /\ Start(c) < end THEN Suffix ELSE 0
  BY <1>7, MutatedCells
<1>9. \A k \in 1 .. Len(body) :
        new[k] = IF k <= end \/ k > End(c) THEN body[k]
                 ELSE IF k = end + 1 /\ Start(c) < end THEN Suffix ELSE 0
  <2> TAKE k \in 1 .. Len(body)
  <2> HIDE DEF m, new, body, end
  <2>1. CASE k <= Len(c)
    BY <1>1, <1>3, <1>4, <1>5, <2>1
  <2>2. CASE k > Len(c)
    BY <1>1, <1>3, <1>5, <2>2
  <2>. QED
    BY <1>1, <1>3, <2>1, <2>2
<1> HIDE DEF m, g, new, body, d, end
<1>10. Align \in Nat
  BY ImageAssumption
<1>11. HeadersOk(g) /\ CertDirectory(g) = d
  <2>1. /\ OptionalEnd(f) \in Nat /\ OptionalEnd(f) <= TableEnd(f)
        /\ OptionalEnd(f) <= Len(f)
    BY <1>6, HeaderPlaces
  <2>2. TableEnd(f) = TableEnd(c)
    <3>1. /\ TableEnd(c) <= Len(c)
      BY <1>1 DEF Plain
    <3>2. Len(body) >= Len(c) /\ \A k \in 1 .. TableEnd(c) : body[k] = c[k]
      BY <1>1, <1>2, <1>3, <3>1
    <3>3. TableEnd(body) = TableEnd(c)
      BY <1>1, <1>3, <3>2, PlainPrefix
    <3>. QED
      BY <1>6, <3>3
  <2>3. \A k \in 1 .. OptionalEnd(f) : g[k] = f[k]
    BY <1>1, <1>2, <1>6, <1>8, <2>1, <2>2
  <2>. QED
    BY <1>6, <1>8, <2>1, <2>3, SameHeaders
<1>12. \A k \in 1 .. Len(f) : k <= TableEnd(c) \/ k > End(c) => g[k] = f[k]
  BY <1>1, <1>2, <1>8
<1>13. CertOffset(g) = CertOffset(f) /\ CertSize(g) = CertSize(f)
  <2>1. d + 1 \in 1 .. Len(f) /\ d + 1 <= TableEnd(c)
        /\ d + 1 + 1 \in 1 .. Len(f) /\ d + 1 + 1 <= TableEnd(c)
    BY <1>1, <1>2, <1>3, <1>6, <1>10
  <2>2. g[d + 1] = f[d + 1] /\ g[d + 1 + 1] = f[d + 1 + 1]
    BY <1>12, <2>1
  <2>. QED
    BY <1>6, <1>11, <2>2 DEF CertOffset, CertSize, At
<1>14. /\ CertEnd(g) = CertEnd(f) /\ HasTable(g)
  BY <1>6, <1>13 DEF CertEnd, HasTable
<1>15. At(g, CertOffset(g) + Align) = n
  <2> DEFINE at == CertOffset(f) + Align + 1
  <2>1. at \in 1 .. Len(f) /\ at > End(c)
    BY <1>1, <1>3, <1>6, <1>10
  <2> HIDE DEF at
  <2>2. g[at] = f[at]
    BY <1>12, <2>1
  <2>. QED
    BY <1>6, <1>13, <2>2 DEF At, at
<1>16. StripFile(g) = new
  <2>1. StripFile(g) = [k \in 1 .. Len(body) |->
                          IF k - 1 \in {d, d + 1} THEN 0 ELSE g[k]]
    BY <1>6, <1>11, <1>13 DEF StripFile
  <2>2. body = [k \in 1 .. Len(body) |->
                  IF k - 1 \in {d, d + 1} THEN 0 ELSE f[k]]
    BY <1>6 DEF StripFile
  <2>3. \A k \in 1 .. Len(body) :
          new[k] = IF k - 1 \in {d, d + 1} THEN 0 ELSE g[k]
    <3> TAKE k \in 1 .. Len(body)
    <3>1. body[k] = IF k - 1 \in {d, d + 1} THEN 0 ELSE f[k]
      BY <2>2
    <3>2. k \in 1 .. Len(f)
      BY <1>3, <1>6, <1>10
    <3>3. /\ new[k] = IF k <= end \/ k > End(c) THEN body[k]
                      ELSE IF k = end + 1 /\ Start(c) < end THEN Suffix ELSE 0
          /\ g[k] = IF k <= end \/ k > End(c) THEN f[k]
                    ELSE IF k = end + 1 /\ Start(c) < end THEN Suffix ELSE 0
      BY <1>8, <1>9, <3>2
    <3>4. k - 1 \in {d, d + 1} => k <= end
      BY <1>1, <1>2
    <3>. QED
      BY <3>1, <3>3, <3>4
  <2>4. new = [k \in 1 .. Len(body) |-> new[k]]
    <3>1. new \in Seq(Nat)
      BY <1>5 DEF Files
    <3>. QED
      BY <1>5, <3>1
  <2>. QED
    BY <2>1, <2>3, <2>4
<1>17. Signed(g, new, n)
  BY <1>5, <1>6, <1>8, <1>11, <1>13, <1>14, <1>15, <1>16 DEF Signed
<1>18. \A k \in CertOffset(f) + 1 .. Len(f) : g[k] = f[k]
  <2> TAKE k \in CertOffset(f) + 1 .. Len(f)
  <2>1. k \in 1 .. Len(f) /\ k > End(c)
    BY <1>1, <1>3, <1>6
  <2>. QED
    BY <1>12, <2>1
<1>. QED
  BY <1>8, <1>13, <1>17, <1>18 DEF g, new, m

-----------------------------------------------------------------------------
(* Cut images. *)

(* A part of an image declares the table of the whole, as far as it has
   headers at all. *)
LEMMA BrokenPrefix ==
  ASSUME NEW f \in Files, NEW n \in Nat, n <= Len(f),
         ~HasTable(f) \/ n < CertEnd(f)
  PROVE  Broken(SubSeq(f, 1, n))
<1> DEFINE g == SubSeq(f, 1, n)
<1>1. /\ g \in Files /\ Len(g) = n /\ Len(f) \in Nat
      /\ \A k \in 1 .. n : g[k] = f[k]
  <2>1. 0 \in Nat /\ 0 <= n /\ 0 + 1 = 1 /\ n - 0 = n
    OBVIOUS
  <2>2. /\ SubSeq(f, 0 + 1, n) \in Files /\ Len(SubSeq(f, 0 + 1, n)) = n - 0
        /\ \A k \in 1 .. n - 0 : SubSeq(f, 0 + 1, n)[k] = f[0 + k]
    BY <2>1, SliceCells
  <2>3. \A k \in 1 .. n : 0 + k = k
    OBVIOUS
  <2>4. Len(f) \in Nat
    BY DEF Files
  <2>. QED
    BY <2>1, <2>2, <2>3, <2>4
<1> HIDE DEF g
<1>2. SUFFICES ASSUME HeadersOk(g), HasTable(g) PROVE CertEnd(g) > Len(g)
  BY DEF Broken, g
<1>3. /\ CertDirectory(g) \in Nat /\ CertDirectory(g) + 2 <= OptionalEnd(g)
      /\ OptionalEnd(g) \in Nat /\ OptionalEnd(g) <= n
  BY <1>1, <1>2, HeaderPlaces
<1>4. CertDirectory(f) = CertDirectory(g)
  <2>1. OptionalEnd(g) <= Len(f)
    BY <1>1, <1>3
  <2>2. \A k \in 1 .. OptionalEnd(g) : f[k] = g[k]
    BY <1>1, <1>3
  <2>. QED
    BY <1>1, <1>2, <2>1, <2>2, SameHeaders
<1>5. CertOffset(f) = CertOffset(g) /\ CertSize(f) = CertSize(g)
  <2>1. CertDirectory(g) + 1 \in 1 .. n /\ CertDirectory(g) + 1 + 1 \in 1 .. n
    BY <1>3
  <2>. QED
    BY <1>1, <1>4, <2>1 DEF CertOffset, CertSize, At
<1>6. HasTable(f) /\ CertEnd(f) = CertEnd(g)
  BY <1>2, <1>5 DEF HasTable, CertEnd
<1>. QED
  BY <1>1, <1>6

LEMMA BrokenRefused ==
  ASSUME NEW f \in Files, Broken(f)
  PROVE  ~Strippable(f) /\ ~Mutable(f) /\ ~Verifies(f)
<1>1. Len(f) \in Nat
  BY DEF Files
<1>2. HeadersOk(f) => CertEnd(f) \in Nat
  BY HeaderPlaces DEF CertEnd
<1>3. ~(HeadersOk(f) /\ HasTable(f) /\ CertEnd(f) <= Len(f))
  BY <1>1, <1>2 DEF Broken
<1>. QED
  BY <1>3 DEF Strippable, Mutable, CertificatesInBounds, Verifies

LEMMA PlainRefused ==
  ASSUME NEW f, Plain(f)
  PROVE  ~HasTable(f) /\ ~Strippable(f) /\ ~Mutable(f) /\ ~Verifies(f)
  BY DEF Plain, HasTable, Strippable, Mutable, CertificatesInBounds, Verifies

(* The table decides which signature a signed image is checked against. *)
LEMMA VerdictOfSigned ==
  ASSUME NEW f, NEW body, NEW n \in DOMAIN signatures, Signed(f, body, n)
  PROVE  Verifies(f) <=> signatures[n] = body
  BY DEF Signed, Verifies

-----------------------------------------------------------------------------
(* The invariant. *)

LEMMA BuiltOrigin ==
  ASSUME Types
  PROVE  WellFormed(origin) /\ Built(origin) /\ origin \in Files
<1>1. WellFormed(origin)
  BY ToolsAssumption DEF Types
<1>. QED
  BY <1>1, CommandPlace DEF Built

LEMMA BuiltContent ==
  ASSUME Types, tampered => Room(origin)
  PROVE  /\ Built(Content) /\ Content \in Files /\ Plain(Content)
         /\ Plain(Aligned(Content)) /\ Aligned(Content) \in Files
         /\ Len(Content) = Len(origin)
<1>1. Built(origin)
  BY BuiltOrigin
<1>2. Built(Content) /\ Len(Content) = Len(origin)
  BY <1>1, MutatedImage DEF Content
<1>3. Plain(Content) /\ Content \in Files
  BY <1>2 DEF Built, Plain
<1>4. Plain(Aligned(Content)) /\ Aligned(Content) \in Files
  BY <1>3, PlainAligned, AlignedCells
<1>. QED
  BY <1>2, <1>3, <1>4

(* An image at hand that is unsigned can be signed. *)
LEMMA UnsignedPlain ==
  ASSUME Types, tampered => Room(origin), Unsigned
  PROVE  Plain(file) /\ Aligned(file) = Aligned(Content)
  BY BuiltContent, AlignedTwice DEF Unsigned

(* New signatures change no verdict on an image whose signature is known. *)
LEMMA VerdictKept ==
  ASSUME signatures \in Seq(Files), NEW body,
         signatures' = Append(signatures, body), NEW f, Known(f)
  PROVE  Known(f)' /\ (Verifies(f)' <=> Verifies(f))
<1> DEFINE at == At(f, CertOffset(f) + Align)
<1>1. \A n \in DOMAIN signatures :
        n \in DOMAIN signatures' /\ signatures'[n] = signatures[n]
  OBVIOUS
<1>2. Known(f) <=> (HeadersOk(f) /\ HasTable(f) /\ CertEnd(f) <= Len(f)
                      => at \in DOMAIN signatures)
  BY DEF Known
<1>3. Known(f)' <=> (HeadersOk(f) /\ HasTable(f) /\ CertEnd(f) <= Len(f)
                       => at \in DOMAIN signatures')
  BY DEF Known
<1>4. Verifies(f) <=> /\ HeadersOk(f) /\ HasTable(f) /\ CertEnd(f) <= Len(f)
                      /\ at \in DOMAIN signatures
                      /\ signatures[at] = StripFile(f)
  BY DEF Verifies
<1>5. Verifies(f)' <=> /\ HeadersOk(f) /\ HasTable(f) /\ CertEnd(f) <= Len(f)
                       /\ at \in DOMAIN signatures'
                       /\ signatures'[at] = StripFile(f)
  BY DEF Verifies
<1> HIDE DEF at
<1>. QED
  BY <1>1, <1>2, <1>3, <1>4, <1>5, Zenon

LEMMA InspectedKept ==
  ASSUME Inspected, UNCHANGED <<static, signatures>>
  PROVE  Inspected'
  BY DEF Inspected, Known, Verifies

LEMMA InitInv ==
  ASSUME Init PROVE Inv
<1>1. origin \in Images /\ WellFormed(origin)
  BY ToolsAssumption DEF Init
<1>2. origin \in Files /\ Built(origin) /\ Plain(origin)
  BY <1>1, CommandPlace DEF Built
<1>3. /\ tampered = FALSE /\ cut = FALSE /\ static = None /\ answer = "none"
      /\ Content = origin
  BY DEF Init, Content
<1>4. CASE file = origin /\ signatures = <<>> /\ stale = TRUE
  <2>1. Types
    <3>1. signatures \in Seq(Files)
      BY <1>4
    <3>2. file \in Files /\ stale \in BOOLEAN /\ tampered \in BOOLEAN /\ cut \in BOOLEAN
      BY <1>2, <1>3, <1>4
    <3>. QED
      BY <1>1, <3>1, <3>2 DEF Types
  <2>2. ~HasTable(file)
    BY <1>2, <1>4, PlainRefused
  <2>. QED
    BY <1>3, <1>4, <2>1, <2>2 DEF Inv, Inspected, Unsigned
<1>5. CASE /\ file \in {SignFile(origin, 1), WithSecond(SignFile(origin, 1))}
           /\ signatures = <<Aligned(origin)>> /\ stale = FALSE
  <2>1. /\ Signed(SignFile(origin, 1), Aligned(origin), 1)
        /\ Entries(SignFile(origin, 1))
        /\ CertSize(SignFile(origin, 1)) = PaddedLength(Align + 1)
        /\ CertEnd(SignFile(origin, 1)) = Len(SignFile(origin, 1))
    BY <1>2, SignsPlain
  <2>2. Aligned(origin) \in Files /\ Plain(Aligned(origin))
    BY <1>2, PlainAligned, AlignedCells
  <2>3. Signed(file, Aligned(origin), 1) /\ Entries(file)
    BY <1>5, <2>1, <2>2, StaysSignedWithSecond
  <2>4. file \in Files /\ HasTable(file)
    BY <2>3 DEF Signed
  <2>5. /\ signatures \in Seq(Files)
        /\ 1 \in DOMAIN signatures /\ signatures[1] = Aligned(origin)
    BY <1>5, <2>2
  <2>6. Types
    BY <1>1, <1>3, <1>5, <2>4, <2>5 DEF Types
  <2>7. InTable
    BY <1>3, <1>5, <2>3, <2>5 DEF InTable
  <2>. QED
    BY <1>3, <2>3, <2>4, <2>6, <2>7 DEF Inv, Inspected
<1>. QED
  BY <1>4, <1>5 DEF Init

LEMMA SignStep ==
  ASSUME Inv, Sign PROVE Inv'
<1> DEFINE n == Len(signatures) + 1
<1>1. /\ Types /\ Inspected /\ (tampered => Room(origin))
      /\ cut = FALSE /\ ~HasTable(file) /\ Unsigned
  BY DEF Inv, Sign, Types
<1>2. /\ signatures' = Append(signatures, Aligned(file))
      /\ file' = SignFile(file, n)
      /\ stale' = FALSE /\ answer' = "none"
      /\ origin' = origin /\ static' = static /\ tampered' = tampered
      /\ cut' = cut
  BY DEF Sign
<1>3. /\ file \in Files /\ Plain(file) /\ Aligned(file) = Aligned(Content)
      /\ Aligned(Content) \in Files
  BY <1>1, UnsignedPlain, BuiltContent DEF Types
<1>4. signatures \in Seq(Files) /\ n \in Nat
  BY <1>1 DEF Types
<1>5. Signed(file', Aligned(Content), n) /\ Entries(file')
  BY <1>2, <1>3, <1>4, SignsPlain
<1>6. file' \in Files /\ HasTable(file')
  BY <1>5 DEF Signed
<1>7. /\ signatures' \in Seq(Files)
      /\ n \in DOMAIN signatures' /\ signatures'[n] = Aligned(Content)
  BY <1>2, <1>3, <1>4
<1>8. Types'
  BY <1>1, <1>2, <1>6, <1>7 DEF Types
<1>9. Content' = Content
  BY <1>2 DEF Content
<1>10. InTable'
  BY <1>2, <1>5, <1>7, <1>9 DEF InTable
<1>11. Inspected'
  <2>1. CASE static = None
    BY <1>2, <2>1 DEF Inspected
  <2>2. CASE static # None
    <3>1. /\ static.image \in Files /\ Known(static.image)
          /\ static.verified = Verifies(static.image)
          /\ static.raw = Dumped(static.image)
      BY <1>1, <2>2 DEF Inspected
    <3> DEFINE image == static.image
    <3>2. Known(image)
      BY <3>1
    <3> HIDE DEF image
    <3>. QED
      BY <1>2, <1>4, <3>1, VerdictKept DEF Inspected, Known, Verifies
  <2>. QED
    BY <2>1, <2>2
<1>12. (tampered => Room(origin))'
  BY <1>1, <1>2
<1>. QED
  BY <1>1, <1>2, <1>5, <1>6, <1>8, <1>10, <1>11, <1>12 DEF Inv

LEMMA PadStep ==
  ASSUME Inv, Pad PROVE Inv'
<1>1. /\ Types /\ Inspected /\ (tampered => Room(origin))
      /\ cut = FALSE /\ HasTable(file) /\ InTable /\ Entries(file)
  BY DEF Inv, Pad, Types
<1>2. /\ file' = Append(file, 0) /\ answer' = "none"
      /\ origin' = origin /\ signatures' = signatures /\ static' = static
      /\ tampered' = tampered /\ stale' = stale /\ cut' = cut
  BY DEF Pad, history
<1>3. PICK n \in DOMAIN signatures :
        /\ Signed(file, Aligned(Content), n)
        /\ IF stale THEN tampered /\ signatures[n] = Aligned(origin)
                    ELSE signatures[n] = Aligned(Content)
  BY <1>1 DEF InTable
<1>4. Plain(Aligned(Content)) /\ Aligned(Content) \in Files
  BY <1>1, BuiltContent
<1>5. /\ file \in Files /\ CertEnd(file) \in Nat /\ CertEnd(file) <= Len(file)
      /\ Len(file) \in Nat
  BY <1>3, <1>4, SignedCells
<1>6. /\ file' \in Files /\ Len(file') = Len(file) + 1
      /\ \A k \in 1 .. Len(file) : file'[k] = file[k]
      /\ file'[Len(file) + 1] = 0
  BY <1>2, <1>5 DEF Files
<1>7. /\ Signed(file', Aligned(Content), n)
      /\ CertOffset(file') = CertOffset(file)
      /\ CertSize(file') = CertSize(file)
  BY <1>3, <1>4, <1>5, <1>6, StaysSigned
<1>8. Content' = Content /\ HasTable(file')
  BY <1>2, <1>7 DEF Content, Signed
<1>9. InTable'
  BY <1>2, <1>3, <1>7, <1>8 DEF InTable
<1>10. Types'
  BY <1>1, <1>2, <1>6 DEF Types
<1>11. Inspected'
  BY <1>1, <1>2, InspectedKept
<1>12. Entries(file')
  <2>1. CertOffset(file) \in Nat
    BY <1>3, <1>4, SignedCells
  <2>2. \A k \in CertOffset(file) + 1 .. CertEnd(file) : file'[k] = file[k]
    BY <1>5, <1>6, <2>1
  <2>3. \A k \in CertEnd(file) + 1 .. Len(file') : file'[k] = 0
    <3>1. \A k \in CertEnd(file) + 1 .. Len(file) : file[k] = 0
      BY <1>1 DEF Entries
    <3>2. ASSUME NEW k \in CertEnd(file) + 1 .. Len(file') PROVE file'[k] = 0
      <4>1. CASE k = Len(file) + 1
        BY <1>6, <4>1
      <4>2. CASE k # Len(file) + 1
        <5>1. k \in CertEnd(file) + 1 .. Len(file) /\ k \in 1 .. Len(file)
          BY <1>5, <1>6, <4>2
        <5>. QED
          BY <1>6, <3>1, <5>1
      <4>. QED
        BY <4>1, <4>2
    <3>. QED
      BY <3>2
  <2>. QED
    BY <1>1, <1>3, <1>4, <1>7, <2>2, <2>3, KeepsEntries
<1>. QED
  BY <1>1, <1>2, <1>8, <1>9, <1>10, <1>11, <1>12 DEF Inv

LEMMA CutStep ==
  ASSUME Inv, Cut PROVE Inv'
<1>1. /\ Types /\ Inspected /\ (tampered => Room(origin)) /\ cut = FALSE
      /\ HasTable(file) => InTable /\ Entries(file)
  BY DEF Inv, Cut, Types
<1>2. PICK n \in 0 .. Len(file) - 1 :
        /\ file' = SubSeq(file, 1, n)
        /\ cut' = (~HasTable(file) \/ n < CertEnd(file))
  BY DEF Cut
<1>3. /\ stale' = (stale \/ cut') /\ answer' = "none"
      /\ origin' = origin /\ signatures' = signatures /\ static' = static
      /\ tampered' = tampered
  BY DEF Cut
<1>4. /\ file \in Files /\ Len(file) \in Nat /\ n \in Nat /\ n <= Len(file)
      /\ stale \in BOOLEAN
  BY <1>1 DEF Types, Files
<1>5. /\ file' \in Files /\ Len(file') = n
      /\ \A k \in 1 .. n : file'[k] = file[k]
  <2>1. /\ SubSeq(file, 0 + 1, n) \in Files /\ Len(SubSeq(file, 0 + 1, n)) = n - 0
        /\ \A k \in 1 .. n - 0 : SubSeq(file, 0 + 1, n)[k] = file[0 + k]
    BY <1>4, SliceCells
  <2>2. 0 + 1 = 1 /\ n - 0 = n /\ \A k \in 1 .. n : 0 + k = k
    BY <1>4
  <2>. QED
    BY <1>2, <2>1, <2>2
<1>6. Types' /\ Inspected' /\ Content' = Content
  <2>1. Types'
    BY <1>1, <1>2, <1>3, <1>4, <1>5 DEF Types
  <2>. QED
    BY <1>1, <1>3, <2>1, InspectedKept DEF Content
<1>7. CASE ~HasTable(file) \/ n < CertEnd(file)
  <2>1. cut' = TRUE /\ stale' = TRUE
    BY <1>2, <1>3, <1>4, <1>7
  <2>2. Broken(file')
    BY <1>2, <1>4, <1>7, BrokenPrefix
  <2>. QED
    BY <1>1, <1>3, <1>6, <2>1, <2>2 DEF Inv
<1>8. CASE HasTable(file) /\ ~(n < CertEnd(file))
  <2>1. cut' = FALSE /\ stale' = stale
    BY <1>2, <1>3, <1>4, <1>8
  <2>2. PICK m \in DOMAIN signatures :
          /\ Signed(file, Aligned(Content), m)
          /\ IF stale THEN tampered /\ signatures[m] = Aligned(origin)
                      ELSE signatures[m] = Aligned(Content)
    BY <1>1, <1>8 DEF InTable
  <2>3. Plain(Aligned(Content)) /\ Aligned(Content) \in Files
    BY <1>1, BuiltContent
  <2>4. CertEnd(file) \in Nat /\ n >= CertEnd(file)
    <3>1. CertEnd(file) \in Nat
      BY <2>2, <2>3, SignedCells
    <3>. QED
      BY <1>4, <1>8, <3>1
  <2>5. Len(file') >= CertEnd(file) /\ \A k \in 1 .. CertEnd(file) : file'[k] = file[k]
    BY <1>4, <1>5, <2>4
  <2>6. /\ Signed(file', Aligned(Content), m)
        /\ CertOffset(file') = CertOffset(file)
        /\ CertSize(file') = CertSize(file)
    BY <1>5, <2>2, <2>3, <2>5, StaysSigned
  <2>7. HasTable(file')
    BY <2>6 DEF Signed
  <2>8. InTable'
    BY <1>3, <1>6, <2>1, <2>2, <2>6 DEF InTable
  <2>9. Entries(file')
    <3>1. CertOffset(file) \in Nat
      BY <2>2, <2>3, SignedCells
    <3>2. \A k \in CertOffset(file) + 1 .. CertEnd(file) : file'[k] = file[k]
      BY <2>4, <2>5, <3>1
    <3>3. \A k \in CertEnd(file) + 1 .. Len(file') : file'[k] = 0
      <4>1. \A k \in CertEnd(file) + 1 .. Len(file) : file[k] = 0
        BY <1>1, <1>8 DEF Entries
      <4>2. \A k \in CertEnd(file) + 1 .. Len(file') :
              k \in CertEnd(file) + 1 .. Len(file) /\ k \in 1 .. n
        BY <1>4, <1>5, <2>4
      <4>. QED
        BY <1>5, <4>1, <4>2
    <3>. QED
      BY <1>1, <1>8, <2>2, <2>3, <2>6, <3>2, <3>3, KeepsEntries
  <2>. QED
    BY <1>1, <1>3, <1>6, <2>1, <2>7, <2>8, <2>9 DEF Inv
<1>. QED
  BY <1>7, <1>8

LEMMA InspectStep ==
  ASSUME Inv, Inspect PROVE Inv'
<1>1. /\ Types /\ cut = FALSE
      /\ HasTable(file) => InTable /\ Entries(file)
  BY DEF Inv, Inspect, Types
<1>2. /\ static' = [image |-> file, verified |-> Verifies(file),
                    raw |-> Dumped(file)]
      /\ answer' = "none" /\ file' = file /\ origin' = origin
      /\ signatures' = signatures /\ tampered' = tampered
      /\ stale' = stale /\ cut' = cut
  BY DEF Inspect, history
<1>3. Known(file)
  <2>1. CASE HasTable(file)
    BY <1>1, <2>1 DEF InTable, Known, Signed
  <2>2. CASE ~HasTable(file)
    BY <2>2 DEF Known
  <2>. QED
    BY <2>1, <2>2
<1>4. Inspected'
  <2>1. static'.image = file /\ static'.raw = Dumped(file)
    BY <1>2
  <2>2. static'.verified = Verifies(file)
    BY <1>2, Zenon
  <2>3. Known(file)' /\ (Verifies(file)' <=> Verifies(file)) /\ file \in Files
    BY <1>1, <1>2, <1>3 DEF Known, Verifies, Types
  <2>. QED
    BY <2>1, <2>2, <2>3, <1>2, <1>3 DEF Inspected, Known, Verifies
<1>5. Types'
  BY <1>1, <1>2 DEF Types
<1>6. Content' = Content
  BY <1>2 DEF Content
<1>. QED
  BY <1>1, <1>2, <1>4, <1>5, <1>6 DEF Inv, Unsigned, InTable

LEMMA StripStep ==
  ASSUME Inv, Strip PROVE Inv'
<1>1. /\ Types /\ Inspected /\ (tampered => Room(origin))
      /\ cut => Broken(file)
      /\ ~cut /\ ~HasTable(file) => Unsigned
      /\ ~cut /\ HasTable(file) => InTable
  BY DEF Inv
<1>2. /\ Strippable(file) /\ file' = StripFile(file)
      /\ stale' = TRUE /\ answer' = "written"
      /\ origin' = origin /\ signatures' = signatures /\ static' = static
      /\ tampered' = tampered /\ cut' = cut
  BY DEF Strip
<1>3. ~cut /\ HasTable(file) /\ InTable
  BY <1>1, <1>2, BrokenRefused DEF Types, Strippable
<1>4. PICK n \in DOMAIN signatures : Signed(file, Aligned(Content), n)
  BY <1>3 DEF InTable
<1>5. file' = Aligned(Content)
  BY <1>2, <1>4 DEF Signed
<1>6. /\ Plain(file') /\ file' \in Files /\ ~HasTable(file')
  BY <1>1, <1>5, BuiltContent, PlainRefused
<1>7. Content' = Content
  BY <1>2 DEF Content
<1>8. Unsigned'
  BY <1>2, <1>5, <1>7 DEF Unsigned
<1>9. Types' /\ Inspected'
  <2>1. Types'
    BY <1>1, <1>2, <1>6 DEF Types
  <2>. QED
    BY <1>1, <1>2, <2>1, InspectedKept
<1>. QED
  BY <1>1, <1>2, <1>3, <1>6, <1>8, <1>9 DEF Inv

LEMMA MutateStep ==
  ASSUME Inv, Mutate PROVE Inv'
<1>1. /\ Types /\ Inspected /\ (tampered => Room(origin))
      /\ cut => Broken(file)
      /\ ~cut /\ HasTable(file) => InTable /\ Entries(file)
  BY DEF Inv
<1>2. /\ Mutable(file) /\ file' = MutateFile(file)
      /\ tampered' = TRUE /\ stale' = TRUE /\ answer' = "written"
      /\ origin' = origin /\ signatures' = signatures /\ static' = static
      /\ cut' = cut
  BY DEF Mutate
<1>3. ~cut /\ HasTable(file) /\ InTable /\ Entries(file)
  BY <1>1, <1>2, BrokenRefused DEF Types, Mutable, CertificatesInBounds
<1>4. PICK n \in DOMAIN signatures :
        /\ Signed(file, Aligned(Content), n)
        /\ IF stale THEN tampered /\ signatures[n] = Aligned(origin)
                    ELSE signatures[n] = Aligned(Content)
  BY <1>3 DEF InTable
<1>5. Built(Content) /\ Plain(Content) /\ Built(origin)
  BY <1>1, BuiltContent, BuiltOrigin
<1>6. Carries(file, Content)
  BY <1>4, <1>5, SignedCarries
<1>7. NotMutated(Content) /\ Room(Content)
  BY <1>2, <1>5, <1>6, CarriedCommand DEF Mutable
<1>8. ~tampered /\ Content = origin
  BY <1>1, <1>5, <1>7, MutatedImage DEF Content
<1>9. signatures[n] = Aligned(origin)
  BY <1>4, <1>8
<1>10. Content' = MutateFile(origin)
  BY <1>2 DEF Content
<1>11. /\ Signed(file', Aligned(MutateFile(origin)), n)
       /\ CertOffset(file') = CertOffset(file)
       /\ CertSize(file') = CertSize(file) /\ Len(file') = Len(file)
       /\ \A k \in CertOffset(file) + 1 .. Len(file) : file'[k] = file[k]
  BY <1>2, <1>4, <1>5, <1>7, <1>8, MutateSigned
<1>12. file' \in Files /\ HasTable(file')
  BY <1>11 DEF Signed
<1>13. InTable'
  BY <1>2, <1>9, <1>10, <1>11 DEF InTable
<1>14. Types' /\ Inspected'
  <2>1. Types'
    BY <1>1, <1>2, <1>12 DEF Types
  <2>. QED
    BY <1>1, <1>2, <2>1, InspectedKept
<1>15. Entries(file')
  <2>1. Plain(Aligned(Content)) /\ Aligned(Content) \in Files
    BY <1>1, BuiltContent
  <2>2. /\ CertOffset(file) \in Nat /\ CertEnd(file) \in Nat
        /\ CertEnd(file) <= Len(file) /\ Len(file) \in Nat
        /\ CertOffset(file) <= CertEnd(file)
    <3>1. /\ CertOffset(file) \in Nat /\ CertEnd(file) \in Nat
          /\ CertEnd(file) <= Len(file) /\ Len(file) \in Nat
          /\ CertOffset(file) + Align < CertEnd(file)
      BY <1>4, <2>1, SignedCells
    <3>. QED
      BY <3>1, ImageAssumption
  <2>3. \A k \in CertOffset(file) + 1 .. CertEnd(file) : file'[k] = file[k]
    BY <1>11, <2>2
  <2>4. \A k \in CertEnd(file) + 1 .. Len(file') : file'[k] = 0
    <3>1. \A k \in CertEnd(file) + 1 .. Len(file) : file[k] = 0
      BY <1>3 DEF Entries
    <3>2. \A k \in CertEnd(file) + 1 .. Len(file) :
            k \in CertOffset(file) + 1 .. Len(file)
      BY <2>2
    <3>. QED
      BY <1>11, <3>1, <3>2
  <2>. QED
    BY <1>3, <1>4, <1>11, <2>1, <2>3, <2>4, KeepsEntries
<1>. QED
  BY <1>1, <1>2, <1>3, <1>7, <1>8, <1>12, <1>13, <1>14, <1>15 DEF Inv

LEMMA RefuseStep ==
  ASSUME Inv, Refuse \/ UNCHANGED vars PROVE Inv'
<1>1. /\ file' = file /\ origin' = origin /\ signatures' = signatures
      /\ static' = static /\ tampered' = tampered /\ stale' = stale
      /\ cut' = cut /\ answer' \in {answer, "refused"}
  BY DEF Refuse, vars, history
<1>2. Content' = Content
  BY <1>1 DEF Content
<1>3. Types' /\ Inspected'
  <2>1. Types'
    BY <1>1 DEF Inv, Types
  <2>. QED
    BY <1>1, <2>1, InspectedKept DEF Inv
<1>. QED
  BY <1>1, <1>2, <1>3 DEF Inv, Unsigned, InTable

(* The image at hand is always what its history says: unsigned, with the table
   of one known signature, or cut short. *)
THEOREM PeInvariance == Spec => []Inv
<1>1. Inv /\ [Next]_vars => Inv'
  BY SignStep, PadStep, CutStep, InspectStep, StripStep, MutateStep, RefuseStep
     DEF Next
<1>. QED
  BY InitInv, <1>1, PTL DEF Spec

-----------------------------------------------------------------------------
(* What follows. *)

(* The firmware accepts exactly the images nothing edited since they were
   signed: a mutation always breaks the signature it leaves in place. *)
THEOREM VerdictFollowsBytes == Spec => []SignatureFollowsBytes
<1>1. ASSUME Inv PROVE SignatureFollowsBytes
  <2>1. Types /\ (tampered => Room(origin))
    BY <1>1 DEF Inv
  <2>2. CASE cut
    BY <1>1, <2>1, <2>2, BrokenRefused DEF Inv, Types, SignatureFollowsBytes
  <2>3. CASE ~cut /\ ~HasTable(file)
    <3>1. Unsigned
      BY <1>1, <2>3 DEF Inv
    <3>. QED
      BY <2>1, <3>1, UnsignedPlain, PlainRefused
         DEF Unsigned, SignatureFollowsBytes
  <2>4. CASE ~cut /\ HasTable(file)
    <3>1. PICK n \in DOMAIN signatures :
            /\ Signed(file, Aligned(Content), n)
            /\ IF stale THEN tampered /\ signatures[n] = Aligned(origin)
                        ELSE signatures[n] = Aligned(Content)
      BY <1>1, <2>4 DEF Inv, InTable
    <3>2. Verifies(file) <=> signatures[n] = Aligned(Content)
      BY <3>1, VerdictOfSigned
    <3>3. tampered => Aligned(Content) # Aligned(origin)
      BY <2>1, BuiltOrigin, MutatedImage DEF Content
    <3>. QED
      BY <2>1, <3>1, <3>2, <3>3 DEF SignatureFollowsBytes, Types
  <2>. QED
    BY <2>2, <2>3, <2>4
<1>. QED
  BY PeInvariance, <1>1, PTL

LEMMA CarriesContent ==
  ASSUME Inv, ~cut PROVE Carries(file, Content) /\ Built(Content)
<1>1. Types /\ (tampered => Room(origin))
  BY DEF Inv
<1>2. Built(Content) /\ Plain(Content)
  BY <1>1, BuiltContent
<1>3. CASE HasTable(file)
  BY <1>2, <1>3, SignedCarries DEF Inv, InTable
<1>4. CASE ~HasTable(file)
  BY <1>2, <1>4, PlainCarries DEF Inv, Unsigned
<1>. QED
  BY <1>2, <1>3, <1>4

(* Whatever the tools do, every section keeps its place and its bytes, but for
   the one suffix at the end of a mutated command line. *)
THEOREM NothingElseTouched == Spec => []SectionsSurvive
<1>1. ASSUME Inv, ~cut
      PROVE  /\ \A i \in Sections(origin) \ CmdlineSections(origin) :
                  SubSeq(file, RawOffset(origin, i) + 1, RawEnd(origin, i)) =
                  SubSeq(origin, RawOffset(origin, i) + 1, RawEnd(origin, i))
             /\ Text(file) = Text(origin) \o (IF tampered THEN <<Suffix>> ELSE <<>>)
  <2>1. Types /\ (tampered => Room(origin))
    BY <1>1 DEF Inv
  <2>2. Carries(file, Content) /\ Built(Content)
    BY <1>1, CarriesContent
  <2>3. /\ \A k \in TableEnd(Content) + 1 .. Len(Content) : file[k] = Content[k]
        /\ Text(file) = Text(Content)
    BY <2>2, CarriedCommand
  <2>4. WellFormed(origin) /\ Built(origin) /\ origin \in Files
    BY <2>1, BuiltOrigin
  <2>5. /\ Len(Content) = Len(origin) /\ TableEnd(Content) = TableEnd(origin)
        /\ \A k \in 1 .. Len(origin) :
             k <= Start(origin) \/ k > End(origin) => Content[k] = origin[k]
    <3>1. CASE ~tampered
      BY <3>1 DEF Content
    <3>2. CASE tampered
      <4>1. Content = MutateFile(origin) /\ Placed(origin) /\ Plain(origin)
        BY <2>4, <3>2 DEF Content, Built
      <4>2. /\ TextEnd(origin) \in Nat /\ Start(origin) <= TextEnd(origin)
            /\ TextEnd(origin) <= End(origin)
            /\ Start(origin) \in Nat /\ End(origin) \in Nat
        BY <4>1, TextPlaces DEF Placed
      <4>3. /\ Content \in Files /\ Len(Content) = Len(origin)
            /\ \A k \in 1 .. Len(origin) :
                 k <= TextEnd(origin) \/ k > End(origin) =>
                   Content[k] = origin[k]
        BY <4>1, MutatedCells
      <4>4. \A k \in 1 .. TableEnd(origin) : Content[k] = origin[k]
        <5>1. /\ TableEnd(origin) \in Nat /\ TableEnd(origin) <= Len(origin)
              /\ TableEnd(origin) <= Start(origin) /\ Len(origin) \in Nat
          BY <2>4, <4>1, HeaderPlaces DEF Plain, Built, Files
        <5>. QED
          BY <4>2, <4>3, <5>1
      <4>5. TableEnd(Content) = TableEnd(origin)
        <5>1. Len(Content) >= Len(origin)
          BY <2>4, <4>3 DEF Files
        <5>. QED
          BY <2>4, <4>1, <4>3, <4>4, <5>1, PlainPrefix
      <4>. QED
        BY <4>2, <4>3, <4>5
    <3>. QED
      BY <3>1, <3>2
  <2>6. /\ file \in Files /\ Len(file) \in Nat /\ Len(origin) \in Nat
        /\ Len(origin) <= Len(file) /\ TableEnd(origin) \in Nat
    BY <2>2, <2>4, <2>5, HeaderPlaces DEF Carries, Files, Built, Plain
  <2>7. ASSUME NEW i \in Sections(origin) \ CmdlineSections(origin)
        PROVE  SubSeq(file, RawOffset(origin, i) + 1, RawEnd(origin, i)) =
               SubSeq(origin, RawOffset(origin, i) + 1, RawEnd(origin, i))
    <3>1. /\ RawOffset(origin, i) \in Nat /\ RawEnd(origin, i) \in Nat
          /\ RawOffset(origin, i) <= RawEnd(origin, i)
          /\ RawEnd(origin, i) <= Len(origin)
          /\ \A k \in RawOffset(origin, i) + 1 .. RawEnd(origin, i) :
               k > TableEnd(origin) /\ (k <= Start(origin) \/ k > End(origin))
      BY <2>4, CommandPlace
    <3> DEFINE a == RawOffset(origin, i)
               b == RawEnd(origin, i)
    <3> HIDE DEF a, b
    <3>2. /\ a \in Nat /\ b \in Nat /\ a <= b /\ b <= Len(origin)
          /\ \A k \in a + 1 .. b :
               k > TableEnd(origin) /\ (k <= Start(origin) \/ k > End(origin))
      BY <3>1 DEF a, b
    <3>3. ASSUME NEW k \in a + 1 .. b PROVE file[k] = origin[k]
      <4>1. /\ k \in 1 .. Len(origin) /\ k \in TableEnd(origin) + 1 .. Len(origin)
            /\ k <= Start(origin) \/ k > End(origin)
        BY <2>6, <3>2
      <4>. QED
        BY <2>3, <2>5, <4>1
    <3>4. b <= Len(file)
      BY <2>6, <3>2
    <3>5. SubSeq(file, a + 1, b) = SubSeq(origin, a + 1, b)
      BY <2>4, <2>6, <3>2, <3>3, <3>4, SameSlice
    <3>. QED
      BY <3>5 DEF a, b
  <2>8. Text(Content) = Text(origin) \o (IF tampered THEN <<Suffix>> ELSE <<>>)
    <3>1. CASE tampered
      BY <2>1, <2>4, <3>1, MutatedImage DEF Content
    <3>2. CASE ~tampered
      <4>1. Text(origin) \in Files
        <5>1. /\ Placed(origin) /\ Start(origin) \in Nat /\ TextEnd(origin) \in Nat
              /\ Start(origin) <= TextEnd(origin)
              /\ TextEnd(origin) <= End(origin)
              /\ End(origin) \in Nat /\ End(origin) <= Len(origin)
          BY <2>4, TextPlaces DEF Built, Placed
        <5>2. TextEnd(origin) <= Len(origin)
          BY <2>6, <5>1
        <5>3. Text(origin) = SubSeq(origin, Start(origin) + 1, TextEnd(origin))
          BY <5>1, RoomBehindText
        <5>. QED
          BY <2>4, <5>1, <5>2, <5>3, SliceCells
      <4>2. Text(origin) \o <<>> = Text(origin)
        BY <4>1, ConcatEmptySeq DEF Files
      <4>. QED
        BY <3>2, <4>2 DEF Content
    <3>. QED
      BY <3>1, <3>2
  <2>. QED
    BY <2>3, <2>7, <2>8
<1>2. Inv => SectionsSurvive
  BY <1>1 DEF SectionsSurvive
<1>. QED
  BY PeInvariance, <1>2, PTL

(* Stripping a signed image gives back what was signed. *)
THEOREM StripInvertsSign == Spec => []StripUndoesSign
<1>1. Inv => StripUndoesSign
  BY DEF Inv, Unsigned, Content, StripUndoesSign
<1>. QED
  BY PeInvariance, <1>1, PTL

(* An image cut below what its headers declare is never edited, wherever the
   cut fell: what is left of the headers still gives it away. *)
THEOREM CutIsRefused == Spec => []CutImagesRefused
<1>1. Inv => CutImagesRefused
  BY DEF Inv, CutImagesRefused
<1>. QED
  BY PeInvariance, <1>1, PTL

(* The static receipt stays true of the image it is about, whatever is signed
   or edited after it. *)
THEOREM ReceiptIsTruthful == Spec => []StaticTruthful
<1>1. Inv => StaticTruthful
  BY DEF Inv, Inspected, StaticTruthful
<1>. QED
  BY PeInvariance, <1>1, PTL

-----------------------------------------------------------------------------
(* No sound image is refused. *)

LEMMA Multiple ==
  ASSUME NEW x \in Nat
  PROVE  PaddedLength(x) % Align = 0 /\ (PaddedLength(x) + Align) % Align = 0
<1> DEFINE q == (x + Align - 1) \div Align
<1>1. q \in Nat
  BY ImageAssumption
<1>2. Align * q + Align = Align * (q + 1) /\ q + 1 \in Nat
  BY <1>1, ImageAssumption
<1>3. ASSUME NEW r \in Nat PROVE (Align * r) % Align = 0
  BY ImageAssumption
<1>. QED
  BY <1>1, <1>2, <1>3 DEF PaddedLength

LEMMA PaddedAlign == PaddedLength(Align) = Align
<1>1. Align + Align - 1 = Align * 1 + (Align - 1)
  BY ImageAssumption
<1>2. (Align + Align - 1) \div Align = 1
  BY <1>1, Division, ImageAssumption
<1>. QED
  BY <1>2, ImageAssumption DEF PaddedLength

(* The walk over the certificates as EntriesFill defines it: it goes on to the
   next cursor, and a set of cursors closed under this, up to the end of the
   table, shows that there is such a walk. *)
Walk(f) ==
  CHOOSE fill :
    fill = [cursor \in CertOffset(f) .. CertEnd(f) |->
              \/ cursor = CertEnd(f)
              \/ /\ cursor + Align <= CertEnd(f)
                 /\ At(f, cursor) >= Align
                 /\ cursor + PaddedLength(At(f, cursor)) <= CertEnd(f)
                 /\ fill[cursor + PaddedLength(At(f, cursor))]]

Ahead(f, cursor) ==
  /\ cursor + Align <= CertEnd(f)
  /\ At(f, cursor) >= Align
  /\ cursor + PaddedLength(At(f, cursor)) <= CertEnd(f)

Follow(f, cursors) ==
  \A cursor \in cursors :
    \/ cursor = CertEnd(f)
    \/ Ahead(f, cursor) /\ cursor + PaddedLength(At(f, cursor)) \in cursors

LEMMA WalkOn ==
  ASSUME NEW f \in Files, CertOffset(f) \in Nat, CertEnd(f) \in Nat,
         CertEnd(f) <= Len(f)
  PROVE  \A cursor \in CertOffset(f) .. CertEnd(f) :
           Walk(f)[cursor] <=>
             \/ cursor = CertEnd(f)
             \/ /\ Ahead(f, cursor)
                /\ Walk(f)[cursor + PaddedLength(At(f, cursor))]
<1> DEFINE S == CertOffset(f) .. CertEnd(f)
           next(cursor) == cursor + PaddedLength(At(f, cursor))
           reached(cursor) ==
             \E cursors \in SUBSET S : cursor \in cursors /\ Follow(f, cursors)
           fill == [cursor \in S |-> reached(cursor)]
<1>1. ASSUME NEW cursor \in S, Ahead(f, cursor) PROVE next(cursor) \in S
  <2>1. Len(f) \in Nat /\ Align \in Nat /\ Align >= 2
    BY ImageAssumption DEF Files
  <2>2. cursor + 1 \in 1 .. Len(f)
    BY <1>1, <2>1 DEF Ahead
  <2>3. At(f, cursor) \in Nat
    BY <2>2 DEF At, Files
  <2>4. PaddedLength(At(f, cursor)) \in Nat
    BY <2>3, Padded
  <2>. QED
    BY <1>1, <2>4 DEF Ahead
<1>2. ASSUME NEW cursor \in S
      PROVE  reached(cursor) <=>
               \/ cursor = CertEnd(f)
               \/ Ahead(f, cursor) /\ reached(next(cursor))
  <2>1. reached(cursor) =>
          cursor = CertEnd(f) \/ (Ahead(f, cursor) /\ reached(next(cursor)))
    BY DEF Follow
  <2>2. cursor = CertEnd(f) => reached(cursor)
    <3> HAVE cursor = CertEnd(f)
    <3>1. {cursor} \in SUBSET S /\ cursor \in {cursor} /\ Follow(f, {cursor})
      BY DEF Follow
    <3>. QED
      BY <3>1
  <2>3. Ahead(f, cursor) /\ reached(next(cursor)) => reached(cursor)
    <3> HAVE Ahead(f, cursor) /\ reached(next(cursor))
    <3>1. PICK cursors \in SUBSET S :
            next(cursor) \in cursors /\ Follow(f, cursors)
      OBVIOUS
    <3>2. Follow(f, cursors \union {cursor})
      BY <3>1 DEF Follow
    <3>3. cursors \union {cursor} \in SUBSET S /\ cursor \in cursors \union {cursor}
      BY <3>1
    <3>. QED
      BY <3>2, <3>3
  <2>. QED
    BY <2>1, <2>2, <2>3
<1> HIDE DEF reached
<1>3. \A cursor \in S : Ahead(f, cursor) => fill[next(cursor)] = reached(next(cursor))
  BY <1>1
<1>4. \A cursor \in S :
        reached(cursor) <=>
          \/ cursor = CertEnd(f)
          \/ /\ Ahead(f, cursor)
             /\ fill[next(cursor)]
  BY <1>2, <1>3
<1>5. fill = [cursor \in S |->
                \/ cursor = CertEnd(f)
                \/ /\ cursor + Align <= CertEnd(f)
                   /\ At(f, cursor) >= Align
                   /\ cursor + PaddedLength(At(f, cursor)) <= CertEnd(f)
                   /\ fill[cursor + PaddedLength(At(f, cursor))]]
  <2> DEFINE goes(cursor) ==
               \/ cursor = CertEnd(f)
               \/ /\ cursor + Align <= CertEnd(f)
                  /\ At(f, cursor) >= Align
                  /\ cursor + PaddedLength(At(f, cursor)) <= CertEnd(f)
                  /\ fill[cursor + PaddedLength(At(f, cursor))]
  <2>1. ASSUME NEW cursor \in S PROVE reached(cursor) = goes(cursor)
    <3>1. reached(cursor) \in BOOLEAN /\ goes(cursor) \in BOOLEAN
      BY DEF reached
    <3>2. reached(cursor) <=> goes(cursor)
      BY <1>4 DEF Ahead
    <3>. QED
      BY <3>1, <3>2
  <2> HIDE DEF goes
  <2>2. [cursor \in S |-> reached(cursor)] = [cursor \in S |-> goes(cursor)]
    BY <2>1
  <2>. QED
    BY <2>2 DEF goes
<1>6. Walk(f) = [cursor \in S |->
                \/ cursor = CertEnd(f)
                \/ /\ cursor + Align <= CertEnd(f)
                   /\ At(f, cursor) >= Align
                   /\ cursor + PaddedLength(At(f, cursor)) <= CertEnd(f)
                   /\ Walk(f)[cursor + PaddedLength(At(f, cursor))]]
  <2> HIDE DEF fill
  <2>. QED
    BY <1>5, Zenon DEF Walk
<1>. QED
  BY <1>6, Zenon DEF Ahead

LEMMA EntriesFilled ==
  ASSUME NEW f, NEW body \in Files, NEW n,
         Plain(body), Signed(f, body, n), Entries(f)
  PROVE  EntriesFill(f)
<1> DEFINE p == PaddedLength(Align + 1)
           first == CertOffset(f)
           last == CertEnd(f)
<1>1. /\ f \in Files /\ first \in Nat /\ last \in Nat /\ last <= Len(f)
      /\ CertSize(f) \in Nat /\ last = first + CertSize(f)
      /\ Align \in Nat /\ Align >= 2
  BY SignedCells, ImageAssumption DEF CertEnd
<1>2. p \in Nat /\ p >= Align + 1
  <2>1. Align + 1 \in Nat
    BY <1>1
  <2>. QED
    BY <2>1, Padded
<1>3. /\ At(f, first) = Align + 1
      /\ \/ CertSize(f) = p
         \/ CertSize(f) = p + Align /\ At(f, first + p) = Align
  BY DEF Entries
<1>4. EntriesFill(f) <=> Walk(f)[first]
  BY DEF EntriesFill, Walk
<1>5. \A cursor \in first .. last :
        Walk(f)[cursor] <=>
          \/ cursor = last
          \/ Ahead(f, cursor) /\ Walk(f)[cursor + PaddedLength(At(f, cursor))]
  BY <1>1, WalkOn
<1>6. first + PaddedLength(At(f, first)) = first + p
  BY <1>3
<1> HIDE DEF p, first, last
<1>7. /\ first \in first .. last /\ first + p \in first .. last
      /\ last \in first .. last
  BY <1>1, <1>2, <1>3
<1>8. Ahead(f, first)
  <2>1. first + Align <= last /\ first + p <= last /\ At(f, first) >= Align
    BY <1>1, <1>2, <1>3
  <2>. QED
    BY <1>6, <2>1 DEF Ahead, last
<1>9. Walk(f)[last]
  BY <1>5, <1>7
<1>10. Walk(f)[first + p]
  <2>1. CASE CertSize(f) = p
    BY <1>1, <1>9, <2>1
  <2>2. CASE CertSize(f) = p + Align /\ At(f, first + p) = Align
    <3>1. first + p + PaddedLength(At(f, first + p)) = last
      BY <1>1, <1>2, <2>2, PaddedAlign
    <3>2. first + p + Align <= last /\ At(f, first + p) >= Align /\ last <= last
      BY <1>1, <1>2, <2>2
    <3>3. Ahead(f, first + p)
      BY <3>1, <3>2 DEF Ahead, last
    <3>. QED
      BY <1>5, <1>7, <1>9, <3>1, <3>3
  <2>. QED
    BY <1>3, <2>1, <2>2
<1>. QED
  BY <1>4, <1>5, <1>6, <1>7, <1>8, <1>10

(* Stripping takes every image the signer made, also with a second, empty
   certificate, with up to MAX_TERMINAL_PADDING zeros behind it; the mutation
   takes every one that is not mutated yet and has room. *)
THEOREM SoundIsAccepted == Spec => []SoundImagesAccepted
<1>1. ASSUME Inv, ~cut, HasTable(file)
      PROVE  /\ Strippable(file) <=> Len(file) - CertEnd(file) <= MaxPadding
             /\ Mutable(file) <=> /\ ~tampered
                                  /\ Len(Text(origin)) + 2 <= Len(Dumped(origin))
  <2>1. Types /\ (tampered => Room(origin)) /\ Entries(file)
    BY <1>1 DEF Inv
  <2>2. PICK n \in DOMAIN signatures : Signed(file, Aligned(Content), n)
    BY <1>1 DEF Inv, InTable
  <2>3. /\ WellFormed(origin) /\ Built(origin) /\ origin \in Files
        /\ Built(Content) /\ Content \in Files /\ Plain(Content)
        /\ Plain(Aligned(Content)) /\ Aligned(Content) \in Files
        /\ Len(Content) = Len(origin) /\ Len(origin) \in Nat
    BY <2>1, BuiltOrigin, BuiltContent DEF Files
  <2>4. /\ HeadersOk(file) /\ CertDirectory(file) = CertDirectory(Aligned(Content))
        /\ CertOffset(file) = Len(Aligned(Content)) /\ CertOffset(file) \in Nat
        /\ CertOffset(file) + Align < CertEnd(file) /\ CertEnd(file) \in Nat
        /\ CertEnd(file) <= Len(file) /\ Len(file) \in Nat
    BY <2>2, <2>3, SignedCells
  <2>5. Carries(file, Content) /\ CertOffset(file) >= Len(origin)
    BY <2>2, <2>3, SignedCarries
  <2>6. /\ Placed(file) /\ Start(file) = Start(Content) /\ End(file) = End(Content)
        /\ TextEnd(file) = TextEnd(Content)
        /\ Room(file) <=> Room(Content)
        /\ NotMutated(file) <=> NotMutated(Content)
        /\ SameSections(file, Content) /\ TableEnd(file) = TableEnd(Content)
    BY <2>3, <2>5, CarriedCommand
  <2>7. SameSections(Content, origin)
    <3>1. CASE tampered
      BY <2>1, <2>3, <3>1, MutatedImage DEF Content
    <3>2. CASE ~tampered
      BY <3>2 DEF Content, SameSections
    <3>. QED
      BY <3>1, <3>2
  <2>8. /\ TableEnd(file) <= Len(origin) /\ TableEnd(file) \in Nat
    BY <2>3, <2>6, HeaderPlaces DEF Plain
  <2>9. ASSUME NEW i \in Sections(file)
        PROVE  /\ RawEnd(file, i) \in Nat
               /\ RawEnd(file, i) <= CertOffset(file)
               /\ RawEnd(file, i) <= Len(file)
               /\ RawSize(file, i) # 0 => RawOffset(file, i) # 0
    <3>1. /\ i \in Sections(origin) /\ RawSize(file, i) = RawSize(origin, i)
          /\ RawOffset(file, i) = RawOffset(origin, i)
          /\ RawEnd(file, i) = RawEnd(origin, i)
      BY <2>6, <2>7 DEF SameSections
    <3>2. RawSize(origin, i) # 0 =>
            RawOffset(origin, i) # 0 /\ RawEnd(origin, i) <= Len(origin)
      BY <2>3, <3>1 DEF WellFormed, SectionsInBounds
    <3>3. RawSize(origin, i) = 0 => RawOffset(origin, i) = 0
      BY <2>3, <3>1 DEF WellFormed
    <3>4. /\ RawSize(origin, i) \in Nat /\ RawOffset(origin, i) \in Nat
          /\ RawEnd(origin, i) = RawOffset(origin, i) + RawSize(origin, i)
      BY <2>3, <3>1, SectionCells DEF RawEnd, WellFormed, SectionsInBounds
    <3>5. RawEnd(origin, i) \in Nat /\ RawEnd(origin, i) <= Len(origin)
      BY <2>3, <3>2, <3>3, <3>4
    <3>. QED
      BY <2>3, <2>4, <2>5, <3>1, <3>2, <3>5, ImageAssumption
  <2>10. SectionsInBounds(file)
    <3>1. TableEnd(file) <= Len(file)
      BY <2>3, <2>4, <2>5, <2>8, ImageAssumption
    <3>. QED
      BY <2>9, <3>1 DEF SectionsInBounds
  <2>11. Strippable(file) <=> Len(file) - CertEnd(file) <= MaxPadding
    <3>1. CertOffset(file) % Align = 0
      BY <2>3, <2>4, AlignedCells, Multiple
    <3>2. CertSize(file) % Align = 0
      <4>1. Align + 1 \in Nat
        BY ImageAssumption
      <4>. QED
        BY <2>1, <4>1, Multiple DEF Entries
    <3>3. EntriesFill(file)
      BY <2>1, <2>2, <2>3, EntriesFilled
    <3>4. CertDirectory(file) + 2 <= CertOffset(file)
      <4>1. /\ CertDirectory(Aligned(Content)) + 2 <= OptionalEnd(Aligned(Content))
            /\ OptionalEnd(Aligned(Content)) <= Len(Aligned(Content))
            /\ OptionalEnd(Aligned(Content)) \in Nat
            /\ CertDirectory(Aligned(Content)) \in Nat
        BY <2>3, HeaderPlaces DEF Plain
      <4>. QED
        BY <2>4, <4>1
    <3>5. \A offset \in CertEnd(file) .. Len(file) - 1 : At(file, offset) = 0
      <4> TAKE offset \in CertEnd(file) .. Len(file) - 1
      <4>1. offset + 1 \in CertEnd(file) + 1 .. Len(file)
        BY <2>4
      <4>. QED
        BY <2>1, <4>1 DEF Entries, At
    <3>6. TerminalPadding(file) <=> Len(file) - CertEnd(file) <= MaxPadding
      BY <3>5 DEF TerminalPadding
    <3>. QED
      BY <1>1, <2>4, <2>9, <2>10, <3>1, <3>2, <3>3, <3>4, <3>6 DEF Strippable
  <2>12. Room(origin) <=> Len(Text(origin)) + 2 <= Len(Dumped(origin))
    <3>1. /\ Placed(origin) /\ Start(origin) \in Nat /\ End(origin) \in Nat
          /\ TextEnd(origin) \in Nat /\ Start(origin) < TextEnd(origin)
      BY <2>3, TextPlaces DEF Built, Placed
    <3>2. /\ Room(origin) <=> /\ Start(origin) + 2 <= End(origin)
                              /\ TextEnd(origin) + 2 <= End(origin)
          /\ Len(Text(origin)) = TextEnd(origin) - Start(origin)
          /\ Len(Dumped(origin)) = End(origin) - Start(origin)
      BY <3>1, RoomBehindText
    <3>. QED
      BY <3>1, <3>2
  <2>13. NotMutated(file) <=> ~tampered
    <3>1. tampered => ~NotMutated(Content)
      BY <2>1, <2>3, MutatedImage DEF Content
    <3>2. ~tampered => NotMutated(Content)
      BY <2>3, CommandPlace DEF Content
    <3>. QED
      BY <2>6, <3>1, <3>2
  <2>14. Mutable(file) <=> NotMutated(file) /\ Room(file)
    <3>1. CertificatesInBounds(file)
      BY <1>1, <2>4 DEF CertificatesInBounds
    <3>2. \E i \in CmdlineSections(file) : CmdlineSections(file) = {i}
      <4>1. CmdlineSections(file) = CmdlineSections(origin)
        BY <2>6, <2>7 DEF SameSections
      <4>2. \E i \in CmdlineSections(origin) : CmdlineSections(origin) = {i}
        BY <2>3 DEF WellFormed
      <4>. QED
        BY <4>1, <4>2
    <3>3. InText(file, Start(file))
      <4>1. Start(file) \in Int /\ Start(file) < TextEnd(file)
        BY <2>3, <2>6 DEF Placed, Built
      <4>. QED
        BY <2>6, <4>1, TextPlaces
    <3>. QED
      BY <2>4, <2>9, <2>10, <3>1, <3>2, <3>3 DEF Mutable
  <2>15. ~tampered => (Room(file) <=> Room(origin))
    BY <2>6 DEF Content
  <2>. QED
    BY <2>11, <2>12, <2>13, <2>14, <2>15
<1>2. Inv => SoundImagesAccepted
  BY <1>1 DEF SoundImagesAccepted
<1>. QED
  BY PeInvariance, <1>2, PTL

=============================================================================

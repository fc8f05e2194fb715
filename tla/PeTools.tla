------------------------------ MODULE PeTools ------------------------------
(***************************************************************************)
(* The life of a PE image (a UKI or an add-on) between the tools of the    *)
(* experiment: it is signed, inspected, stripped of its certificates and   *)
(* signed again by prepare_fedora_sealed_compat_control.sh, and its        *)
(* command line is mutated by tamper_fedora_sealed_uki.sh or               *)
(* prepare_fedora_pcr12_addon.sh.  Between two steps a copy may come out   *)
(* shorter or padded with zeros.                                           *)
(***************************************************************************)
EXTENDS PeImage, FiniteSetsExt

CONSTANTS
  Images,         (* unsigned images, as ukify builds them            *)
  MaxSignatures,  (* bound: how often an image is signed              *)
  None            (* no receipt                                       *)

VARIABLES
  file,        (* the image                                           *)
  origin,      (* what it was built as: never changes                 *)
  signatures,  (* what the signers signed, by signature               *)
  static,      (* static-inspection.json: the image hashed, verdict   *)
  answer,      (* what the last tool did: "written" or "refused"      *)
  tampered,    (* history: its command line was mutated               *)
  stale,       (* history: no signature was made since its last edit  *)
  cut          (* history: it lost a part of what its headers declare *)

history == <<tampered, stale, cut>>
vars == <<file, origin, signatures, static, answer, history>>

Zeros(n) == [k \in 1 .. n |-> 0]
Aligned(f) == f \o Zeros(PaddedLength(Len(f)) - Len(f))

(* What ukify builds: the data behind the headers, sections apart, one
   nonempty .cmdline, and a zero directory entry for certificates to come. *)
WellFormed(f) ==
  /\ f \in Files /\ HeadersOk(f) /\ SectionsInBounds(f)
  /\ CertOffset(f) = 0 /\ CertSize(f) = 0
  /\ \A i \in Sections(f) :
       /\ RawSize(f, i) # 0 => RawOffset(f, i) >= TableEnd(f)
       /\ RawSize(f, i) = 0 => RawOffset(f, i) = 0
       /\ \A j \in Sections(f) \ {i} :
            RawSize(f, i) # 0 /\ RawSize(f, j) # 0 =>
              RawEnd(f, i) <= RawOffset(f, j) \/ RawEnd(f, j) <= RawOffset(f, i)
  /\ \E i \in CmdlineSections(f) : CmdlineSections(f) = {i}
  /\ InText(f, Start(f))
  /\ \A offset \in Start(f) .. End(f) - 1 : At(f, offset) # Suffix

ASSUME ToolsAssumption ==
  /\ \A f \in Images : WellFormed(f)
  /\ MaxSignatures \in Nat \ {0}
  /\ None \notin [image : Files, verified : BOOLEAN, raw : Files]

(* A WIN_CERTIFICATE: length, revision and type, the signature, padding. *)
Certificate(n) ==
  <<Align + 1>> \o Zeros(Align - 1) \o <<n>>
    \o Zeros(PaddedLength(Align + 1) - Align - 1)

(* The signer aligns the file and appends the n-th signature. *)
SignFile(f, n) ==
  LET body == Aligned(f)
  IN [k \in 1 .. Len(body) |->
        IF k - 1 = CertDirectory(f) THEN Len(body)
        ELSE IF k - 1 = CertDirectory(f) + 1 THEN Len(Certificate(n))
        ELSE body[k]] \o Certificate(n)

(* A second, empty certificate behind the first, as some signers leave. *)
WithSecond(f) ==
  [f EXCEPT ![CertDirectory(f) + 2] = @ + Align] \o <<Align>> \o Zeros(Align - 1)

(* sbverify and the firmware: the table holds a signature of all bytes before
   it but the directory entry. *)
Verifies(f) ==
  /\ HeadersOk(f) /\ HasTable(f) /\ CertEnd(f) <= Len(f)
  /\ At(f, CertOffset(f) + Align) \in DOMAIN signatures
  /\ signatures[At(f, CertOffset(f) + Align)] = StripFile(f)

(* objcopy --dump-section .cmdline=FILE: the section as it is... *)
Dumped(f) == SubSeq(f, Start(f) + 1, End(f))
(* ...and, without an output file, a rewritten input that ends with the last
   section: the certificates are gone, their directory entry is not. *)
Rewritten(f) == IF HasTable(f) THEN SubSeq(f, 1, CertOffset(f)) ELSE f

Init ==
  /\ origin \in Images
  /\ \/ file = origin /\ signatures = <<>> /\ stale = TRUE
     \/ /\ file \in {SignFile(origin, 1), WithSecond(SignFile(origin, 1))}
        /\ signatures = <<Aligned(origin)>> /\ stale = FALSE
  /\ static = None /\ answer = "none" /\ tampered = FALSE /\ cut = FALSE

(* systemd-sbsign and ukify: what strip_pe_certificate_table.py left, or a new
   image. *)
Sign ==
  /\ ~cut /\ ~HasTable(file) /\ Len(signatures) < MaxSignatures
  /\ signatures' = Append(signatures, Aligned(file))
  /\ file' = SignFile(file, Len(signatures) + 1)
  /\ stale' = FALSE /\ answer' = "none"
  /\ UNCHANGED <<origin, static, tampered, cut>>

(* A copy padded with a zero, as a read by blocks leaves it. *)
Pad ==
  /\ ~cut /\ HasTable(file) /\ Len(file) - CertEnd(file) <= MaxPadding
  /\ file' = Append(file, 0) /\ answer' = "none"
  /\ UNCHANGED <<origin, signatures, static, history>>

(* A copy that lost its end. *)
Cut ==
  /\ ~cut
  /\ \E n \in 0 .. Len(file) - 1 :
       /\ file' = SubSeq(file, 1, n)
       /\ cut' = (~HasTable(file) \/ n < CertEnd(file))
  /\ stale' = (stale \/ cut') /\ answer' = "none"
  /\ UNCHANGED <<origin, signatures, static, tampered>>

(* Mutant: the command line is dumped from the image itself. *)
InspectInPlace ==
  /\ ~cut
  /\ file' = Rewritten(file)
  /\ static' = [image |-> file', verified |-> Verifies(file),
                raw |-> Dumped(file)]
  /\ answer' = "none"
  /\ UNCHANGED <<origin, signatures, history>>

(* Mutant: the disposable copy is verified after the dump. *)
InspectCopy ==
  /\ ~cut
  /\ static' = [image |-> file, verified |-> Verifies(Rewritten(file)),
                raw |-> Dumped(file)]
  /\ answer' = "none"
  /\ UNCHANGED <<file, origin, signatures, history>>

(* inspect_fedora_sealed_disk.py: verify, dump the command line from a
   disposable copy, hash. *)
Inspect ==
  /\ ~cut
  /\ static' = [image |-> file, verified |-> Verifies(file),
                raw |-> Dumped(file)]
  /\ answer' = "none"
  /\ UNCHANGED <<file, origin, signatures, history>>

Strip ==
  /\ Strippable(file)
  /\ file' = StripFile(file)
  /\ stale' = TRUE /\ answer' = "written"
  /\ UNCHANGED <<origin, signatures, static, tampered, cut>>

Mutate ==
  /\ Mutable(file)
  /\ file' = MutateFile(file)
  /\ tampered' = TRUE /\ stale' = TRUE /\ answer' = "written"
  /\ UNCHANGED <<origin, signatures, static, cut>>

(* A tool that raises writes nothing. *)
Refuse ==
  /\ ~Strippable(file) \/ ~Mutable(file)
  /\ answer' = "refused"
  /\ UNCHANGED <<file, origin, signatures, static, history>>

Next == Sign \/ Pad \/ Cut \/ Inspect \/ Strip \/ Mutate \/ Refuse

Spec == Init /\ [][Next]_vars
-----------------------------------------------------------------------------
(* The text of .cmdline without its NULs. *)
Text(f) ==
  SubSeq(f, Start(f) + 1,
         Max({Start(f)} \union
             {k \in Start(f) + 1 .. End(f) : f[k] # 0}))

(* An image verifies exactly as long as nothing edited it since it was signed:
   the mutation always breaks the signature it leaves in place, and neither
   padding, inspection nor a second certificate does. *)
SignatureFollowsBytes == Verifies(file) <=> ~stale

(* Neither tool touches what it does not own: the sections keep place and
   bytes, but for one suffix at the end of a mutated command line. *)
SectionsSurvive ==
  ~cut =>
    /\ \A i \in Sections(origin) \ CmdlineSections(origin) :
         SubSeq(file, RawOffset(origin, i) + 1, RawEnd(origin, i)) =
         SubSeq(origin, RawOffset(origin, i) + 1, RawEnd(origin, i))
    /\ Text(file) = Text(origin) \o (IF tampered THEN <<Suffix>> ELSE <<>>)

(* strip_pe_certificate_table.py undoes the signer: what it writes is the image
   before it was signed, up to the signer's alignment. *)
StripUndoesSign ==
  ~cut /\ ~tampered /\ ~HasTable(file) => file \in {origin, Aligned(origin)}

(* An image that lost a part of its certificates or sections is refused by both
   tools, wherever it was cut. *)
CutImagesRefused == cut => answer # "written"

(* No sound image is refused: stripping takes every signed image with at most
   MAX_TERMINAL_PADDING zeros behind it, and the mutation every signed image
   that is not mutated yet and has room for suffix and NUL. *)
SoundImagesAccepted ==
  ~cut /\ HasTable(file) =>
    /\ Strippable(file) <=> Len(file) - CertEnd(file) <= MaxPadding
    /\ Mutable(file) <=> /\ ~tampered
                         /\ Len(Text(origin)) + 2 <= Len(Dumped(origin))

(* The static receipt is about one image: its verdict is that of the bytes it
   hashed, and the command line it read is theirs. *)
StaticTruthful ==
  static # None =>
    /\ static.verified = Verifies(static.image)
    /\ static.raw = Dumped(static.image)

=============================================================================

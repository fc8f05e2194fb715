----------------------------- MODULE MCPeTools -----------------------------
(***************************************************************************)
(* PeTools with images whose command line has room for the suffix or not,  *)
(* or a NUL inside, alone, before or behind a neighbour with NULs at its    *)
(* ends; with an empty section, of even and odd length, in both kinds of   *)
(* optional header.                                                         *)
(***************************************************************************)
EXTENDS PeTools

Other == 98
Commands == {<<5, 0, 0, 0>>, <<5, 0>>, <<5, 0, 5, 0, 0>>, <<5, 6, 0, 0>>}
Neighbour == <<0, 7, 0>>

(* Headers of an image of `kind` with the given section entries. *)
Headers(kind, entries) ==
  <<1, Signature, Len(entries) \div 3, kind + 3, kind>>
    \o (IF kind = 2 THEN <<0>> ELSE <<>>) \o <<16, 0, 0>> \o entries

(* The command line alone, before its neighbour or behind it; a PE32 image has
   a gap behind the headers. *)
Build(kind, command, place) ==
  LET other == IF place = "alone" THEN <<>> ELSE Neighbour
      gap == 2 - kind
      data == Len(Headers(kind, <<>>)) + 6 + (IF other = <<>> THEN 0 ELSE 3) + gap
      commandAt == IF place = "last" THEN data + Len(other) ELSE data
      otherAt == IF place = "last" THEN data ELSE data + Len(command)
  IN Headers(kind, <<Cmdline, Len(command), commandAt>>
       \o (IF other = <<>> THEN <<>> ELSE <<Other, Len(other), otherAt>>)
       \o <<Other, 0, 0>>)
       \o Zeros(gap)
       \o (IF place = "last" THEN other \o command ELSE command \o other)

MCImages ==
  {Build(kind, command, place) :
     kind \in Magics, command \in Commands, place \in {"alone", "first", "last"}}

=============================================================================

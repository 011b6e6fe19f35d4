---------------------------- MODULE MCImageLibrary ----------------------------
(* Instance of ImageLibrary for TLC.  One family of behaviours starts from     *)
(* every folder made of eleven Ghost files whose names get in each other's way, *)
(* with the right files, with one of another image, and with some under wrong  *)
(* numbers, and imports one of them; the other runs several calls at a time    *)
(* over three images, with faults.                                             *)
EXTENDS ImageLibrary

CONSTANTS c1, c2, d1, d2, d3, MaxCalls

MCCapital == [l \in {"w"} |-> "W"]

Named(stem, ext) == [stem |-> stem, ext |-> ext]

WinXp == <<"w", "i", "n", "x", "p">>
Win00 == <<"w", "i", "n", "0", "0">>

A        == Named(WinXp \o <<"a">>, Gho)
ACapital == Named(<<"W", "i", "n", "x", "p", "a">>, Gho)
A1       == Named(WinXp \o <<"0", "0", "1">>, Ghs)
A2       == Named(WinXp \o <<"0", "0", "2">>, Ghs)
A2Wide   == Named(WinXp \o <<"0", "0", "0", "2">>, Ghs)
ACns     == Named(WinXp \o <<"a">>, <<"0", "0", "1">>)
B        == Named(WinXp \o <<"b">>, Gho)
W        == Named(<<"w", "i", "n">>, Gho)
W0       == Named(Win00, Gho)
W01      == Named(Win00 \o <<"0", "0", "1">>, Ghs)
W02      == Named(Win00 \o <<"0", "0", "2">>, Ghs)

H(kind, image) == Token(kind, image)
R(kind)        == Token(kind, 0)
Block(kind, b) == <<Token("byte", b), Token(kind, b), Token("rest", b)>>

Small(image) ==
  <<H("gho", image), R("0603"), R("magic")>> \o Block("ntfs", 1) \o <<R("0023")>>

Ghost == <<
  \* a partition in three files, cut inside its second block and inside the length
  \* of its third
  << <<H("gho", 1), R("0603"), R("magic")>> \o Block("ntfs", 1)
       \o <<Token("byte", 2), Token("data", 2)>>,
     <<H("ghs", 1), Token("rest", 2), R("0703"), Token("byte", 3)>>,
     <<H("ghs", 1), Token("data", 3), Token("rest", 3), R("0023")>> >>,
  \* two partitions in two files, the second with bytes that are not read
  << <<H("gho", 2), R("0603"), R("magic")>> \o Block("data", 1) \o <<R("0603")>>,
     <<H("ghs", 2), R("magic")>> \o Block("ntfs", 2)
       \o <<R("zero"), Token("rest", 0), R("0006"), R("0023")>> >>,
  <<Small(3)>>,
  \* a partition in three files, cut between its blocks
  << <<H("gho", 4), R("0603"), R("magic")>> \o Block("ntfs", 1),
     <<H("ghs", 4)>> \o Block("data", 2),
     <<H("ghs", 4)>> \o Block("data", 3) \o <<R("0023")>> >>,
  <<Small(5)>>,
  \* without an end: a file cut between its blocks still decodes
  << <<H("gho", 6), R("0603"), R("magic")>> \o Block("ntfs", 1) \o Block("data", 2)>> >>

\* The files of the folder, with given spans of the first and the fourth image.
GhostFiles(a, w) ==
  (A :> Ghost[1][1]) @@ (ACapital :> Ghost[5][1]) @@ (A1 :> a[1]) @@ (A2 :> a[2])
    @@ (A2Wide :> Ghost[1][3]) @@ (ACns :> Ghost[1][2]) @@ (B :> Ghost[2][1])
    @@ (W :> Ghost[3][1]) @@ (W0 :> Ghost[4][1]) @@ (W01 :> w[1]) @@ (W02 :> w[2])

\* The right spans; one of another image; spans under each other's number, and one
\* under two.
Spanned ==
  LET a == Tail(Ghost[1]) w == Tail(Ghost[4])
  IN  {GhostFiles(a, w), GhostFiles(<<Ghost[2][2], a[2]>>, w),
       GhostFiles(<<a[2], a[1]>>, <<w[1], w[1]>>), GhostFiles(<<a[1], a[1]>>, <<w[2], w[1]>>)}

GhostFolders ==
  UNION {{[n \in names |-> files[n]] : names \in SUBSET DOMAIN files} : files \in Spanned}

Small1 == Named(<<"s">>, Gho)
UbuntuIso == Named(<<"u">>, Iso)
WindowsWim == Named(<<"i">>, Wim)

Ubuntu ==
  <<Token("volume", 4), Token("info", Release), Token("vmlinuz", 1), Token("initrd", 1)>>

Folders ==
  { (Small1 :> Ghost[6][1]),
    (UbuntuIso :> Ubuntu) @@ (WindowsWim :> <<Token("wim", 1), Token("data", 1)>>) }

MCRequested == {<<0, -1>>, <<1, 2>>, <<3, 9>>, <<-1, 2>>, <<-1, 9>>, <<-1, 0>>, <<4, -1>>}

MCInit ==
  /\ LibraryInit
  /\ \/ folder \in GhostFolders /\ budget = [calls |-> 1, faults |-> 0]
     \/ folder \in Folders /\ budget = [calls |-> MaxCalls, faults |-> MaxFaults]

MCSpec == MCInit /\ [][LibraryNext]_libraryVars

MCSymmetry == Permutations(Caller) \cup Permutations(Dir)
==============================================================================

---------------------------- MODULE MCBootMedia -----------------------------
(***************************************************************************)
(* Small instances of BootMedia: media whose images start programs in each *)
(* of the ways a PE does, and what an earlier version may have left.       *)
(***************************************************************************)
EXTENDS BootMedia

Wim(place, image) == [place |-> place, image |-> image, bootable |-> TRUE,
                      referenced |-> FALSE, generation |-> 0]
Bootmgr == [name |-> "bootmgr", generation |-> 0, real |-> TRUE]
Sdi == [named |-> TRUE, referenced |-> FALSE]
Medium(image) == [private |-> FALSE, edgeless |-> FALSE, wims |-> {Wim("sources/boot.wim", image)},
                  managers |-> {Bootmgr}, sdis |-> {Sdi}]

Plain == VendorImage("vendor", "none", "winpeshl", "system32")
Apps  == VendorImage("vendor", "apps", "winpeshl", "system32")
App   == VendorImage("none", "app", "winpeshl", "system32 boot")
Shell == VendorImage("none", "none", "vendor", "system32 boot")
NoHive == VendorImage("vendor", "none", "nohive", "system32")
Odd   == VendorImage("vendor", "unknown", "winpeshl", "system32")
Silent == VendorImage("none", "none", "winpeshl", "system32")
Bare  == VendorImage("vendor", "none", "winpeshl", "none")

\* A USM medium: its own manager, beside a WIM of another name.
UsmMedium ==
  [Medium(App) EXCEPT
     !.wims = {[Wim("boot", App) EXCEPT !.generation = 8],
               [Wim("elsewhere", Odd) EXCEPT !.bootable = FALSE]},
     !.managers = {[name |-> "usm", generation |-> 8, real |-> TRUE],
                   [name |-> "grldr", generation |-> 0, real |-> TRUE]},
     !.sdis = {[named |-> FALSE, referenced |-> TRUE], [named |-> FALSE, referenced |-> FALSE]}]

EveryMedium == {Medium(Plain), Medium(Apps), UsmMedium, Medium(Odd),
                [Medium(Shell) EXCEPT !.edgeless = TRUE], Medium(NoHive), Medium(Bare),
                Medium(Silent), [UsmMedium EXCEPT !.edgeless = TRUE]}

\* What version 0 of the program made.
Legacy(image) ==
  [package |-> [Absent EXCEPT !.there = TRUE, !.layout = "legacy", !.files = TRUE,
                  !.bcd = [policy |-> "standard", loader |-> image.loader],
                  !.script = ManagedScript("standard"), !.wim = image],
   vendor |-> image]
Fresh == [package |-> Absent, vendor |-> NoWim]
EveryRoot == {Fresh, Legacy(Plain), Legacy(Shell), Legacy(Bare),
              [Legacy(Plain) EXCEPT !.package.layout = "native", !.package.script = Placeholder],
              [Legacy(Plain) EXCEPT !.package.layout = "v5"],
              [Legacy(Plain) EXCEPT !.package.script.kind = "foreign", !.package.layout = "none"]}

\* One command at a time on everything; with a fault, or overlapping another,
\* on a plain image; a longer life of one whose shell was hooked.
Scenario(first, offered, calls, overlaps, crashes, faults) ==
  [package |-> first.package, vendor |-> first.vendor, media |-> offered,
   calls |-> calls, overlaps |-> overlaps, crashes |-> crashes, faults |-> faults]
MCScenarios ==
  {Scenario(first, EveryMedium, 4, 0, 1, 0) : first \in EveryRoot}
  \cup {Scenario(first, {Medium(Plain)}, 3, 0, 1, 1) : first \in EveryRoot}
  \cup {Scenario(first, {Medium(Plain)}, 3, 1, 1, 0) : first \in {Fresh, Legacy(Plain)}}
  \cup {Scenario(Fresh, {Medium(Plain)}, 4, 1, 1, 0), Scenario(Fresh, {Medium(App)}, 5, 0, 2, 0)}
=============================================================================

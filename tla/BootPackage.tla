---------------------------- MODULE BootPackage -----------------------------
(***************************************************************************)
(* The directory the PXE service serves: what is taken from a PE medium    *)
(* into it, when it counts as a managed package, and which iPXE script is  *)
(* the one a machine without a Linux assignment boots.                     *)
(*                                                                         *)
(* A medium is what import_media_with_agent extracts: its WIM images, boot *)
(* managers and SDI files with what the selection looks at. A package is   *)
(* the directory: its layout marker, flavour markers, boot.wim, boot       *)
(* configuration (BCD), iPXE scripts, runtime digests and bootstrap file.  *)
(***************************************************************************)
EXTENDS WinpeImage, FiniteSets

\* No boot.wim: no image has this CmdLine.
NoWim == [VendorImage("none", "none", "none", "none") EXCEPT !.cmdline = "no image"]

Flavours == {"standard", "usm", "edgeless"}

\* The boot configuration: the loader it starts, and whether it lifts the
\* integrity checks as a USM manager needs.
NoBcd == [policy |-> "none", loader |-> "none"]
Bcds == [policy : {"standard", "usm", "none"}, loader : Loaders]
Layouts  == {"none", "legacy", "v5", "managed", "oldNative", "native"}

\* boot.ipxe, or the script kept for machines without a Linux assignment.
Scripts(Sessions) ==
  [kind : {"none", "managed", "foreign", "placeholder", "sanboot", "dispatcher"},
   flavour : Flavours, session : Sessions]
NoScript == [kind |-> "none", flavour |-> "standard", session |-> 0]
ManagedScript(flavour) == [NoScript EXCEPT !.kind = "managed", !.flavour = flavour]
Dispatcher(session) == [NoScript EXCEPT !.kind = "dispatcher", !.session = session]
Placeholder == [NoScript EXCEPT !.kind = "placeholder"]
Sanboot == [NoScript EXCEPT !.kind = "sanboot"]

Absent ==
  [there |-> FALSE, layout |-> "none", flavour |-> "standard", wim |-> NoWim,
   files |-> FALSE, bcd |-> NoBcd, mark |-> 0, script |-> NoScript,
   fallback |-> NoScript, dynamic |-> FALSE, json |-> 0, iso |-> 0]

Packages(Versions, Sessions) ==
  [there : BOOLEAN, layout : Layouts, flavour : Flavours,
   wim : WinpeImages(Versions, Sessions) \cup {NoWim}, files : BOOLEAN,
   bcd : Bcds, mark : Versions, script : Scripts(Sessions),
   fallback : Scripts(Sessions), dynamic : BOOLEAN, json : Sessions, iso : Sessions]

-----------------------------------------------------------------------------
(* What is taken from a medium. Selections are sets with at most one       *)
(* member; an empty one is an import that fails.                           *)

Only(S) == IF Cardinality(S) = 1 THEN S ELSE {}
FirstOf(S, T) == IF S # {} THEN S ELSE T

\* sources/boot.wim, boot/boot.wim, the one a UEFI BCD names, the only one
\* with a boot image, the only one.
BootWim(medium) ==
  LET At(place) == {w \in medium.wims : w.place = place}
  IN FirstOf(At("sources/boot.wim"),
     FirstOf(At("boot/boot.wim"),
     FirstOf(Only({w \in medium.wims : w.referenced}),
     FirstOf(Only({w \in medium.wims : w.bootable}),
             Only(medium.wims)))))

\* find_usm_bootmgr_for_wim: boot/USMxMGR beside boot/USM..PEx.wim, when it
\* really is a Windows boot manager.
UsmManager(medium, wim) ==
  {m \in medium.managers : /\ wim.place = "boot" /\ wim.generation \in {6, 8}
                           /\ m.name = "usm" /\ m.generation = wim.generation /\ m.real}

BootManager(medium, wim) ==
  FirstOf(IF \E m \in medium.managers : m.name = "bootmgr" THEN {"standard"} ELSE {},
          IF UsmManager(medium, wim) # {} THEN {"usm"} ELSE {})

\* boot.sdi, the SDI file a UEFI BCD names, the only one.
BootSdi(medium) ==
  FirstOf({s \in medium.sdis : s.named},
  FirstOf(Only({s \in medium.sdis : s.referenced}), Only(medium.sdis)))

\* detect_winpe_loader_path looks into the image the WIM boots.
HasLoader(wim) == wim.bootable /\ wim.image.loader # "none"

\* The flavour of a medium; an Edgeless payload goes before the boot manager.
FlavourOf(medium, policy) == IF medium.edgeless THEN "edgeless" ELSE policy

\* build_winpe_package_with_native_iso, without native boot images, up to the
\* package being put in place: everything happens in a staging directory.
Selected(medium) ==
  {w \in BootWim(medium) : ~medium.private /\ BootSdi(medium) # {} /\ HasLoader(w)}

PackageOf(medium, policy, image, version) ==
  [Absent EXCEPT !.there = TRUE, !.layout = "managed", !.flavour = FlavourOf(medium, policy),
                 !.wim = image, !.files = TRUE, !.mark = version,
                 !.bcd = [policy |-> policy, loader |-> image.loader],
                 !.script = ManagedScript(FlavourOf(medium, policy))]

BuildPackage(host, medium, wim, version) ==
  {PackageOf(medium, policy, image, version) :
     policy \in BootManager(medium, wim), image \in InjectAgent(host, wim.image, version)}

-----------------------------------------------------------------------------
(* When a package is managed. *)

HasControlDispatcher(p) ==
  p.dynamic /\ p.fallback.kind # "none" /\ p.script.kind = "dispatcher"

\* The same question as configure_control_dispatcher asks it.
DispatcherActive(p) == p.dynamic /\ p.script.kind = "dispatcher"

\* The script the loaders are refreshed for.
WindowsScript(p) == IF HasControlDispatcher(p) THEN p.fallback ELSE p.script

\* The script the dispatcher falls back to.
AlwaysTheRootScript(p) == p.script
FallbackScript(p) == IF DispatcherActive(p) THEN p.fallback ELSE p.script

IsManaged(p) == WindowsScript(p).kind = "managed" /\ p.files /\ p.wim # NoWim

\* The boot configuration and the script a refresh writes, by the markers.
BcdByMarker(p) ==
  [policy |-> IF p.flavour = "usm" THEN "usm" ELSE "standard", loader |-> p.wim.loader]
ScriptByMarker(p) == ManagedScript(p.flavour)
=============================================================================

--------------------------- MODULE BootMediaProofs ----------------------------
(***************************************************************************)
(* Theorems about BootMedia, for any package ScenariosAssumption lets an   *)
(* earlier version leave, any media, and any number of versions, sessions, *)
(* calls, overlaps, restarts and faults.                                   *)
(*                                                                         *)
(* The argument.  DigestsInv: digests name no version the image has not    *)
(* got, so a step that trusts them finds the current Agent.  OriginsInv:   *)
(* on Windows an image is its vendor's, or the vendor's with the hooks     *)
(* that any number of injections leaves (Hooked); what those start is      *)
(* computed once, in HookedBoots.  PackageInv: as long as a package is     *)
(* whole, its dispatcher has the script it falls back to, an image that is *)
(* away is held by a command that will put it back, and what a command     *)
(* took from a package of a medium still fits it; most steps are Plain and *)
(* share one proof, each of the others has a lemma of its own.  ServeInv:  *)
(* a synchronisation no command overlaps has the package to itself, and    *)
(* Phase says how far it has come.                                         *)
(***************************************************************************)
EXTENDS BootMedia, TLAPS

Images == WinpeImages(Versions, Sessions)
AllPackages == Packages(Versions, Sessions)
AllScripts == Scripts(Sessions)
Origins == VendorImages \cup {NoWim}

LEMMA CommandFields ==
  ASSUME NEW c \in Commands
  PROVE  /\ \A v \in Steps : [c EXCEPT !.at = v] \in Commands
         /\ \A v \in BOOLEAN : [c EXCEPT !.here = v] \in Commands
         /\ \A v \in Steps, w \in BOOLEAN : [c EXCEPT !.at = v, !.old = w] \in Commands
         /\ \A v \in Steps, n \in Sessions : [c EXCEPT !.at = v, !.session = n] \in Commands
         /\ \A v \in Steps, i \in Images \cup {NoWim}, b \in BOOLEAN :
              [c EXCEPT !.at = v, !.image = i, !.here = b] \in Commands
         /\ \A v \in Steps, a \in BOOLEAN, b \in Bcds, h \in BOOLEAN :
              [c EXCEPT !.at = v, !.active = a, !.bcd = b, !.here = h] \in Commands
         /\ \A v \in Steps, x \in AllScripts, b \in BOOLEAN :
              [c EXCEPT !.at = v, !.script = x, !.ready = b] \in Commands
         /\ \A v \in Steps, x \in AllPackages, b \in BOOLEAN, i \in Origins :
              [c EXCEPT !.at = v, !.package = x, !.media = b, !.vendor = i] \in Commands
BY DEF Commands, Images, AllPackages, AllScripts, Origins

LEMMA GotoKeepsType ==
  ASSUME op \in [Groups -> Commands], NEW g \in Groups, NEW step \in Steps, Goto(g, step)
  PROVE  op' \in [Groups -> Commands]
BY DEF Goto, Commands

LEMMA NoOpType == NoOp \in Commands
<1>1. /\ "idle" \in Steps /\ 0 \in Sessions /\ 0 \in Versions
  BY BootMediaAssumption DEF Steps, Sessions, Versions
<1>2. NoScript \in Scripts(Sessions)
  BY <1>1 DEF NoScript, Scripts, Flavours
<1>3. NoBcd \in Bcds
  BY DEF NoBcd, Bcds, Loaders
<1>4. Absent \in Packages(Versions, Sessions)
  BY <1>1, <1>2, <1>3 DEF Absent, Packages, Layouts, Flavours
<1>5. QED
  BY <1>1, <1>2, <1>3, <1>4 DEF NoOp, Commands

LEMMA RootFields ==
  ASSUME NEW p \in AllPackages
  PROVE  /\ \A v \in BOOLEAN : /\ [p EXCEPT !.there = v] \in AllPackages
                               /\ [p EXCEPT !.dynamic = v] \in AllPackages
         /\ \A v \in Layouts : [p EXCEPT !.layout = v] \in AllPackages
         /\ \A v \in Images \cup {NoWim} : [p EXCEPT !.wim = v] \in AllPackages
         /\ \A v \in Bcds : [p EXCEPT !.bcd = v] \in AllPackages
         /\ \A v \in Versions : [p EXCEPT !.mark = v] \in AllPackages
         /\ \A v \in AllScripts : /\ [p EXCEPT !.script = v] \in AllPackages
                                  /\ [p EXCEPT !.fallback = v] \in AllPackages
         /\ \A v \in Sessions : /\ [p EXCEPT !.json = v] \in AllPackages
                                /\ [p EXCEPT !.iso = v] \in AllPackages
BY DEF AllPackages, AllScripts, Images, Packages

TypesInv ==
  /\ host \in Hosts /\ version \in Versions \ {0}
  /\ root \in AllPackages /\ copy \in AllPackages
  /\ control \in [state : {"stopped", "running", "dead"}, session : Sessions]
  /\ pxe \in BOOLEAN /\ disturbed \in BOOLEAN /\ owned \in BOOLEAN
  /\ lost \in [root : SUBSET Losses, copy : SUBSET Losses]
  /\ op \in [Groups -> Commands]
  /\ vendor \in [root : Origins, copy : Origins]
  /\ \A m \in media : \A w \in m.wims : w.image \in VendorImages
  /\ budget \in [calls : Nat, overlaps : Nat, crashes : Nat, faults : Nat, sessions : Sessions]

LEMMA FinishKeepsType ==
  ASSUME op \in [Groups -> Commands], disturbed \in BOOLEAN, NEW g \in Groups,
         Finish(g) \/ Fail(g)
  PROVE  op' \in [Groups -> Commands] /\ disturbed' \in BOOLEAN
BY NoOpType DEF Finish, Fail

LEMMA BudgetKeepsType ==
  ASSUME TypesInv, Call \/ Fault
  PROVE  budget' \in [calls : Nat, overlaps : Nat, crashes : Nat, faults : Nat,
                      sessions : Sessions]
BY DEF TypesInv, Call, Fault

LEMMA BeginKeepsType ==
  ASSUME TypesInv, NEW g \in Groups, NEW new \in Commands, Begin(g, new)
  PROVE  /\ op' \in [Groups -> Commands] /\ disturbed' \in BOOLEAN
         /\ budget' \in [calls : Nat, overlaps : Nat, crashes : Nat, faults : Nat,
                          sessions : Sessions]
<1>1. \A c \in Commands : \A b \in BOOLEAN : [c EXCEPT !.alone = b] \in Commands
  BY DEF Commands
<1>2. op' \in [Groups -> Commands]
  BY <1>1 DEF TypesInv, Begin, Idle
<1>3. budget' \in [calls : Nat, overlaps : Nat, crashes : Nat, faults : Nat,
                    sessions : Sessions]
  <2>0. budget.calls \in Nat \ {0} /\ budget.overlaps \in Nat
    BY DEF TypesInv, Begin
  <2>3. /\ budget.calls - 1 \in Nat
        /\ \A n \in Nat, m \in Nat :
             [budget EXCEPT !.calls = n, !.overlaps = m]
               \in [calls : Nat, overlaps : Nat, crashes : Nat, faults : Nat,
                   sessions : Sessions]
    <3>1. budget.calls - 1 \in Nat
      BY <2>0
    <3>2. QED
      BY <3>1 DEF TypesInv
  <2>1. CASE Idle
    <3>1. budget' = [budget EXCEPT !.calls = @ - 1, !.overlaps = @]
      BY <2>1 DEF Begin
    <3>2. QED
      BY <2>0, <2>3, <3>1
  <2>2. CASE ~Idle
    <3>1. budget' = [budget EXCEPT !.calls = @ - 1, !.overlaps = @ - 1] /\ budget.overlaps > 0
      BY <2>2 DEF Begin
    <3>2. budget.overlaps - 1 \in Nat
      BY <2>0, <3>1
    <3>3. QED
      BY <2>0, <2>3, <3>1, <3>2
  <2>4. QED
    BY <2>1, <2>2
<1>4. disturbed' \in BOOLEAN
  BY DEF TypesInv, Begin, Idle
<1>5. QED
  BY <1>2, <1>3, <1>4

LEMMA InitialTypes == Init => TypesInv
<1>1. 1 \in Versions \ {0} /\ 0 \in Sessions /\ MaxSessions \in Sessions
  BY BootMediaAssumption DEF Versions, Sessions
<1>2. Absent \in AllPackages
  BY <1>1, BootMediaAssumption DEF Absent, AllPackages, Packages, NoScript, Scripts, Flavours, NoBcd, Bcds, Loaders, Layouts, Versions
<1> SUFFICES ASSUME Init PROVE TypesInv
  OBVIOUS
<1>3. PICK s \in Scenarios :
        /\ root = s.package /\ vendor = [root |-> s.vendor, copy |-> NoWim]
        /\ media = s.media
        /\ budget = [calls |-> s.calls, overlaps |-> s.overlaps, crashes |-> s.crashes,
                     faults |-> s.faults, sessions |-> MaxSessions]
  BY DEF Init
<1>4. /\ root \in AllPackages /\ s.vendor \in Origins
      /\ \A m \in media : \A w \in m.wims : w.image \in VendorImages
      /\ s.calls \in Nat /\ s.overlaps \in Nat /\ s.crashes \in Nat /\ s.faults \in Nat
  BY <1>3, ScenariosAssumption DEF AllPackages, Origins
<1>5. op \in [Groups -> Commands]
  BY NoOpType DEF Init
<1>6. /\ control \in [state : {"stopped", "running", "dead"}, session : Sessions]
      /\ lost \in [root : SUBSET Losses, copy : SUBSET Losses]
      /\ host \in Hosts /\ version \in Versions \ {0} /\ copy \in AllPackages
      /\ pxe \in BOOLEAN /\ disturbed \in BOOLEAN /\ owned \in BOOLEAN
  BY <1>1, <1>2 DEF Init, Losses
<1>7. /\ vendor \in [root : Origins, copy : Origins]
      /\ budget \in [calls : Nat, overlaps : Nat, crashes : Nat, faults : Nat,
                     sessions : Sessions]
  BY <1>1, <1>3, <1>4 DEF Origins
<1>8. QED
  BY <1>4, <1>5, <1>6, <1>7 DEF TypesInv

LEMMA ControlTypes ==
  ASSUME TypesInv,
         \/ StartControl \/ StopControl \/ ForgetBootstrap \/ ServerDies
         \/ \E g \in Groups : OpenSession(g)
  PROVE  TypesInv'
<1>0. "control" \in Groups /\ 0 \in Sessions
  BY BootMediaAssumption DEF Groups, Sessions
<1>1. CASE StartControl
  <2>1. [NoOp EXCEPT !.at = "open"] \in Commands
    BY NoOpType DEF Commands, Steps
  <2>2. QED
    BY <1>0, <1>1, <2>1, BeginKeepsType DEF StartControl, TypesInv
<1>2. CASE StopControl
  <2>1. \A s \in {"forget", "idle"} : [NoOp EXCEPT !.at = s] \in Commands
    BY NoOpType DEF Commands, Steps
  <2>2. QED
    BY <1>0, <1>2, <2>1, BeginKeepsType DEF StopControl, TypesInv
<1>3. CASE ForgetBootstrap
  BY <1>0, <1>3, NoOpType, RootFields DEF ForgetBootstrap, TypesInv, history
<1>4. CASE ServerDies
  BY <1>4, BudgetKeepsType DEF ServerDies, TypesInv, history
<1>5. ASSUME NEW g \in Groups, OpenSession(g) PROVE TypesInv'
  <2>1. CASE control.state = "running"
    BY <1>5, <2>1, FinishKeepsType DEF OpenSession, TypesInv
  <2>2. CASE Fault /\ Finish(g) /\ control' = [state |-> "stopped", session |-> 0]
    BY <1>0, <1>5, <2>2, FinishKeepsType, BudgetKeepsType DEF OpenSession, TypesInv
  <2>3. CASE ~(control.state = "running") /\ ~(Fault /\ Finish(g) /\ control' = [state |-> "stopped", session |-> 0])
    <3> DEFINE session == MaxSessions + 1 - budget.sessions
    <3>1. /\ budget.sessions > 0 /\ control' = [state |-> "running", session |-> session]
          /\ budget' = [budget EXCEPT !.sessions = @ - 1] /\ UNCHANGED disturbed
          /\ op' = [op EXCEPT ![g].at = "json", ![g].session = session]
      BY <1>5, <2>3 DEF OpenSession
    <3>2. session \in Sessions /\ budget.sessions - 1 \in Sessions
      BY <3>1, BootMediaAssumption DEF TypesInv, Sessions
    <3> HIDE DEF session
    <3>3. op' \in [Groups -> Commands]
      <4>1. [op[g] EXCEPT !.at = "json", !.session = session] \in Commands
        BY <1>5, <3>2, CommandFields DEF TypesInv, Steps
      <4>2. op' = [op EXCEPT ![g] = [op[g] EXCEPT !.at = "json", !.session = session]]
        BY <3>1, <4>1 DEF TypesInv
      <4>3. QED
        BY <4>1, <4>2 DEF TypesInv
    <3>4. QED
      BY <1>5, <3>1, <3>2, <3>3 DEF OpenSession, TypesInv
  <2>4. QED
    BY <2>1, <2>2, <2>3
<1>6. QED
  BY <1>1, <1>2, <1>3, <1>4, <1>5

LEMMA InjectedImages ==
  ASSUME NEW i \in Images, NEW n \in Versions, NEW j \in InjectAgent(host, i, n)
  PROVE  /\ j \in Images /\ j # NoWim
         /\ j.agent = n /\ j.session = i.session /\ j.loader = i.loader
<1>1. ASSUME NEW k \in HookWinpeshl(i)
      PROVE  k \in Images /\ k.session = i.session /\ k.loader = i.loader
  <2>1. PICK s \in Shells : k = [i EXCEPT !.ini.hooked = TRUE, !.hook = TRUE, !.shell = s]
    BY <1>1 DEF HookWinpeshl, Images, WinpeImages, Shells
  <2>2. QED
    BY <2>1 DEF Images, WinpeImages
<1>2. ASSUME NEW k \in HookCmdLine(host, i)
      PROVE  k \in Images /\ k.session = i.session /\ k.loader = i.loader
  <2>1. CASE i.cmdline \in {"nohive", "none"}
    BY <1>2, <2>1 DEF HookCmdLine
  <2>2. CASE i.cmdline = "agent"
    BY <1>2, <2>2 DEF HookCmdLine, Images, WinpeImages
  <2>3. CASE i.cmdline \in {"winpeshl", "vendor"}
    <3>1. k = [i EXCEPT !.hook = TRUE, !.cmdline = "agent", !.shell = i.cmdline]
      BY <1>2, <2>3 DEF HookCmdLine
    <3>2. i.cmdline \in Shells /\ "agent" \in CmdLines
      BY <2>3 DEF Shells, CmdLines
    <3>3. QED
      BY <3>1, <3>2 DEF Images, WinpeImages
  <2>4. i.cmdline \in {"nohive", "none", "agent", "winpeshl", "vendor"}
    BY DEF Images, WinpeImages, CmdLines
  <2>5. QED
    BY <2>1, <2>2, <2>3, <2>4
<1>3. PICK k \in HookShell(host, i) : j = KeepStartnet(host, [k EXCEPT !.agent = n])
  BY DEF InjectAgent
<1>4. k \in Images /\ k.session = i.session /\ k.loader = i.loader
  BY <1>1, <1>2, <1>3 DEF HookShell
<1>5. [k EXCEPT !.agent = n] \in Images
  BY <1>4 DEF Images, WinpeImages
<1>6. j \in Images /\ j.agent = n /\ j.session = i.session /\ j.loader = i.loader
  BY <1>3, <1>4, <1>5 DEF KeepStartnet, Images, WinpeImages, Startnets
<1>7. QED
  BY <1>6 DEF NoWim, VendorImage, Images, WinpeImages, CmdLines

LEMMA VendorImagesAreImages == VendorImages \subseteq Images
<1> SUFFICES ASSUME NEW i \in VendorImages PROVE i \in Images
  OBVIOUS
<1>1. 0 \in Versions /\ 0 \in Sessions
  BY BootMediaAssumption DEF Versions, Sessions
<1>2. i \in [startnet : {"none", "vendor"}, kept : {"none"},
             ini : [section : Sections, hooked : {FALSE}], cmdline : CmdLines \ {"agent"},
             shell : {"none"}, loader : Loaders, hook : {FALSE}, agent : {0}, session : {0}]
  BY DEF VendorImages
<1>3. QED
  BY <1>1, <1>2 DEF Images, WinpeImages, Startnets, Shells

LEMMA NoWimIsNoImage == NoWim \notin Images
BY DEF NoWim, VendorImage, Images, WinpeImages, CmdLines

LEMMA RefreshKeepsTypes ==
  ASSUME TypesInv, NEW step \in Steps, NEW next \in Steps, NEW new \in AllPackages,
         NEW gone \in SUBSET Losses, Refresh(step, next, new, gone)
  PROVE  TypesInv'
<1>1. "pxe" \in Groups
  BY DEF Groups
<1>2. CASE Finish("pxe") /\ UNCHANGED <<root, lost>>
  BY <1>1, <1>2, FinishKeepsType DEF Refresh, TypesInv
<1>3. CASE root' = new /\ lost' = [lost EXCEPT !.root = gone]
           /\ Goto("pxe", next) /\ UNCHANGED disturbed
  BY <1>1, <1>3, GotoKeepsType DEF Refresh, TypesInv
<1>4. QED
  BY <1>2, <1>3 DEF Refresh

LEMMA PxeTypes ==
  ASSUME TypesInv,
         \/ StartPxe \/ EnsureNetworkBoot \/ SetBcdAside \/ PutBcd \/ WriteLoaders
         \/ MarkManaged \/ AskControl \/ Listen \/ StopPxe
  PROVE  TypesInv'
<1>0. "pxe" \in Groups /\ 0 \in Sessions /\ op["pxe"] \in Commands /\ root \in AllPackages
  BY BootMediaAssumption DEF Groups, Sessions, TypesInv
<1>a. /\ NoBcd \in Bcds /\ BcdByMarker(root) \in Bcds
      /\ ScriptByMarker(root) \in AllScripts
      /\ Placeholder \in AllScripts /\ Sanboot \in AllScripts
  <2>1. root.wim.loader \in Loaders
    BY <1>0 DEF AllPackages, Packages, WinpeImages, NoWim, VendorImage, Loaders
  <2>2. root.flavour \in Flavours
    BY <1>0 DEF AllPackages, Packages
  <2>3. NoBcd \in Bcds /\ BcdByMarker(root) \in Bcds
    BY <2>1 DEF NoBcd, Bcds, Loaders, BcdByMarker
  <2>4. QED
    BY <1>0, <2>2, <2>3
    DEF ScriptByMarker, ManagedScript, NoScript, AllScripts, Scripts, Placeholder, Sanboot,
        Flavours
<1>1. CASE StartPxe
  <2>1. [NoOp EXCEPT !.at = "ensure"] \in Commands
    BY NoOpType DEF Commands, Steps
  <2>2. QED
    BY <1>0, <1>1, <2>1, BeginKeepsType DEF StartPxe, TypesInv
<1>2. CASE EnsureNetworkBoot
  <2>1. CASE Finish("pxe") /\ UNCHANGED <<root, budget>>
    BY <1>0, <1>2, <2>1, FinishKeepsType DEF EnsureNetworkBoot, TypesInv
  <2>2. CASE root' = [root EXCEPT !.script = Placeholder] /\ Goto("pxe", "ask")
             /\ UNCHANGED <<budget, disturbed>>
    BY <1>0, <1>a, <1>2, <2>2, GotoKeepsType, RootFields DEF EnsureNetworkBoot, TypesInv, Steps
  <2>3. CASE Goto("pxe", "ask") /\ UNCHANGED <<root, budget, disturbed>>
    BY <1>0, <1>2, <2>3, GotoKeepsType DEF EnsureNetworkBoot, TypesInv, Steps
  <2>4. CASE /\ op' = [op EXCEPT !["pxe"].at = "aside",
                                 !["pxe"].active = HasControlDispatcher(root),
                                 !["pxe"].bcd = BcdByMarker(root), !["pxe"].here = TRUE]
             /\ UNCHANGED <<root, budget, disturbed>>
    <3>1. HasControlDispatcher(root) \in BOOLEAN
      BY <1>0 DEF HasControlDispatcher, AllPackages, Packages
    <3>2. [op["pxe"] EXCEPT !.at = "aside", !.active = HasControlDispatcher(root),
                            !.bcd = BcdByMarker(root), !.here = TRUE] \in Commands
      BY <1>0, <1>a, <3>1, CommandFields DEF Steps
    <3>3. op' = [op EXCEPT !["pxe"] =
                   [op["pxe"] EXCEPT !.at = "aside", !.active = HasControlDispatcher(root),
                                     !.bcd = BcdByMarker(root), !.here = TRUE]]
      BY <1>0, <2>4 DEF TypesInv
    <3>4. QED
      BY <1>0, <1>2, <2>4, <3>2, <3>3 DEF EnsureNetworkBoot, TypesInv
  <2>5. CASE Fault /\ Finish("pxe") /\ UNCHANGED root
    BY <1>0, <1>2, <2>5, FinishKeepsType, BudgetKeepsType DEF EnsureNetworkBoot, TypesInv
  <2>6. QED
    BY <1>2, <2>1, <2>2, <2>3, <2>4, <2>5 DEF EnsureNetworkBoot
<1>3. CASE SetBcdAside
  <2>1. [root EXCEPT !.bcd = NoBcd] \in AllPackages
    BY <1>0, <1>a, RootFields
  <2>2. lost.root \cup {"bcd"} \in SUBSET Losses
    BY DEF TypesInv, Losses
  <2>3. "aside" \in Steps /\ "bcd" \in Steps
    BY DEF Steps
  <2>4. QED
    BY <1>3, <2>1, <2>2, <2>3, RefreshKeepsTypes DEF SetBcdAside
<1>4. CASE PutBcd
  <2>1. op["pxe"].bcd \in Bcds
    BY <1>0 DEF Commands
  <2>2. [root EXCEPT !.bcd = op["pxe"].bcd] \in AllPackages
    BY <1>0, <2>1, RootFields
  <2>3. lost.root \ {"bcd"} \in SUBSET Losses
    BY DEF TypesInv, Losses
  <2>4. "loaders" \in Steps /\ "bcd" \in Steps
    BY DEF Steps
  <2>5. QED
    BY <1>4, <2>2, <2>3, <2>4, RefreshKeepsTypes DEF PutBcd
<1>5. CASE WriteLoaders
  <2> DEFINE new == IF op["pxe"].active THEN [root EXCEPT !.fallback = ScriptByMarker(root)]
                                        ELSE [root EXCEPT !.script = ScriptByMarker(root)]
  <2>1. Refresh("loaders", "marker", new, lost.root)
    BY <1>5 DEF WriteLoaders
  <2>2. new \in AllPackages
    BY <1>0, <1>a, RootFields
  <2>3. lost.root \in SUBSET Losses /\ "loaders" \in Steps /\ "marker" \in Steps
    BY DEF TypesInv, Steps
  <2> HIDE DEF new
  <2>4. QED
    BY <2>1, <2>2, <2>3, RefreshKeepsTypes
<1>6. CASE MarkManaged
  <2>1. [root EXCEPT !.layout = "managed"] \in AllPackages
    BY <1>0, RootFields DEF Layouts
  <2>2. lost.root \in SUBSET Losses /\ "marker" \in Steps /\ "ask" \in Steps
    BY DEF TypesInv, Steps
  <2>3. QED
    BY <1>6, <2>1, <2>2, RefreshKeepsTypes DEF MarkManaged
<1>7. CASE AskControl
  <2>1. CASE op' = [op EXCEPT !["pxe"].at = "json", !["pxe"].session = control.session]
    <3>1. [op["pxe"] EXCEPT !.at = "json", !.session = control.session] \in Commands
      BY <1>0, CommandFields DEF Steps, TypesInv
    <3>2. op' = [op EXCEPT !["pxe"] =
                   [op["pxe"] EXCEPT !.at = "json", !.session = control.session]]
      BY <1>0, <2>1 DEF TypesInv
    <3>3. QED
      BY <1>0, <1>7, <3>1, <3>2 DEF AskControl, TypesInv, history
  <2>2. CASE op' = [op EXCEPT !["pxe"].at = "open"]
    BY <1>0, <1>7, <2>2, GotoKeepsType DEF AskControl, Goto, TypesInv, history, Steps
  <2>3. QED
    BY <1>7, <2>1, <2>2 DEF AskControl
<1>8. CASE Listen
  <2>1. CASE (Fail("pxe") \/ Finish("pxe")) /\ UNCHANGED <<root, pxe, budget>>
    BY <1>0, <1>8, <2>1, FinishKeepsType DEF Listen, TypesInv
  <2>2. CASE Fault /\ Finish("pxe") /\ UNCHANGED <<root, pxe>>
    BY <1>0, <1>8, <2>2, FinishKeepsType, BudgetKeepsType DEF Listen, TypesInv
  <2>3. CASE /\ root' = [root EXCEPT !.script = IF root.layout = "native" THEN Sanboot ELSE @]
             /\ pxe' = TRUE /\ Finish("pxe") /\ UNCHANGED budget
    <3>1. root' \in AllPackages
      <4>1. CASE root.layout = "native"
        BY <1>0, <1>a, <2>3, <4>1, RootFields
      <4>2. CASE root.layout # "native"
        <5>1. root.script \in AllScripts
          BY <1>0 DEF AllPackages, Packages, AllScripts
        <5>2. root' = [root EXCEPT !.script = root.script]
          BY <2>3, <4>2
        <5>3. QED
          BY <1>0, <5>1, <5>2, RootFields
      <4>3. QED
        BY <4>1, <4>2
    <3>2. QED
      BY <1>0, <1>8, <2>3, <3>1, FinishKeepsType DEF Listen, TypesInv
  <2>4. QED
    BY <1>8, <2>1, <2>2, <2>3 DEF Listen
<1>9. CASE StopPxe
  BY <1>9, BudgetKeepsType DEF StopPxe, TypesInv, history
<1>10. QED
  BY <1>1, <1>2, <1>3, <1>4, <1>5, <1>6, <1>7, <1>8, <1>9

LEMMA MountKeepsTypes ==
  ASSUME TypesInv, NEW g \in Groups, NEW images \in SUBSET Images, NEW next \in Steps,
         Mount(g, images, next)
  PROVE  TypesInv'
<1>1. CASE Fail(g) /\ UNCHANGED budget
  BY <1>1, FinishKeepsType DEF Mount, TypesInv
<1>2. CASE Fault /\ Fail(g)
  BY <1>2, FinishKeepsType, BudgetKeepsType DEF Mount, TypesInv
<1>3. CASE /\ \E i \in images : op' = [op EXCEPT ![g].at = next, ![g].image = i, ![g].here = TRUE]
           /\ UNCHANGED <<budget, disturbed>>
  <2>1. PICK i \in images : op' = [op EXCEPT ![g].at = next, ![g].image = i, ![g].here = TRUE]
    BY <1>3
  <2>2. [op[g] EXCEPT !.at = next, !.image = i, !.here = TRUE] \in Commands
    BY CommandFields DEF TypesInv
  <2>3. op' = [op EXCEPT ![g] = [op[g] EXCEPT !.at = next, !.image = i, !.here = TRUE]]
    BY <2>1 DEF TypesInv
  <2>4. QED
    BY <1>3, <2>2, <2>3 DEF Mount, TypesInv
<1>4. QED
  BY <1>1, <1>2, <1>3 DEF Mount

LEMMA RootImage ==
  ASSUME TypesInv, root.wim # NoWim
  PROVE  /\ root.wim \in Images
         /\ InjectAgent(host, root.wim, version) \in SUBSET Images
         /\ \A n \in Sessions : InjectBootstrap(root.wim, n) \in Images
<1>1. root.wim \in Images /\ version \in Versions
  BY DEF TypesInv, AllPackages, Packages, Images
<1>2. InjectAgent(host, root.wim, version) \in SUBSET Images
  BY <1>1, InjectedImages
<1>3. \A n \in Sessions : InjectBootstrap(root.wim, n) \in Images
  BY <1>1 DEF InjectBootstrap, Images, WinpeImages
<1>4. QED
  BY <1>1, <1>2, <1>3

LEMMA SyncTypes ==
  ASSUME TypesInv, NEW g \in Groups,
         \/ WriteBootstrap(g)
         \/ MountForAgent(g) \/ MountForBootstrap(g) \/ PutImage(g) \/ SwapImage(g)
         \/ WriteDigests(g) \/ RefreshIso(g)
         \/ ReadScripts(g) \/ WriteFallback(g) \/ WriteDispatcher(g) \/ MarkDynamic(g)
         \/ FinishSync(g)
  PROVE  TypesInv'
<1>0. /\ op[g] \in Commands /\ root \in AllPackages /\ version \in Versions
      /\ op[g].session \in Sessions /\ op[g].image \in Images \cup {NoWim}
      /\ op[g].script \in AllScripts
      /\ root.script \in AllScripts /\ root.fallback \in AllScripts
  BY DEF TypesInv, Commands, Images, AllScripts, AllPackages, Packages
<1>a. NoScript \in AllScripts /\ Dispatcher(op[g].session) \in AllScripts
  <2>1. 0 \in Sessions
    BY BootMediaAssumption DEF Sessions
  <2>2. QED
    BY <1>0, <2>1 DEF NoScript, Dispatcher, AllScripts, Scripts, Flavours
<1>1. CASE WriteBootstrap(g)
  <2>1. [root EXCEPT !.there = TRUE, !.json = op[g].session] \in AllPackages
    BY <1>0 DEF AllPackages, Packages
  <2>2. QED
    BY <1>1, <2>1, GotoKeepsType DEF WriteBootstrap, TypesInv, history, Steps
<1>2. CASE MountForAgent(g)
  <2>1. CASE root.wim # NoWim /\ root.mark = version
    BY <1>2, <2>1, GotoKeepsType DEF MountForAgent, TypesInv, history, Steps
  <2>2. CASE ~(root.wim # NoWim /\ root.mark = version)
    <3> DEFINE images == IF root.wim = NoWim THEN {} ELSE InjectAgent(host, root.wim, version)
    <3>1. Mount(g, images, "putAgent")
      BY <1>2, <2>2 DEF MountForAgent
    <3>2. images \in SUBSET Images /\ "putAgent" \in Steps
      BY RootImage DEF Steps
    <3> HIDE DEF images
    <3>3. QED
      BY <3>1, <3>2, MountKeepsTypes
  <2>3. QED
    BY <2>1, <2>2
<1>3. CASE MountForBootstrap(g)
  <2> DEFINE images == IF root.wim = NoWim THEN {} ELSE {InjectBootstrap(root.wim, op[g].session)}
  <2>1. Mount(g, images, "putBootstrap")
    BY <1>3 DEF MountForBootstrap
  <2>2. images \in SUBSET Images /\ "putBootstrap" \in Steps
    BY <1>0, RootImage DEF Steps
  <2> HIDE DEF images
  <2>3. QED
    BY <2>1, <2>2, MountKeepsTypes
<1>4. CASE PutImage(g)
  <2>1. CASE Fail(g) /\ UNCHANGED root
    BY <1>4, <2>1, FinishKeepsType DEF PutImage, TypesInv
  <2>2. CASE ~(Fail(g) /\ UNCHANGED root)
    <3>1. PICK i \in Images \cup {NoWim}, s \in Steps :
            root' = [root EXCEPT !.wim = i] /\ Goto(g, s) /\ UNCHANGED disturbed
      BY <1>0, <1>4, <2>2 DEF PutImage, AfterBootstrap, Steps
    <3>2. QED
      BY <1>0, <1>4, <3>1, RootFields, GotoKeepsType DEF PutImage, TypesInv
  <2>3. QED
    BY <2>1, <2>2
<1>5. CASE SwapImage(g)
  <2>1. CASE Fail(g) /\ UNCHANGED root
    BY <1>5, <2>1, FinishKeepsType DEF SwapImage, TypesInv
  <2>2. CASE ~(Fail(g) /\ UNCHANGED root)
    <3>1. PICK s \in Steps :
            root' = [root EXCEPT !.wim = op[g].image] /\ Goto(g, s) /\ UNCHANGED disturbed
      BY <1>0, <1>5, <2>2 DEF SwapImage, AfterBootstrap, Steps
    <3>2. QED
      BY <1>0, <1>5, <3>1, RootFields, GotoKeepsType DEF SwapImage, TypesInv
  <2>3. QED
    BY <2>1, <2>2
<1>6. CASE WriteDigests(g)
  BY <1>0, <1>6, RootFields, GotoKeepsType, FinishKeepsType DEF WriteDigests, TypesInv, Steps
<1>7. CASE RefreshIso(g)
  <2>1. CASE root' = [root EXCEPT !.iso = op[g].session] /\ Goto(g, "script")
             /\ UNCHANGED <<budget, disturbed>>
    BY <1>0, <1>7, <2>1, RootFields, GotoKeepsType DEF RefreshIso, TypesInv, Steps
  <2>2. CASE Fail(g) /\ UNCHANGED <<root, budget>>
    BY <1>7, <2>2, FinishKeepsType DEF RefreshIso, TypesInv
  <2>3. CASE Fault /\ Fail(g) /\ UNCHANGED root
    BY <1>7, <2>3, FinishKeepsType, BudgetKeepsType DEF RefreshIso, TypesInv
  <2>4. QED
    BY <1>7, <2>1, <2>2, <2>3 DEF RefreshIso
<1>8. CASE ReadScripts(g)
  <2> DEFINE mine == root.layout # "native" /\ FallbackScript(root).kind = "managed"
             next == IF mine THEN "fallback" ELSE "finish"
             kept == IF mine THEN FallbackScript(root) ELSE NoScript
  <2>1. op' = [op EXCEPT ![g] = [op[g] EXCEPT !.at = next, !.script = kept, !.ready = mine]]
    BY <1>0, <1>8 DEF ReadScripts, TypesInv
  <2>2. next \in Steps /\ kept \in AllScripts /\ mine \in BOOLEAN
    BY <1>0, <1>a DEF Steps, FallbackScript
  <2> HIDE DEF mine, next, kept
  <2>3. op' \in [Groups -> Commands]
    BY <1>0, <2>1, <2>2, CommandFields DEF TypesInv
  <2>4. UNCHANGED <<host, media, version, root, copy, control, pxe, budget, history>>
    BY <1>8 DEF ReadScripts
  <2>5. QED
    BY <2>3, <2>4 DEF TypesInv, history
<1>9. CASE WriteFallback(g)
  <2>1. [root EXCEPT !.there = TRUE, !.fallback = op[g].script] \in AllPackages
    BY <1>0 DEF AllPackages, Packages, AllScripts
  <2>2. QED
    BY <1>9, <2>1, GotoKeepsType DEF WriteFallback, TypesInv, history, Steps
<1>10. CASE WriteDispatcher(g)
  <2>1. root' \in AllPackages
    BY <1>0, <1>a, <1>10, RootFields DEF WriteDispatcher
  <2>2. op' \in [Groups -> Commands] /\ disturbed' \in BOOLEAN
    BY <1>10, GotoKeepsType, FinishKeepsType DEF WriteDispatcher, TypesInv, Steps
  <2>3. QED
    BY <1>10, <2>1, <2>2 DEF WriteDispatcher, TypesInv
<1>11. CASE MarkDynamic(g)
  BY <1>0, <1>11, RootFields, GotoKeepsType, FinishKeepsType DEF MarkDynamic, TypesInv, Steps
<1>12. CASE FinishSync(g)
  <2>1. CASE Fail(g)
    BY <1>12, <2>1, FinishKeepsType DEF FinishSync, TypesInv
  <2>2. CASE /\ IF g = "pxe" THEN Goto(g, "listen") ELSE op' = [op EXCEPT ![g] = NoOp]
             /\ disturbed' = (disturbed /\ ~PutsRight(g))
    <3>1. op' \in [Groups -> Commands]
      BY <2>2, GotoKeepsType, NoOpType DEF TypesInv, Steps
    <3>2. QED
      BY <1>12, <2>2, <3>1 DEF FinishSync, TypesInv
  <2>3. QED
    BY <1>12, <2>1, <2>2 DEF FinishSync
<1>13. QED
  BY <1>1, <1>2, <1>3, <1>4, <1>5, <1>6, <1>7, <1>8, <1>9, <1>10, <1>11, <1>12

LEMMA ChosenWim == \A m : BootWim(m) \subseteq m.wims
BY DEF BootWim, FirstOf, Only

LEMMA BuiltPackage ==
  ASSUME TypesInv, NEW m \in media, NEW w \in Selected(m),
         NEW p \in BuildPackage(host, m, w, version)
  PROVE  /\ p \in AllPackages /\ p.there /\ p.files /\ p.layout = "managed"
         /\ p.script = ScriptByMarker(p) /\ p.fallback = NoScript /\ p.dynamic = FALSE
         /\ p.bcd.loader = p.wim.loader
         /\ p.flavour # "edgeless" => p.bcd = BcdByMarker(p)
         /\ p.bcd # NoBcd
         /\ p.mark = version /\ p.wim # NoWim /\ p.json = 0 /\ p.iso = 0
         /\ w.image \in VendorImages /\ w.image.loader # "none"
         /\ p.wim \in InjectAgent(host, w.image, version)
<1>b. w \in BootWim(m) /\ w.image.loader # "none"
  BY DEF Selected, HasLoader
<1>1. PICK policy \in BootManager(m, w), image \in InjectAgent(host, w.image, version) :
        p = PackageOf(m, policy, image, version)
  BY DEF BuildPackage
<1>2. w.image \in Images /\ version \in Versions /\ 0 \in Sessions /\ w.image \in VendorImages
  BY <1>b, ChosenWim, VendorImagesAreImages, BootMediaAssumption DEF TypesInv, Sessions
<1>3. image \in Images /\ image # NoWim /\ image.agent = version
      /\ image.loader = w.image.loader
  BY <1>1, <1>2, InjectedImages
<1>4. policy \in {"standard", "usm"} /\ FlavourOf(m, policy) \in {policy, "edgeless"}
  BY <1>1 DEF BootManager, FirstOf, FlavourOf
<1>5. /\ p.there = TRUE /\ p.layout = "managed" /\ p.flavour = FlavourOf(m, policy)
      /\ p.wim = image /\ p.files = TRUE /\ p.mark = version
      /\ p.bcd = [policy |-> policy, loader |-> image.loader]
      /\ p.script = ManagedScript(FlavourOf(m, policy))
      /\ p.fallback = NoScript /\ p.dynamic = FALSE /\ p.json = 0 /\ p.iso = 0
      /\ p = [there |-> TRUE, layout |-> "managed", flavour |-> p.flavour, wim |-> image,
              files |-> TRUE, bcd |-> p.bcd, mark |-> version, script |-> p.script,
              fallback |-> NoScript, dynamic |-> FALSE, json |-> 0, iso |-> 0]
  BY <1>1 DEF Absent, PackageOf
<1>6. p.flavour \in Flavours /\ "managed" \in Layouts /\ image.loader \in Loaders
  BY <1>3, <1>4, <1>5 DEF Flavours, Layouts, Images, WinpeImages
<1>7. p.bcd \in Bcds /\ p.script \in AllScripts /\ NoScript \in AllScripts
  <2>1. p.bcd \in Bcds
    BY <1>4, <1>5, <1>6 DEF Bcds
  <2>2. p.script \in AllScripts /\ NoScript \in AllScripts
    BY <1>2, <1>4, <1>5, <1>6 DEF AllScripts, Scripts, ManagedScript, NoScript, Flavours
  <2>3. QED
    BY <2>1, <2>2
<1>8. p \in AllPackages
  BY <1>2, <1>3, <1>5, <1>6, <1>7 DEF AllPackages, Packages, Images, AllScripts
<1>9. p.script = ScriptByMarker(p) /\ p.bcd.loader = p.wim.loader
  BY <1>5 DEF ScriptByMarker
<1>10. p.flavour # "edgeless" => p.bcd = BcdByMarker(p)
  BY <1>4, <1>5 DEF BcdByMarker
<1>11. p.bcd # NoBcd
  BY <1>4, <1>5 DEF NoBcd
<1>12. QED
  BY <1>b, <1>1, <1>2, <1>3, <1>5, <1>8, <1>9, <1>10, <1>11

LEMMA ImportTypes ==
  ASSUME TypesInv,
         \/ ImportMedia \/ ImportDirectory \/ CopyPackage \/ MoveAside \/ PlacePackage
         \/ InjectSaved
  PROVE  TypesInv'
<1>0. /\ "import" \in Groups /\ 0 \in Sessions /\ op["import"] \in Commands
      /\ root \in AllPackages /\ version \in Versions /\ copy \in AllPackages
      /\ Absent \in AllPackages /\ root.json \in Sessions /\ root.there \in BOOLEAN
  <2>1. Absent \in AllPackages
    BY NoOpType DEF NoOp, Commands, AllPackages
  <2>2. QED
    BY <2>1, BootMediaAssumption DEF Groups, Sessions, TypesInv, AllPackages, Packages
<1>1. CASE ImportMedia
  <2>1. CASE Begin("import", NoOp)
    BY <1>0, <1>1, <2>1, NoOpType, BeginKeepsType DEF ImportMedia, TypesInv
  <2>2. CASE ~Begin("import", NoOp)
    <3>a. PICK m \in media :
            \E w \in Selected(m) : \E p \in BuildPackage(host, m, w, version) :
              Begin("import", [NoOp EXCEPT !.at = "away", !.package = p, !.media = TRUE,
                                           !.vendor = w.image])
      BY <1>1, <2>2 DEF ImportMedia
    <3>b. PICK w \in Selected(m) : \E p \in BuildPackage(host, m, w, version) :
            Begin("import", [NoOp EXCEPT !.at = "away", !.package = p, !.media = TRUE,
                                         !.vendor = w.image])
      BY <3>a
    <3>1. PICK p \in BuildPackage(host, m, w, version) :
            Begin("import", [NoOp EXCEPT !.at = "away", !.package = p, !.media = TRUE,
                                         !.vendor = w.image])
      BY <3>b
    <3>2. p \in AllPackages /\ w.image \in Origins
      BY <3>1, BuiltPackage DEF Origins
    <3>3. [NoOp EXCEPT !.at = "away", !.package = p, !.media = TRUE, !.vendor = w.image] \in Commands
      BY <3>2, NoOpType, CommandFields DEF Steps
    <3>4. QED
      BY <1>0, <1>1, <3>1, <3>3, BeginKeepsType DEF ImportMedia, TypesInv
  <2>3. QED
    BY <2>1, <2>2
<1>2. CASE ImportDirectory
  <2>1. CASE Begin("import", NoOp)
    BY <1>0, <1>2, <2>1, NoOpType, BeginKeepsType DEF ImportDirectory, TypesInv
  <2>2. CASE ~Begin("import", NoOp)
    <3>1. PICK i \in (IF copy.mark = version THEN {copy.wim}
                      ELSE InjectAgent(host, copy.wim, version)) :
            Begin("import", [NoOp EXCEPT !.at = "away",
                                         !.package = [copy EXCEPT !.wim = i, !.mark = version],
                                         !.media = FALSE, !.vendor = vendor.copy])
      BY <1>2, <2>2 DEF ImportDirectory
    <3>2. copy.wim \in Images
      BY <1>0, <1>2 DEF ImportDirectory, AllPackages, Packages, Images
    <3>3. i \in Images /\ vendor.copy \in Origins
      BY <1>0, <3>1, <3>2, InjectedImages DEF TypesInv
    <3>4. [copy EXCEPT !.wim = i, !.mark = version] \in AllPackages
      BY <1>0, <3>3 DEF AllPackages, Packages, Images
    <3>5. [NoOp EXCEPT !.at = "away",
                       !.package = [copy EXCEPT !.wim = i, !.mark = version],
                       !.media = FALSE, !.vendor = vendor.copy] \in Commands
      BY <3>3, <3>4, NoOpType DEF Commands, Steps, AllPackages, Origins
    <3>6. QED
      BY <1>0, <1>2, <3>1, <3>5, BeginKeepsType DEF ImportDirectory, TypesInv
  <2>3. QED
    BY <2>1, <2>2
<1>3. CASE CopyPackage
  <2>1. vendor' \in [root : Origins, copy : Origins]
        /\ lost' \in [root : SUBSET Losses, copy : SUBSET Losses]
    BY <1>3 DEF CopyPackage, TypesInv
  <2>2. QED
    BY <1>0, <1>3, <2>1, BudgetKeepsType DEF CopyPackage, TypesInv
<1>4. CASE MoveAside
  <2>1. CASE Finish("import") /\ UNCHANGED root
    BY <1>0, <1>4, <2>1, FinishKeepsType DEF MoveAside, TypesInv
  <2>2. CASE /\ root' = Absent
             /\ op' = [g \in Groups |->
                         IF g # "import" THEN [op[g] EXCEPT !.here = (op[g].at = "idle")]
                         ELSE [op[g] EXCEPT !.at = "place", !.old = root.there]]
             /\ UNCHANGED disturbed
    <3>1. ASSUME NEW g \in Groups
          PROVE  /\ [op[g] EXCEPT !.here = (op[g].at = "idle")] \in Commands
                 /\ [op[g] EXCEPT !.at = "place", !.old = root.there] \in Commands
      <4>1. op[g] \in Commands /\ (op[g].at = "idle") \in BOOLEAN /\ "place" \in Steps
        BY DEF TypesInv, Steps
      <4>2. QED
        BY <1>0, <4>1, CommandFields
    <3>2. op' \in [Groups -> Commands]
      BY <2>2, <3>1
    <3>3. QED
      BY <1>0, <1>4, <2>2, <3>2 DEF MoveAside, TypesInv
  <2>3. QED
    BY <1>4, <2>1, <2>2 DEF MoveAside
<1>5. CASE PlacePackage
  <2>1. CASE root.there
    <3>1. lost' \in [root : SUBSET Losses, copy : SUBSET Losses]
      BY <1>5, <2>1 DEF PlacePackage, TypesInv, Losses
    <3>2. /\ UNCHANGED <<host, media, version, copy, control, pxe, budget, root, vendor, owned>>
          /\ Finish("import")
      BY <1>5, <2>1 DEF PlacePackage
    <3>3. op' \in [Groups -> Commands] /\ disturbed' \in BOOLEAN
      BY <1>0, <3>2, FinishKeepsType DEF TypesInv
    <3>4. QED
      BY <3>1, <3>2, <3>3 DEF TypesInv
  <2>2. CASE ~root.there
    <3>1. /\ op["import"].package \in AllPackages /\ op["import"].vendor \in Origins
          /\ op["import"].media \in BOOLEAN
      BY <1>0 DEF Commands, AllPackages, Origins
    <3>2. lost.copy \in SUBSET Losses
      BY DEF TypesInv
    <3>3. lost' \in [root : SUBSET Losses, copy : SUBSET Losses]
      BY <1>5, <2>2, <3>2 DEF PlacePackage, TypesInv, Losses
    <3>4. op' \in [Groups -> Commands] /\ vendor' \in [root : Origins, copy : Origins]
      BY <1>0, <1>5, <2>2, <3>1, GotoKeepsType DEF PlacePackage, TypesInv, Steps
    <3>5. /\ UNCHANGED <<host, media, version, copy, control, pxe, budget, disturbed>>
          /\ root' = op["import"].package /\ owned' = op["import"].media
      BY <1>5, <2>2 DEF PlacePackage
    <3>6. QED
      BY <3>1, <3>3, <3>4, <3>5 DEF TypesInv
  <2>3. QED
    BY <2>1, <2>2
<1>6. CASE InjectSaved
  <2>1. CASE op' = [op EXCEPT !["import"] = NoOp]
    <3>1. op' \in [Groups -> Commands]
      BY <1>0, <2>1, NoOpType DEF TypesInv
    <3>2. QED
      BY <1>6, <3>1 DEF InjectSaved, TypesInv, history
  <2>2. CASE op' = [op EXCEPT !["import"].at = "bootstrap", !["import"].session = root.json]
    <3>1. [op["import"] EXCEPT !.at = "bootstrap", !.session = root.json] \in Commands
      BY <1>0, CommandFields DEF Steps
    <3>2. op' = [op EXCEPT !["import"] =
                   [op["import"] EXCEPT !.at = "bootstrap", !.session = root.json]]
      BY <1>0, <2>2 DEF TypesInv
    <3>3. QED
      BY <1>0, <1>6, <3>1, <3>2 DEF InjectSaved, TypesInv, history
  <2>3. QED
    BY <1>6, <2>1, <2>2 DEF InjectSaved
<1>7. QED
  BY <1>1, <1>2, <1>3, <1>4, <1>5, <1>6

LEMMA RestartTypes ==
  ASSUME TypesInv, Restart
  PROVE  TypesInv'
<1>1. version' \in Versions \ {0} /\ 0 \in Sessions
  BY BootMediaAssumption DEF Restart, TypesInv, Versions, Sessions
<1>2. budget' \in [calls : Nat, overlaps : Nat, crashes : Nat, faults : Nat,
                   sessions : Sessions]
  BY DEF Restart, TypesInv
<1>3. lost' \in [root : SUBSET Losses, copy : SUBSET Losses]
  BY DEF Restart, TypesInv, Interrupted, Losses
<1>4. QED
  BY <1>1, <1>2, <1>3, NoOpType DEF Restart, TypesInv

LEMMA TypesStep ==
  ASSUME TypesInv, [Next]_vars
  PROVE  TypesInv'
<1>1. CASE UNCHANGED vars
  BY <1>1 DEF vars, TypesInv
<1>2. CASE Next
  BY <1>2, ControlTypes, PxeTypes, SyncTypes, ImportTypes, RestartTypes DEF Next
<1>3. QED
  BY <1>1, <1>2

-----------------------------------------------------------------------------
(* Steps that leave the images alone. *)

Busy == {"putAgent", "swapAgent", "putBootstrap", "swapBootstrap", "mark", "bootstrap",
         "away", "place", "saved"}

Same(h) == /\ op'[h].at = op[h].at /\ op'[h].image = op[h].image
           /\ op'[h].package = op[h].package /\ op'[h].vendor = op[h].vendor
           /\ op'[h].here = op[h].here

QuietOps == \A h \in Groups : op'[h].at \notin Busy \/ Same(h)

Quiet ==
  /\ QuietOps
  /\ root'.wim = root.wim /\ root'.mark = root.mark
  /\ UNCHANGED <<host, version, copy, vendor>>

LEMMA QuietCommands ==
  ASSUME TypesInv, NEW g \in Groups,
         \/ \E new \in Commands : Begin(g, new) /\ new.at \notin Busy
         \/ \E step \in Steps : Goto(g, step) /\ step \notin Busy
         \/ Finish(g) \/ Fail(g)
  PROVE  QuietOps
<1>1. CASE \E new \in Commands : Begin(g, new) /\ new.at \notin Busy
  BY <1>1 DEF Begin, QuietOps, Same, TypesInv, Commands
<1>2. CASE \E step \in Steps : Goto(g, step) /\ step \notin Busy
  BY <1>2 DEF Goto, QuietOps, Same, TypesInv, Commands
<1>3. CASE Finish(g) \/ Fail(g)
  BY <1>3 DEF Finish, Fail, NoOp, QuietOps, Same, TypesInv, Busy
<1>4. QED
  BY <1>1, <1>2, <1>3

LEMMA QuietRefresh ==
  ASSUME TypesInv, NEW step, NEW next \in Steps, next \notin Busy, NEW new \in AllPackages,
         new.wim = root.wim, new.mark = root.mark, NEW gone, Refresh(step, next, new, gone)
  PROVE  Quiet
<1>1. "pxe" \in Groups
  BY DEF Groups
<1>2. CASE Finish("pxe") /\ UNCHANGED <<root, lost>>
  BY <1>1, <1>2, QuietCommands DEF Refresh, Quiet
<1>3. CASE root' = new /\ lost' = [lost EXCEPT !.root = gone]
           /\ Goto("pxe", next) /\ UNCHANGED disturbed
  BY <1>1, <1>3, QuietCommands DEF Refresh, Quiet
<1>4. QED
  BY <1>2, <1>3 DEF Refresh

LEMMA QuietControl ==
  ASSUME TypesInv,
         \/ StartControl \/ StopControl \/ ForgetBootstrap \/ ServerDies
         \/ \E g \in Groups : OpenSession(g)
  PROVE  Quiet
<1>0. "control" \in Groups /\ root \in AllPackages
  BY DEF Groups, TypesInv
<1>1. CASE StartControl
  <2>1. [NoOp EXCEPT !.at = "open"] \in Commands /\ [NoOp EXCEPT !.at = "open"].at \notin Busy
    BY NoOpType DEF Commands, Steps, Busy, NoOp
  <2>2. QED
    BY <1>0, <1>1, <2>1, QuietCommands DEF StartControl, Quiet
<1>2. CASE StopControl
  <2>1. \A s \in {"forget", "idle"} :
          [NoOp EXCEPT !.at = s] \in Commands /\ [NoOp EXCEPT !.at = s].at \notin Busy
    BY NoOpType DEF Commands, Steps, Busy, NoOp
  <2>2. QED
    BY <1>0, <1>2, <2>1, QuietCommands DEF StopControl, Quiet
<1>3. CASE ForgetBootstrap
  <2>1. QuietOps
    BY <1>0, <1>3 DEF ForgetBootstrap, QuietOps, NoOp, Busy, Same, TypesInv
  <2>2. QED
    BY <1>0, <1>3, <2>1 DEF ForgetBootstrap, Quiet, history, AllPackages, Packages
<1>4. CASE ServerDies
  BY <1>4 DEF ServerDies, Quiet, QuietOps, Same, history
<1>5. ASSUME NEW g \in Groups, OpenSession(g) PROVE Quiet
  <2>1. CASE Finish(g)
    BY <1>5, <2>1, QuietCommands DEF OpenSession, Quiet
  <2>2. CASE ~Finish(g)
    <3>1. \E n : op' = [op EXCEPT ![g].at = "json", ![g].session = n]
      BY <1>5, <2>2 DEF OpenSession
    <3>2. QuietOps
      BY <3>1 DEF QuietOps, Same, Busy, TypesInv, Commands
    <3>3. QED
      BY <1>5, <3>2 DEF OpenSession, Quiet
  <2>3. QED
    BY <2>1, <2>2
<1>6. QED
  BY <1>1, <1>2, <1>3, <1>4, <1>5

LEMMA QuietPxe ==
  ASSUME TypesInv,
         \/ StartPxe \/ EnsureNetworkBoot \/ SetBcdAside \/ PutBcd \/ WriteLoaders
         \/ MarkManaged \/ AskControl \/ Listen \/ StopPxe
  PROVE  Quiet
<1>0. "pxe" \in Groups /\ op["pxe"] \in Commands /\ root \in AllPackages
      /\ op["pxe"].bcd \in Bcds
  BY DEF Groups, TypesInv, Commands
<1>1. CASE StartPxe
  <2>1. [NoOp EXCEPT !.at = "ensure"] \in Commands /\ [NoOp EXCEPT !.at = "ensure"].at \notin Busy
    BY NoOpType DEF Commands, Steps, Busy, NoOp
  <2>2. QED
    BY <1>0, <1>1, <2>1, QuietCommands DEF StartPxe, Quiet
<1>2. CASE EnsureNetworkBoot
  <2>1. root'.wim = root.wim /\ root'.mark = root.mark
    BY <1>0, <1>2 DEF EnsureNetworkBoot, AllPackages, Packages
  <2>2. QuietOps
    <3>1. CASE Finish("pxe")
      BY <1>0, <3>1, QuietCommands
    <3>2. CASE Goto("pxe", "ask")
      BY <1>0, <3>2, QuietCommands DEF Steps, Busy
    <3>3. CASE \E a, b : op' = [op EXCEPT !["pxe"].at = "aside", !["pxe"].active = a,
                                          !["pxe"].bcd = b, !["pxe"].here = TRUE]
      <4>1. op'["pxe"].at = "aside" /\ \A h \in Groups \ {"pxe"} : op'[h] = op[h]
        BY <1>0, <3>3 DEF TypesInv, Commands
      <4>2. QED
        BY <4>1 DEF QuietOps, Same, Busy
    <3>4. QED
      BY <1>2, <3>1, <3>2, <3>3 DEF EnsureNetworkBoot
  <2>3. QED
    BY <1>2, <2>1, <2>2 DEF EnsureNetworkBoot, Quiet
<1>3. CASE SetBcdAside
  <2>1. /\ [root EXCEPT !.bcd = NoBcd].wim = root.wim
        /\ [root EXCEPT !.bcd = NoBcd].mark = root.mark
        /\ [root EXCEPT !.bcd = NoBcd] \in AllPackages /\ "bcd" \in Steps /\ "bcd" \notin Busy
    <3>1. NoBcd \in Bcds
      BY DEF NoBcd, Bcds, Loaders
    <3>2. [root EXCEPT !.bcd = NoBcd] \in AllPackages
      BY <1>0, <3>1, RootFields
    <3>3. QED
      BY <1>0, <3>2 DEF AllPackages, Packages, Steps, Busy
  <2>2. QED
    BY <1>3, <2>1, QuietRefresh DEF SetBcdAside
<1>4. CASE PutBcd
  <2>1. /\ [root EXCEPT !.bcd = op["pxe"].bcd].wim = root.wim
        /\ [root EXCEPT !.bcd = op["pxe"].bcd].mark = root.mark
        /\ [root EXCEPT !.bcd = op["pxe"].bcd] \in AllPackages
        /\ "loaders" \in Steps /\ "loaders" \notin Busy
    BY <1>0, RootFields DEF AllPackages, Packages, Steps, Busy
  <2>2. QED
    BY <1>4, <2>1, QuietRefresh DEF PutBcd
<1>5. CASE WriteLoaders
  <2> DEFINE new == IF op["pxe"].active THEN [root EXCEPT !.fallback = ScriptByMarker(root)]
                                        ELSE [root EXCEPT !.script = ScriptByMarker(root)]
  <2>1. root.flavour \in Flavours /\ 0 \in Sessions
    BY <1>0, BootMediaAssumption DEF AllPackages, Packages, Sessions
  <2>2. ScriptByMarker(root) \in AllScripts
    BY <2>1 DEF ScriptByMarker, ManagedScript, NoScript, AllScripts, Scripts, Flavours
  <2>3. new \in AllPackages
    BY <1>0, <2>2, RootFields
  <2>4. new.wim = root.wim /\ new.mark = root.mark /\ "marker" \in Steps /\ "marker" \notin Busy
    BY <1>0 DEF AllPackages, Packages, Steps, Busy
  <2>5. Refresh("loaders", "marker", new, lost.root)
    BY <1>5 DEF WriteLoaders
  <2> HIDE DEF new
  <2>6. QED
    BY <2>3, <2>4, <2>5, QuietRefresh
<1>6. CASE MarkManaged
  <2>1. /\ [root EXCEPT !.layout = "managed"].wim = root.wim
        /\ [root EXCEPT !.layout = "managed"].mark = root.mark
        /\ [root EXCEPT !.layout = "managed"] \in AllPackages
        /\ "ask" \in Steps /\ "ask" \notin Busy
    BY <1>0, RootFields DEF AllPackages, Packages, Layouts, Steps, Busy
  <2>2. QED
    BY <1>6, <2>1, QuietRefresh DEF MarkManaged
<1>7. CASE AskControl
  <2>1. QuietOps
    BY <1>0, <1>7 DEF AskControl, QuietOps, Same, Busy, TypesInv, Commands
  <2>2. QED
    BY <1>7, <2>1 DEF AskControl, Quiet, history
<1>8. CASE Listen
  <2>1. root'.wim = root.wim /\ root'.mark = root.mark
    BY <1>0, <1>8 DEF Listen, AllPackages, Packages
  <2>2. QuietOps
    BY <1>0, <1>8, QuietCommands DEF Listen
  <2>3. QED
    BY <1>8, <2>1, <2>2 DEF Listen, Quiet
<1>9. CASE StopPxe
  BY <1>9 DEF StopPxe, Quiet, QuietOps, Same, history
<1>10. QED
  BY <1>1, <1>2, <1>3, <1>4, <1>5, <1>6, <1>7, <1>8, <1>9

LEMMA QuietSync ==
  ASSUME TypesInv, NEW g \in Groups,
         \/ WriteBootstrap(g) \/ RefreshIso(g) \/ ReadScripts(g) \/ WriteFallback(g)
         \/ WriteDispatcher(g) \/ MarkDynamic(g) \/ FinishSync(g)
  PROVE  Quiet
<1>0. op[g] \in Commands /\ root \in AllPackages
  BY DEF TypesInv
<1>1. CASE WriteBootstrap(g)
  <2>1. root'.wim = root.wim /\ root'.mark = root.mark
    BY <1>0, <1>1 DEF WriteBootstrap, AllPackages, Packages
  <2>2. QuietOps
    BY <1>1, QuietCommands DEF WriteBootstrap, Steps, Busy
  <2>3. QED
    BY <1>1, <2>1, <2>2 DEF WriteBootstrap, Quiet, history
<1>2. CASE RefreshIso(g)
  <2>1. root'.wim = root.wim /\ root'.mark = root.mark
    BY <1>0, <1>2 DEF RefreshIso, AllPackages, Packages
  <2>2. QuietOps
    BY <1>2, QuietCommands DEF RefreshIso, Steps, Busy
  <2>3. QED
    BY <1>2, <2>1, <2>2 DEF RefreshIso, Quiet
<1>3. CASE ReadScripts(g)
  <2>1. \E s \in {"fallback", "finish"} : \E x, r :
          op' = [op EXCEPT ![g].at = s, ![g].script = x, ![g].ready = r]
    BY <1>3 DEF ReadScripts
  <2>2. QuietOps
    BY <1>0, <2>1 DEF QuietOps, Same, Busy, TypesInv, Commands
  <2>3. QED
    BY <1>3, <2>2 DEF ReadScripts, Quiet, history
<1>4. CASE WriteFallback(g)
  <2>1. root'.wim = root.wim /\ root'.mark = root.mark
    BY <1>0, <1>4 DEF WriteFallback, AllPackages, Packages
  <2>2. QuietOps
    BY <1>4, QuietCommands DEF WriteFallback, Steps, Busy
  <2>3. QED
    BY <1>4, <2>1, <2>2 DEF WriteFallback, Quiet, history
<1>5. CASE WriteDispatcher(g)
  <2>1. root'.wim = root.wim /\ root'.mark = root.mark
    BY <1>0, <1>5 DEF WriteDispatcher, AllPackages, Packages
  <2>2. QuietOps
    BY <1>5, QuietCommands DEF WriteDispatcher, Steps, Busy
  <2>3. QED
    BY <1>5, <2>1, <2>2 DEF WriteDispatcher, Quiet
<1>6. CASE MarkDynamic(g)
  <2>1. root'.wim = root.wim /\ root'.mark = root.mark
    BY <1>0, <1>6 DEF MarkDynamic, AllPackages, Packages
  <2>2. QuietOps
    BY <1>6, QuietCommands DEF MarkDynamic, Steps, Busy
  <2>3. QED
    BY <1>6, <2>1, <2>2 DEF MarkDynamic, Quiet
<1>7. CASE FinishSync(g)
  <2>1. QuietOps
    <3>1. CASE Fail(g) \/ Goto(g, "listen")
      BY <3>1, QuietCommands DEF Steps, Busy
    <3>2. CASE op' = [op EXCEPT ![g] = NoOp]
      BY <3>2 DEF QuietOps, NoOp, Busy, Same, TypesInv
    <3>3. QED
      BY <1>7, <3>1, <3>2 DEF FinishSync
  <2>2. QED
    BY <1>7, <2>1 DEF FinishSync, Quiet
<1>8. QED
  BY <1>1, <1>2, <1>3, <1>4, <1>5, <1>6, <1>7

-----------------------------------------------------------------------------
(* The digests are no newer than the Agent they stand for. *)

Holding(c) == c.at \in {"putAgent", "swapAgent", "putBootstrap", "swapBootstrap"}

Current(p) == p.wim = NoWim \/ p.wim.agent = version

DigestsInv ==
  /\ \A p \in {root, copy} : p.mark <= version /\ (p.mark = version => Current(p))
  /\ \A g \in Groups :
       /\ Holding(op[g]) => op[g].image # NoWim /\ op[g].image.agent = version
       /\ op[g].at \in {"mark", "bootstrap", "saved"} => Current(root)
  /\ op["import"].at \in {"away", "place"} =>
       /\ op["import"].package.wim # NoWim
       /\ op["import"].package.wim.agent = version /\ op["import"].package.mark = version

LEMMA InitialDigests == Init => DigestsInv
<1> SUFFICES ASSUME Init PROVE DigestsInv
  OBVIOUS
<1>1. root.mark = 0 /\ copy.mark = 0 /\ version = 1
  BY ScenariosAssumption DEF Init, Absent
<1>2. \A g \in Groups : op[g].at = "idle"
  BY DEF Init, NoOp
<1>3. QED
  BY <1>1, <1>2 DEF DigestsInv, Holding, Groups

LEMMA QuietDigests ==
  ASSUME TypesInv, DigestsInv, Quiet
  PROVE  DigestsInv'
<1>1. "import" \in Groups
  BY DEF Groups
<1>2. \A p \in {root', copy'} : p.mark <= version' /\ (p.mark = version' => Current(p)')
  BY DEF Quiet, DigestsInv, Current
<1>3. ASSUME NEW g \in Groups
      PROVE  /\ Holding(op[g])' => op'[g].image # NoWim /\ op'[g].image.agent = version'
             /\ op'[g].at \in {"mark", "bootstrap", "saved"} => Current(root)'
  BY DEF Quiet, QuietOps, Same, Busy, DigestsInv, Holding, Current
<1>4. op'["import"].at \in {"away", "place"} =>
        /\ op'["import"].package.wim # NoWim
        /\ op'["import"].package.wim.agent = version'
        /\ op'["import"].package.mark = version'
  BY <1>1 DEF Quiet, QuietOps, Same, Busy, DigestsInv
<1>5. QED
  BY <1>2, <1>3, <1>4 DEF DigestsInv

\* What Mount does when it does not fail.
Mounted(g, i, next) ==
  /\ root.wim # NoWim
  /\ op'[g].at = next /\ op'[g].image = i /\ op'[g].here = TRUE
  /\ \A h \in Groups \ {g} : op'[h] = op[h]
  /\ UNCHANGED <<host, version, root, copy, vendor>>

LEMMA MountEffect ==
  ASSUME TypesInv, NEW g \in Groups, NEW images \in SUBSET Images, NEW next \in Steps,
         Mount(g, images, next)
  PROVE  Quiet \/ \E i \in images : Mounted(g, i, next)
<1>1. CASE Fail(g)
  BY <1>1, QuietCommands DEF Mount, Quiet
<1>2. CASE ~Fail(g)
  <2>1. PICK i \in images : op' = [op EXCEPT ![g].at = next, ![g].image = i, ![g].here = TRUE]
    BY <1>2 DEF Mount
  <2>2. /\ op'[g].at = next /\ op'[g].image = i /\ op'[g].here = TRUE
        /\ \A h \in Groups \ {g} : op'[h] = op[h]
    BY <2>1 DEF TypesInv, Commands
  <2>3. QED
    BY <1>2, <2>1, <2>2 DEF Mount, CanMount, Mounted
<1>3. QED
  BY <1>1, <1>2

LEMMA MountForAgentEffect ==
  ASSUME TypesInv, NEW g \in Groups, MountForAgent(g)
  PROVE  \/ Quiet
         \/ \E i \in InjectAgent(host, root.wim, version) : Mounted(g, i, "putAgent")
         \/ /\ root.wim # NoWim /\ root.mark = version
            /\ op'[g].at = "bootstrap" /\ \A h \in Groups \ {g} : op'[h] = op[h]
            /\ UNCHANGED <<host, version, root, copy, vendor>>
<1>1. CASE root.wim # NoWim /\ root.mark = version
  BY <1>1 DEF MountForAgent, Goto, TypesInv, Commands, history
<1>2. CASE ~(root.wim # NoWim /\ root.mark = version)
  <2> DEFINE images == IF root.wim = NoWim THEN {} ELSE InjectAgent(host, root.wim, version)
  <2>1. Mount(g, images, "putAgent")
    BY <1>2 DEF MountForAgent
  <2>2. images \in SUBSET Images /\ "putAgent" \in Steps
    BY RootImage DEF Steps
  <2>3. images \subseteq InjectAgent(host, root.wim, version)
    OBVIOUS
  <2> HIDE DEF images
  <2>4. Quiet \/ \E i \in images : Mounted(g, i, "putAgent")
    BY <2>1, <2>2, MountEffect
  <2>5. QED
    BY <2>3, <2>4
<1>3. QED
  BY <1>1, <1>2

LEMMA MountForBootstrapEffect ==
  ASSUME TypesInv, NEW g \in Groups, MountForBootstrap(g)
  PROVE  Quiet \/ Mounted(g, InjectBootstrap(root.wim, op[g].session), "putBootstrap")
<1> DEFINE images == IF root.wim = NoWim THEN {} ELSE {InjectBootstrap(root.wim, op[g].session)}
<1>1. Mount(g, images, "putBootstrap")
  BY DEF MountForBootstrap
<1>2. images \in SUBSET Images /\ "putBootstrap" \in Steps
  BY RootImage DEF Steps, TypesInv, Commands
<1>3. images \subseteq {InjectBootstrap(root.wim, op[g].session)}
  OBVIOUS
<1> HIDE DEF images
<1>4. Quiet \/ \E i \in images : Mounted(g, i, "putBootstrap")
  BY <1>1, <1>2, MountEffect
<1>5. QED
  BY <1>3, <1>4

\* The image a command holds becomes the one of the package, or none does for
\* the moment between two renames.
LEMMA PutEffect ==
  ASSUME TypesInv, NEW g \in Groups, PutImage(g) \/ SwapImage(g)
  PROVE  \/ Quiet
         \/ /\ Holding(op[g]) /\ op[g].here
            /\ \/ root'.wim = op[g].image /\ ~Holding(op'[g]) /\ op'[g].at # "bootstrap"
               \/ /\ host = "macos" /\ root'.wim = NoWim
                  /\ Holding(op'[g]) /\ op'[g].image = op[g].image /\ op'[g].here = op[g].here
            /\ op'[g].at \notin {"away", "place", "saved"}
            /\ \A h \in Groups \ {g} : op'[h] = op[h]
            /\ root'.mark = root.mark
            /\ UNCHANGED <<host, version, copy, vendor>>
<1>0. root \in AllPackages /\ op[g] \in Commands
  BY DEF TypesInv
<1>1. CASE Fail(g) /\ UNCHANGED root
  BY <1>1, QuietCommands DEF PutImage, SwapImage, Quiet
<1>2. CASE ~(Fail(g) /\ UNCHANGED root) /\ PutImage(g)
  <2>1. /\ op[g].at \in {"putAgent", "putBootstrap"} /\ op[g].here
        /\ root' = [root EXCEPT !.wim = IF host = "macos" THEN NoWim ELSE op[g].image]
        /\ UNCHANGED <<host, version, copy, vendor>>
        /\ host = "macos" => Goto(g, "swapAgent") \/ Goto(g, "swapBootstrap")
        /\ host # "macos" => Goto(g, "mark") \/ Goto(g, "iso") \/ Goto(g, "script")
    BY <1>0, <1>2 DEF PutImage, AfterBootstrap, Commands
  <2>2. root'.mark = root.mark /\ root'.wim = IF host = "macos" THEN NoWim ELSE op[g].image
    BY <1>0, <2>1 DEF AllPackages, Packages
  <2>3. PICK s \in {"swapAgent", "swapBootstrap", "mark", "iso", "script"} :
          /\ Goto(g, s)
          /\ (host = "macos") <=> (s \in {"swapAgent", "swapBootstrap"})
    BY <2>1
  <2>4. /\ op'[g].at = s /\ op'[g].image = op[g].image /\ op'[g].here = op[g].here
        /\ \A h \in Groups \ {g} : op'[h] = op[h]
    BY <1>0, <2>3 DEF Goto, TypesInv, Commands
  <2>5. QED
    BY <2>1, <2>2, <2>3, <2>4 DEF Holding
<1>3. CASE ~(Fail(g) /\ UNCHANGED root) /\ SwapImage(g)
  <2>1. /\ op[g].at \in {"swapAgent", "swapBootstrap"} /\ op[g].here
        /\ root' = [root EXCEPT !.wim = op[g].image]
        /\ UNCHANGED <<host, version, copy, vendor>>
        /\ Goto(g, "mark") \/ Goto(g, "iso") \/ Goto(g, "script")
    BY <1>0, <1>3 DEF SwapImage, AfterBootstrap, Commands
  <2>2. root'.mark = root.mark /\ root'.wim = op[g].image
    BY <1>0, <2>1 DEF AllPackages, Packages
  <2>3. PICK s \in {"mark", "iso", "script"} : Goto(g, s)
    BY <2>1
  <2>4. op'[g].at = s /\ \A h \in Groups \ {g} : op'[h] = op[h]
    BY <1>0, <2>3 DEF Goto, TypesInv, Commands
  <2>5. QED
    BY <2>1, <2>2, <2>3, <2>4 DEF Holding
<1>4. QED
  BY <1>1, <1>2, <1>3

LEMMA WriteDigestsEffect ==
  ASSUME TypesInv, NEW g \in Groups, WriteDigests(g)
  PROVE  \/ Quiet
         \/ /\ op[g].at = "mark" /\ op'[g].at = "bootstrap"
            /\ \A h \in Groups \ {g} : op'[h] = op[h]
            /\ root'.wim = root.wim /\ root'.mark = version
            /\ UNCHANGED <<host, version, copy, vendor>>
<1>0. root \in AllPackages
  BY DEF TypesInv
<1>1. CASE Fail(g) /\ UNCHANGED root
  BY <1>1, QuietCommands DEF WriteDigests, Quiet
<1>2. CASE ~(Fail(g) /\ UNCHANGED root)
  <2>1. /\ op[g].at = "mark" /\ root' = [root EXCEPT !.mark = version] /\ Goto(g, "bootstrap")
        /\ UNCHANGED <<host, version, copy, vendor>>
    BY <1>2 DEF WriteDigests
  <2>2. root'.wim = root.wim /\ root'.mark = version
    BY <1>0, <2>1 DEF AllPackages, Packages
  <2>3. op'[g].at = "bootstrap" /\ \A h \in Groups \ {g} : op'[h] = op[h]
    BY <2>1 DEF Goto, TypesInv, Commands
  <2>4. QED
    BY <2>1, <2>2, <2>3
<1>3. QED
  BY <1>1, <1>2

\* A call that begins with a complete package in its hands.
Brought(p, v) ==
  /\ op'["import"].at = "away" /\ op'["import"].package = p /\ op'["import"].vendor = v
  /\ \A h \in Groups \ {"import"} : Same(h)
  /\ UNCHANGED <<host, version, root, copy, vendor>>

LEMMA BeginImport ==
  ASSUME TypesInv, NEW p \in AllPackages, NEW v \in Origins, NEW m \in BOOLEAN,
         Begin("import", [NoOp EXCEPT !.at = "away", !.package = p, !.media = m, !.vendor = v])
  PROVE  /\ op'["import"].at = "away" /\ op'["import"].package = p /\ op'["import"].vendor = v
         /\ op'["import"].media = m
         /\ \A h \in Groups \ {"import"} : Same(h)
<1> DEFINE new == [NoOp EXCEPT !.at = "away", !.package = p, !.media = m, !.vendor = v]
<1>1. /\ new.at = "away" /\ new.package = p /\ new.vendor = v /\ new.media = m
      /\ new \in Commands /\ "import" \in Groups
  BY NoOpType DEF NoOp, Commands, Steps, AllPackages, Origins, Groups
<1>2. Begin("import", new)
  OBVIOUS
<1> HIDE DEF new
<1>3. /\ op'["import"] = [new EXCEPT !.alone = (Idle \/ new.at = "idle")]
      /\ \A h \in Groups \ {"import"} : op'[h] = [op[h] EXCEPT !.alone = (op[h].at = "idle")]
  BY <1>1, <1>2 DEF Begin
<1>4. \A h \in Groups : op[h] \in Commands
  BY DEF TypesInv
<1>5. ASSUME NEW c \in Commands, NEW b
      PROVE  LET d == [c EXCEPT !.alone = b]
             IN d.at = c.at /\ d.image = c.image /\ d.package = c.package
                /\ d.vendor = c.vendor /\ d.here = c.here /\ d.media = c.media
  BY DEF Commands
<1>6. /\ op'["import"].at = "away" /\ op'["import"].package = p /\ op'["import"].vendor = v
      /\ op'["import"].media = m
  <2> DEFINE b == Idle \/ new.at = "idle"
  <2>1. op'["import"] = [new EXCEPT !.alone = b]
    BY <1>3
  <2> HIDE DEF b
  <2>2. QED
    BY <1>1, <1>5, <2>1
<1>7. ASSUME NEW h \in Groups \ {"import"}
      PROVE  Same(h)
  <2> DEFINE b == op[h].at = "idle"
  <2>1. op'[h] = [op[h] EXCEPT !.alone = b] /\ op[h] \in Commands
    BY <1>3, <1>4
  <2> HIDE DEF b
  <2>2. QED
    BY <1>5, <2>1 DEF Same
<1>8. QED
  BY <1>6, <1>7

LEMMA BeginNothing ==
  ASSUME TypesInv, NEW g \in Groups, Begin(g, NoOp)
  PROVE  QuietOps
BY NoOpType, QuietCommands DEF NoOp, Busy

LEMMA ImportMediaEffect ==
  ASSUME TypesInv, ImportMedia
  PROVE  \/ Quiet
         \/ \E m \in media : \E w \in Selected(m) :
              \E p \in BuildPackage(host, m, w, version) : Brought(p, w.image)
<1>1. "import" \in Groups
  BY DEF Groups
<1>2. UNCHANGED <<host, version, root, copy, vendor>>
  BY DEF ImportMedia
<1>3. CASE Begin("import", NoOp)
  BY <1>1, <1>2, <1>3, BeginNothing DEF Quiet
<1>4. CASE ~Begin("import", NoOp)
  <2>1. PICK m \in media : \E w \in Selected(m) : \E p \in BuildPackage(host, m, w, version) :
          Begin("import", [NoOp EXCEPT !.at = "away", !.package = p, !.media = TRUE,
                                       !.vendor = w.image])
    BY <1>4 DEF ImportMedia
  <2>2. PICK w \in Selected(m) : \E p \in BuildPackage(host, m, w, version) :
          Begin("import", [NoOp EXCEPT !.at = "away", !.package = p, !.media = TRUE,
                                       !.vendor = w.image])
    BY <2>1
  <2>3. PICK p \in BuildPackage(host, m, w, version) :
          Begin("import", [NoOp EXCEPT !.at = "away", !.package = p, !.media = TRUE,
                                       !.vendor = w.image])
    BY <2>2
  <2>4. p \in AllPackages /\ w.image \in Origins
    BY <2>1, <2>2, <2>3, BuiltPackage DEF Origins
  <2>5. Brought(p, w.image)
    BY <1>2, <2>3, <2>4, BeginImport DEF Brought
  <2>6. QED
    BY <2>1, <2>2, <2>3, <2>5
<1>5. QED
  BY <1>3, <1>4

LEMMA ImportDirectoryEffect ==
  ASSUME TypesInv, ImportDirectory
  PROVE  \/ Quiet
         \/ /\ copy.wim \in Images /\ copy.wim # NoWim
            /\ \E i \in IF copy.mark = version THEN {copy.wim}
                        ELSE InjectAgent(host, copy.wim, version) :
                 Brought([copy EXCEPT !.wim = i, !.mark = version], vendor.copy)
<1>1. /\ "import" \in Groups /\ copy \in AllPackages /\ version \in Versions
      /\ copy.wim \in Images /\ copy.wim # NoWim
  BY DEF Groups, TypesInv, ImportDirectory, AllPackages, Packages, Images
<1>2. UNCHANGED <<host, version, root, copy, vendor>>
  BY DEF ImportDirectory
<1>3. CASE Begin("import", NoOp)
  BY <1>1, <1>2, <1>3, BeginNothing DEF Quiet
<1>4. CASE ~Begin("import", NoOp)
  <2>1. PICK i \in (IF copy.mark = version THEN {copy.wim}
                    ELSE InjectAgent(host, copy.wim, version)) :
          Begin("import", [NoOp EXCEPT !.at = "away",
                                       !.package = [copy EXCEPT !.wim = i, !.mark = version],
                                       !.media = FALSE, !.vendor = vendor.copy])
    BY <1>4 DEF ImportDirectory
  <2> DEFINE p == [copy EXCEPT !.wim = i, !.mark = version]
  <2>2. i \in Images
    BY <1>1, <2>1, InjectedImages
  <2>3. p \in AllPackages /\ vendor.copy \in Origins
    BY <1>1, <2>2 DEF AllPackages, Packages, Images, TypesInv
  <2>6. Begin("import", [NoOp EXCEPT !.at = "away", !.package = p, !.media = FALSE,
                                     !.vendor = vendor.copy])
    BY <2>1
  <2> HIDE DEF p
  <2>7. Brought(p, vendor.copy)
    BY <1>2, <2>3, <2>6, BeginImport DEF Brought
  <2>8. QED
    BY <1>1, <2>1, <2>7 DEF p
<1>5. QED
  BY <1>3, <1>4

LEMMA MoveAsideEffect ==
  ASSUME TypesInv, MoveAside
  PROVE  \/ Quiet
         \/ /\ op["import"].at = "away" /\ op'["import"].at = "place"
            /\ op'["import"].package = op["import"].package
            /\ op'["import"].vendor = op["import"].vendor
            /\ \A g \in Groups \ {"import"} :
                 /\ op'[g].at = op[g].at /\ op'[g].image = op[g].image
                 /\ op'[g].at # "idle" => ~op'[g].here
            /\ root' = Absent /\ UNCHANGED <<host, version, copy, vendor>>
<1>1. "import" \in Groups /\ \A g \in Groups : op[g] \in Commands
  BY DEF Groups, TypesInv
<1>2. CASE Finish("import") /\ UNCHANGED root
  BY <1>1, <1>2, QuietCommands DEF MoveAside, Quiet
<1>3. CASE ~(Finish("import") /\ UNCHANGED root)
  <2>1. /\ op["import"].at = "away" /\ root' = Absent
        /\ op' = [g \in Groups |->
                    IF g # "import" THEN [op[g] EXCEPT !.here = (op[g].at = "idle")]
                    ELSE [op[g] EXCEPT !.at = "place", !.old = root.there]]
        /\ UNCHANGED <<host, version, copy, vendor>>
    BY <1>3 DEF MoveAside
  <2>2. op'["import"] = [op["import"] EXCEPT !.at = "place", !.old = root.there]
    BY <1>1, <2>1
  <2>3. \A g \in Groups \ {"import"} : op'[g] = [op[g] EXCEPT !.here = (op[g].at = "idle")]
    BY <2>1
  <2>4. /\ op'["import"].at = "place" /\ op'["import"].package = op["import"].package
        /\ op'["import"].vendor = op["import"].vendor
    BY <1>1, <2>2 DEF Commands
  <2>5. ASSUME NEW g \in Groups \ {"import"}
        PROVE  /\ op'[g].at = op[g].at /\ op'[g].image = op[g].image
               /\ op'[g].at # "idle" => ~op'[g].here
    <3> DEFINE b == op[g].at = "idle"
    <3>1. op'[g] = [op[g] EXCEPT !.here = b] /\ op[g] \in Commands
      BY <1>1, <2>3
    <3>2. op'[g].at = op[g].at /\ op'[g].image = op[g].image /\ op'[g].here = b
      <4> HIDE DEF b
      <4>1. QED
        BY <3>1 DEF Commands
    <3>3. QED
      BY <3>2
  <2>6. QED
    BY <2>1, <2>4, <2>5
<1>4. QED
  BY <1>2, <1>3

LEMMA PlacePackageEffect ==
  ASSUME TypesInv, PlacePackage
  PROVE  \/ Quiet
         \/ /\ op["import"].at = "place" /\ op'["import"].at = "saved"
            /\ root' = op["import"].package
            /\ vendor' = [vendor EXCEPT !.root = op["import"].vendor]
            /\ \A h \in Groups \ {"import"} : op'[h] = op[h]
            /\ UNCHANGED <<host, version, copy>>
<1>1. "import" \in Groups
  BY DEF Groups
<1>2. CASE root.there
  BY <1>1, <1>2, QuietCommands DEF PlacePackage, Quiet
<1>3. CASE ~root.there
  BY <1>1, <1>3 DEF PlacePackage, Goto, TypesInv, Commands
<1>4. QED
  BY <1>2, <1>3

LEMMA InjectSavedEffect ==
  ASSUME TypesInv, InjectSaved
  PROVE  \/ Quiet
         \/ /\ op["import"].at = "saved" /\ op'["import"].at = "bootstrap"
            /\ \A h \in Groups \ {"import"} : op'[h] = op[h]
            /\ UNCHANGED <<host, version, root, copy, vendor>>
<1>1. "import" \in Groups
  BY DEF Groups
<1>2. CASE root.json = 0
  <2>1. QuietOps
    BY <1>1, <1>2 DEF InjectSaved, QuietOps, NoOp, Busy, Same, TypesInv
  <2>2. QED
    BY <2>1 DEF InjectSaved, Quiet, history
<1>3. CASE root.json # 0
  BY <1>1, <1>3 DEF InjectSaved, TypesInv, Commands, history
<1>4. QED
  BY <1>2, <1>3

LEMMA MountedDigests ==
  ASSUME TypesInv, DigestsInv, NEW g \in Groups, NEW i, i # NoWim, i.agent = version,
         NEW next \in {"putAgent", "putBootstrap"}, Mounted(g, i, next)
  PROVE  DigestsInv'
<1>1. /\ UNCHANGED <<version, root, copy>> /\ op'[g].at = next /\ op'[g].image = i
      /\ \A h \in Groups \ {g} : op'[h] = op[h]
  BY DEF Mounted
<1>2. \A p \in {root', copy'} : p.mark <= version' /\ (p.mark = version' => Current(p)')
  BY <1>1 DEF DigestsInv, Current
<1>3. ASSUME NEW h \in Groups
      PROVE  /\ Holding(op[h])' => op'[h].image # NoWim /\ op'[h].image.agent = version'
             /\ op'[h].at \in {"mark", "bootstrap", "saved"} => Current(root)'
  <2>1. CASE h = g
    BY <1>1, <2>1
  <2>2. CASE h # g
    BY <1>1, <2>2 DEF DigestsInv, Holding, Current
  <2>3. QED
    BY <2>1, <2>2
<1>4. op'["import"].at \in {"away", "place"} =>
        /\ op'["import"].package.wim # NoWim
        /\ op'["import"].package.wim.agent = version'
        /\ op'["import"].package.mark = version'
  BY <1>1 DEF DigestsInv, Groups
<1>5. QED
  BY <1>2, <1>3, <1>4 DEF DigestsInv

LEMMA DigestsStep ==
  ASSUME TypesInv, DigestsInv, [Next]_vars
  PROVE  DigestsInv'
<1>0. /\ "import" \in Groups /\ version \in Nat /\ version \in Versions
      /\ root.mark \in Nat /\ copy.mark \in Nat
  BY BootMediaAssumption DEF Groups, TypesInv, Versions, AllPackages, Packages
<1>1. CASE UNCHANGED vars
  BY <1>1 DEF vars, DigestsInv, Holding, Current
<1>2. CASE Quiet
  BY <1>2, QuietDigests
<1>3. ASSUME NEW g \in Groups, MountForAgent(g) PROVE DigestsInv'
  <2>1. CASE \E i \in InjectAgent(host, root.wim, version) : Mounted(g, i, "putAgent")
    <3>1. PICK i \in InjectAgent(host, root.wim, version) : Mounted(g, i, "putAgent")
      BY <2>1
    <3>2. root.wim \in Images
      BY <3>1, RootImage DEF Mounted
    <3>3. i # NoWim /\ i.agent = version
      BY <1>0, <3>2, InjectedImages
    <3>4. QED
      BY <3>1, <3>3, MountedDigests
  <2>2. CASE /\ root.wim # NoWim /\ root.mark = version
             /\ op'[g].at = "bootstrap" /\ \A h \in Groups \ {g} : op'[h] = op[h]
             /\ UNCHANGED <<host, version, root, copy, vendor>>
    <3>1. Current(root)'
      BY <2>2 DEF DigestsInv, Current
    <3>2. QED
      BY <1>0, <2>2, <3>1 DEF DigestsInv, Holding, Current
  <2>3. QED
    BY <1>2, <1>3, <2>1, <2>2, MountForAgentEffect
<1>4. ASSUME NEW g \in Groups, MountForBootstrap(g) PROVE DigestsInv'
  <2>1. CASE Mounted(g, InjectBootstrap(root.wim, op[g].session), "putBootstrap")
    <3> DEFINE i == InjectBootstrap(root.wim, op[g].session)
    <3>1. root.wim \in Images /\ op[g].session \in Sessions /\ root.wim # NoWim
      BY <2>1, RootImage DEF Mounted, TypesInv, Commands
    <3>2. i \in Images /\ i.agent = root.wim.agent
      BY <3>1, RootImage DEF InjectBootstrap, Images, WinpeImages
    <3>3. i # NoWim /\ i.agent = version
      BY <1>4, <3>1, <3>2, NoWimIsNoImage DEF MountForBootstrap, DigestsInv, Current
    <3> HIDE DEF i
    <3>4. QED
      BY <2>1, <3>3, MountedDigests DEF i
  <2>2. QED
    BY <1>2, <1>4, <2>1, MountForBootstrapEffect
<1>5. ASSUME NEW g \in Groups, PutImage(g) \/ SwapImage(g) PROVE DigestsInv'
  <2>1. CASE ~Quiet
    <3>1. /\ Holding(op[g])
          /\ \/ root'.wim = op[g].image /\ ~Holding(op'[g]) /\ op'[g].at # "bootstrap"
             \/ /\ root'.wim = NoWim
                /\ Holding(op'[g]) /\ op'[g].image = op[g].image
          /\ op'[g].at \notin {"away", "place", "saved"}
          /\ \A h \in Groups \ {g} : op'[h] = op[h]
          /\ root'.mark = root.mark
          /\ UNCHANGED <<version, copy>>
      BY <1>5, <2>1, PutEffect
    <3>2. op[g].image # NoWim /\ op[g].image.agent = version
      BY <3>1 DEF DigestsInv
    <3>3. Current(root)'
      BY <3>1, <3>2 DEF Current
    <3>4. QED
      BY <1>0, <3>1, <3>2, <3>3 DEF DigestsInv, Holding, Current
  <2>2. QED
    BY <1>2, <2>1
<1>6. ASSUME NEW g \in Groups, WriteDigests(g) PROVE DigestsInv'
  <2>1. CASE ~Quiet
    <3>1. /\ op[g].at = "mark" /\ op'[g].at = "bootstrap"
          /\ \A h \in Groups \ {g} : op'[h] = op[h]
          /\ root'.wim = root.wim /\ root'.mark = version
          /\ UNCHANGED <<version, copy>>
      BY <1>6, <2>1, WriteDigestsEffect
    <3>2. Current(root)'
      BY <3>1 DEF DigestsInv, Current
    <3>3. QED
      BY <1>0, <3>1, <3>2 DEF DigestsInv, Holding, Current
  <2>2. QED
    BY <1>2, <2>1
<1>7. CASE ImportMedia
  <2>1. CASE ~Quiet
    <3>1. PICK m \in media : \E w \in Selected(m) :
              \E p \in BuildPackage(host, m, w, version) : Brought(p, w.image)
      BY <1>7, <2>1, ImportMediaEffect
    <3>2. PICK w \in Selected(m) :
            \E p \in BuildPackage(host, m, w, version) : Brought(p, w.image)
      BY <3>1
    <3>3. PICK p \in BuildPackage(host, m, w, version) : Brought(p, w.image)
      BY <3>2
    <3>4. /\ p.mark = version /\ p.wim # NoWim /\ p.wim \in InjectAgent(host, w.image, version)
          /\ w.image \in VendorImages
      BY <3>1, <3>2, <3>3, BuiltPackage
    <3>5. p.wim.agent = version
      BY <1>0, <3>4, InjectedImages, VendorImagesAreImages
    <3>6. QED
      BY <3>3, <3>4, <3>5 DEF Brought, Same, DigestsInv, Holding, Current
  <2>2. QED
    BY <1>2, <2>1
<1>8. CASE ImportDirectory
  <2>1. CASE ~Quiet
    <3>1. /\ copy.wim \in Images /\ copy.wim # NoWim
          /\ \E i \in IF copy.mark = version THEN {copy.wim}
                      ELSE InjectAgent(host, copy.wim, version) :
               Brought([copy EXCEPT !.wim = i, !.mark = version], vendor.copy)
      BY <1>8, <2>1, ImportDirectoryEffect
    <3>2. PICK i \in (IF copy.mark = version THEN {copy.wim}
                      ELSE InjectAgent(host, copy.wim, version)) :
            Brought([copy EXCEPT !.wim = i, !.mark = version], vendor.copy)
      BY <3>1
    <3> DEFINE p == [copy EXCEPT !.wim = i, !.mark = version]
    <3>3. i # NoWim /\ i.agent = version
      <4>1. CASE copy.mark = version
        BY <3>1, <3>2, <4>1 DEF DigestsInv, Current
      <4>2. CASE copy.mark # version
        BY <1>0, <3>1, <3>2, <4>2, InjectedImages
      <4>3. QED
        BY <4>1, <4>2
    <3>4. p.wim = i /\ p.mark = version
      BY DEF TypesInv, AllPackages, Packages
    <3>5. Brought(p, vendor.copy)
      BY <3>2
    <3> HIDE DEF p
    <3>6. QED
      BY <3>3, <3>4, <3>5 DEF Brought, Same, DigestsInv, Holding, Current
  <2>2. QED
    BY <1>2, <2>1
<1>9. CASE CopyPackage
  BY <1>9 DEF CopyPackage, DigestsInv, Holding, Current
<1>10. CASE MoveAside
  <2>1. CASE ~Quiet
    <3>1. /\ op["import"].at = "away" /\ op'["import"].at = "place"
          /\ op'["import"].package = op["import"].package
          /\ \A g \in Groups \ {"import"} :
               op'[g].at = op[g].at /\ op'[g].image = op[g].image
          /\ root' = Absent /\ UNCHANGED <<version, copy>>
      BY <1>10, <2>1, MoveAsideEffect
    <3>2. Absent.wim = NoWim /\ Absent.mark = 0 /\ version # 0
      BY DEF Absent, TypesInv
    <3>3. QED
      BY <1>0, <3>1, <3>2 DEF DigestsInv, Holding, Current
  <2>2. QED
    BY <1>2, <2>1
<1>11. CASE PlacePackage
  <2>1. CASE ~Quiet
    <3>1. /\ op["import"].at = "place" /\ op'["import"].at = "saved"
          /\ root' = op["import"].package
          /\ \A h \in Groups \ {"import"} : op'[h] = op[h]
          /\ UNCHANGED <<version, copy>>
      BY <1>11, <2>1, PlacePackageEffect
    <3>2. QED
      BY <1>0, <3>1 DEF DigestsInv, Holding, Current
  <2>2. QED
    BY <1>2, <2>1
<1>12. CASE InjectSaved
  <2>1. CASE ~Quiet
    <3>1. /\ op["import"].at = "saved" /\ op'["import"].at = "bootstrap"
          /\ \A h \in Groups \ {"import"} : op'[h] = op[h]
          /\ UNCHANGED <<host, version, root, copy, vendor>>
      BY <1>12, <2>1, InjectSavedEffect
    <3>2. QED
      BY <1>0, <3>1 DEF DigestsInv, Holding, Current
  <2>2. QED
    BY <1>2, <2>1
<1>13. CASE Restart
  <2>1. /\ version' \in {version, version + 1} /\ UNCHANGED <<root, copy>>
        /\ \A g \in Groups : op'[g].at = "idle"
    BY <1>13 DEF Restart, NoOp
  <2>2. \A p \in {root, copy} : p.mark <= version' /\ (p.mark = version' => Current(p)')
    <3>1. CASE version' = version
      BY <2>1, <3>1 DEF DigestsInv, Current
    <3>2. CASE version' = version + 1
      BY <1>0, <2>1, <3>2 DEF DigestsInv
    <3>3. QED
      BY <2>1, <3>1, <3>2
  <2>3. QED
    BY <1>0, <2>1, <2>2 DEF DigestsInv, Holding
<1>14. CASE Next
  BY <1>2, <1>3, <1>4, <1>5, <1>6, <1>7, <1>8, <1>9, <1>10, <1>11, <1>12, <1>13, <1>14,
     QuietControl, QuietPxe, QuietSync DEF Next
<1>15. QED
  BY <1>1, <1>14

\* Every variable keeps its type, and a command waits for a package to be put
\* in place only while it holds one that is complete.
THEOREM BootTypes == Spec => []BootTypeOK
<1>1. Init => TypesInv /\ DigestsInv
  BY InitialTypes, InitialDigests
<1>2. TypesInv /\ DigestsInv /\ [Next]_vars => TypesInv' /\ DigestsInv'
  BY TypesStep, DigestsStep
<1>3. TypesInv /\ DigestsInv => BootTypeOK
  BY DEF TypesInv, DigestsInv, BootTypeOK, AllPackages
<1>4. QED
  BY <1>1, <1>2, <1>3, PTL DEF Spec

-----------------------------------------------------------------------------
(* Every image is the one its vendor made, or that one injected. *)

\* The vendor's image v with only a bootstrap file put into it.
Untouched(i, v) ==
  /\ i.agent = 0 /\ i.startnet = v.startnet /\ i.kept = v.kept /\ i.ini = v.ini
  /\ i.cmdline = v.cmdline /\ i.shell = v.shell /\ i.hook = v.hook

\* What any number of injections on Windows makes of it.
Hooked(i, v) ==
  /\ i.agent # 0 /\ i.startnet = "edm"
  /\ v.startnet = "vendor" => i.kept = "vendor"
  /\ i.ini.section = v.ini.section /\ v.ini.section # "unknown"
  /\ v.ini.section # "none" =>
       /\ i.ini.hooked /\ i.hook /\ i.cmdline = v.cmdline
       /\ i.shell = IF v.ini.section = "app" THEN "app" ELSE "none"
  /\ v.ini.section = "none" =>
       \/ /\ v.cmdline \in {"nohive", "none"} /\ i.cmdline = v.cmdline
          /\ ~i.hook /\ i.shell = "none"
       \/ /\ v.cmdline \in {"winpeshl", "vendor"} /\ i.cmdline = "agent"
          /\ i.hook /\ i.shell = v.cmdline

From(i, v) == i # NoWim => v \in VendorImages /\ (Untouched(i, v) \/ Hooked(i, v))

\* Injecting again leaves what the first injection made.
LEMMA InjectHooks ==
  ASSUME NEW i \in Images, NEW v \in VendorImages, Untouched(i, v) \/ Hooked(i, v),
         NEW n \in Versions \ {0}, NEW j \in InjectAgent("windows", i, n)
  PROVE  Hooked(j, v)
<1>1. PICK k \in HookShell("windows", i) : j = KeepStartnet("windows", [k EXCEPT !.agent = n])
  BY DEF InjectAgent
<1>2. /\ v.startnet \in {"none", "vendor"} /\ v.kept = "none" /\ ~v.ini.hooked
      /\ v.ini.section \in Sections /\ v.cmdline \in CmdLines \ {"agent"}
      /\ v.shell = "none" /\ ~v.hook
      /\ v.ini.section # "none" => v.cmdline # "vendor"
  BY DEF VendorImages
<1>3. /\ i.ini.section = v.ini.section /\ i.ini \in [section : Sections, hooked : BOOLEAN]
      /\ i.startnet \in Startnets /\ i.kept \in Startnets /\ i.hook \in BOOLEAN
  BY DEF Untouched, Hooked, Images, WinpeImages
<1>4. /\ k \in Images /\ k.startnet = i.startnet /\ k.kept = i.kept
      /\ k.ini.section = v.ini.section /\ v.ini.section # "unknown"
      /\ v.ini.section # "none" =>
           /\ k.ini.hooked /\ k.hook /\ k.cmdline = v.cmdline
           /\ k.shell = IF v.ini.section = "app" THEN "app" ELSE "none"
      /\ v.ini.section = "none" =>
           \/ /\ v.cmdline \in {"nohive", "none"} /\ k.cmdline = v.cmdline
              /\ ~k.hook /\ k.shell = "none"
           \/ /\ v.cmdline \in {"winpeshl", "vendor"} /\ k.cmdline = "agent"
              /\ k.hook /\ k.shell = v.cmdline
  <2>1. CASE v.ini.section # "none"
    <3>1. /\ v.ini.section # "unknown"
          /\ k = [i EXCEPT !.ini.hooked = TRUE, !.hook = TRUE,
                    !.shell = IF i.ini.section = "app" /\ ~i.ini.hooked THEN "app" ELSE @]
      BY <1>1, <1>3, <2>1 DEF HookShell, HookWinpeshl
    <3>2. (IF i.ini.section = "app" /\ ~i.ini.hooked THEN "app" ELSE i.shell)
            = IF v.ini.section = "app" THEN "app" ELSE "none"
      BY <1>2, <1>3, <2>1 DEF Untouched, Hooked
    <3>3. i.cmdline = v.cmdline
      BY <2>1 DEF Untouched, Hooked
    <3>4. PICK s \in {"app", "none"} :
            /\ k = [i EXCEPT !.ini.hooked = TRUE, !.hook = TRUE, !.shell = s]
            /\ s = IF v.ini.section = "app" THEN "app" ELSE "none"
      BY <3>1, <3>2
    <3>5. /\ k \in Images /\ k.startnet = i.startnet /\ k.kept = i.kept
          /\ k.ini.section = i.ini.section /\ k.ini.hooked = TRUE /\ k.hook = TRUE
          /\ k.shell = s /\ k.cmdline = i.cmdline
      BY <1>3, <3>4 DEF Images, WinpeImages, Shells
    <3>6. QED
      BY <1>3, <2>1, <3>1, <3>3, <3>4, <3>5
  <2>2. CASE v.ini.section = "none"
    <3>1. k \in HookCmdLine("windows", i)
      BY <1>1, <1>3, <2>2 DEF HookShell
    <3>2. CASE i.cmdline \in {"nohive", "none"}
      <4>1. k = i
        BY <3>1, <3>2 DEF HookCmdLine
      <4>2. QED
        BY <1>2, <1>3, <2>2, <3>2, <4>1 DEF Untouched, Hooked
    <3>3. CASE i.cmdline = "agent"
      <4>1. k = [i EXCEPT !.hook = TRUE]
        BY <3>1, <3>3 DEF HookCmdLine
      <4>2. /\ k \in Images /\ k.startnet = i.startnet /\ k.kept = i.kept
            /\ k.ini = i.ini /\ k.hook = TRUE /\ k.shell = i.shell /\ k.cmdline = "agent"
        BY <3>3, <4>1 DEF Images, WinpeImages
      <4>3. v.cmdline \in {"winpeshl", "vendor"} /\ i.shell = v.cmdline
        BY <1>2, <2>2, <3>3 DEF Untouched, Hooked
      <4>4. QED
        BY <1>3, <2>2, <4>2, <4>3
    <3>4. CASE i.cmdline \in {"winpeshl", "vendor"}
      <4>1. k = [i EXCEPT !.hook = TRUE, !.cmdline = "agent", !.shell = i.cmdline]
        BY <3>1, <3>4 DEF HookCmdLine
      <4>2. /\ k \in Images /\ k.startnet = i.startnet /\ k.kept = i.kept
            /\ k.ini = i.ini /\ k.hook = TRUE /\ k.shell = i.cmdline /\ k.cmdline = "agent"
        BY <3>4, <4>1 DEF Images, WinpeImages, CmdLines, Shells
      <4>3. v.cmdline = i.cmdline
        BY <1>2, <2>2, <3>4 DEF Untouched, Hooked
      <4>4. QED
        BY <1>3, <2>2, <3>4, <4>2, <4>3
    <3>5. i.cmdline \in {"nohive", "none", "agent", "winpeshl", "vendor"}
      BY DEF Images, WinpeImages, CmdLines
    <3>6. QED
      BY <3>2, <3>3, <3>4, <3>5
  <2>3. QED
    BY <2>1, <2>2
<1>5. v.startnet = "vendor" => (i.startnet = "vendor" /\ i.kept = "none") \/ i.kept = "vendor"
  BY <1>2 DEF Untouched, Hooked
<1> DEFINE l == [k EXCEPT !.agent = n]
<1>6. /\ l \in Images /\ l.agent = n /\ l.startnet = i.startnet /\ l.kept = i.kept
      /\ l.ini = k.ini /\ l.hook = k.hook /\ l.shell = k.shell /\ l.cmdline = k.cmdline
  BY <1>4 DEF Images, WinpeImages
<1>7. j = KeepStartnet("windows", l)
  BY <1>1
<1> HIDE DEF l
<1>8. /\ j.agent = n /\ j.startnet = "edm"
      /\ j.kept = IF l.startnet # "none" /\ l.kept = "none" THEN l.startnet ELSE l.kept
      /\ j.ini = l.ini /\ j.hook = l.hook /\ j.shell = l.shell /\ j.cmdline = l.cmdline
  BY <1>6, <1>7 DEF KeepStartnet, Images, WinpeImages
<1>9. v.startnet = "vendor" => j.kept = "vendor"
  BY <1>5, <1>6, <1>8
<1>10. QED
  BY <1>4, <1>6, <1>8, <1>9 DEF Hooked

LEMMA OneAgentBeside ==
  ASSUME NEW v, NEW S, Boot(v) = Runs(S)
  PROVE  /\ Then(AnAgent, Runs(S)) = AsBefore(v)
         /\ Then(AnAgent, Then(Nothing, Runs(S))) = AsBefore(v)
<1>1. AsBefore(v) = [agents |-> 1, programs |-> S]
  BY DEF AsBefore, Runs
<1>2. Then(Nothing, Runs(S)) = Runs(S)
  BY DEF Then, Nothing, Runs
<1>3. Then(AnAgent, Runs(S)) = [agents |-> 1, programs |-> S]
  BY DEF Then, AnAgent, Runs
<1>4. QED
  BY <1>1, <1>2, <1>3

\* A machine that boots it runs one Agent and what the vendor's ran.
LEMMA HookedBoots ==
  ASSUME NEW i \in Images, NEW v \in VendorImages, Hooked(i, v),
         ReachesStartnet(v) => v.startnet # "none"
  PROVE  Boot(i) = AsBefore(v)
<1>1. /\ v.startnet \in {"none", "vendor"} /\ v.kept = "none" /\ ~v.ini.hooked
      /\ v.ini.section \in {"none", "apps", "app"} /\ v.cmdline \in CmdLines \ {"agent"}
      /\ v.shell = "none" /\ ~v.hook
      /\ v.ini.section # "none" => v.cmdline # "vendor"
  BY DEF VendorImages, Hooked, Sections
<1>2. CASE v.ini.section # "none"
  <2>1. Boot(v) = Runs({"ini"})
    BY <1>1, <1>2 DEF Boot, RunWinpeshl
  <2>2. Boot(i) = RunWinpeshl(i)
    BY <1>1, <1>2 DEF Boot, Hooked
  <2>3. RunWinpeshl(i) = Then(AnAgent, Runs({"ini"}))
    BY <1>1, <1>2 DEF RunWinpeshl, Hooked
  <2>4. QED
    BY <2>1, <2>2, <2>3, OneAgentBeside
<1>3. CASE v.ini.section = "none" /\ v.cmdline = "vendor"
  <2>1. Boot(v) = Runs({"shell"})
    BY <1>3 DEF Boot
  <2>2. Boot(i) = Then(AnAgent, Runs({"shell"}))
    BY <1>3 DEF Boot, RunLauncher, Hooked
  <2>3. QED
    BY <2>1, <2>2, OneAgentBeside
<1>4. CASE v.ini.section = "none" /\ v.cmdline # "vendor"
  <2>1. v.startnet = "vendor" /\ i.startnet = "edm" /\ i.kept = "vendor" /\ i.ini.section = "none"
    BY <1>1, <1>4 DEF ReachesStartnet, Hooked
  <2>2. Boot(v) = Runs({"startnet"})
    <3>1. Boot(v) = RunWinpeshl(v)
      BY <1>1, <1>4 DEF Boot
    <3>2. RunWinpeshl(v) = RunStartnet(v)
      BY <1>4 DEF RunWinpeshl
    <3>3. RunStartnet(v) = Runs({"startnet"})
      BY <2>1 DEF RunStartnet
    <3>4. QED
      BY <3>1, <3>2, <3>3
  <2>3. CASE i.cmdline = "agent"
    <3>1. i.hook /\ i.shell = "winpeshl"
      BY <1>1, <1>4, <2>3 DEF Hooked
    <3>2. Boot(i) = Then(AnAgent, RunStartnet(i))
      <4>1. Boot(i) = RunLauncher(i)
        BY <2>3 DEF Boot
      <4>2. RunLauncher(i) = Then(AnAgent, RunWinpeshl(i))
        BY <3>1 DEF RunLauncher
      <4>3. RunWinpeshl(i) = RunStartnet(i)
        BY <2>1 DEF RunWinpeshl
      <4>4. QED
        BY <4>1, <4>2, <4>3
    <3>3. RunStartnet(i) = Then(Nothing, Runs({"startnet"}))
      BY <2>1, <3>1 DEF RunStartnet
    <3>4. QED
      BY <2>2, <3>2, <3>3, OneAgentBeside
  <2>4. CASE i.cmdline # "agent"
    <3>1. ~i.hook /\ i.cmdline \in {"nohive", "none"}
      BY <1>1, <1>4, <2>4 DEF Hooked
    <3>2. Boot(i) = RunStartnet(i)
      <4>1. Boot(i) = RunWinpeshl(i)
        BY <3>1 DEF Boot
      <4>2. RunWinpeshl(i) = RunStartnet(i)
        BY <2>1 DEF RunWinpeshl
      <4>3. QED
        BY <4>1, <4>2
    <3>3. RunStartnet(i) = Then(AnAgent, Runs({"startnet"}))
      BY <2>1, <3>1 DEF RunStartnet
    <3>4. QED
      BY <2>2, <3>2, <3>3, OneAgentBeside
  <2>5. QED
    BY <2>3, <2>4
<1>5. QED
  BY <1>2, <1>3, <1>4

\* While the package is away there is no boot.wim, and a command that has an
\* image in its hands knows that it is the one of another directory; on
\* Windows each image has its vendor's, by the directory it is in.
OriginsInv ==
  /\ op["import"].at = "place" =>
       root.wim = NoWim /\ \A g \in Groups : Holding(op[g]) => ~op[g].here
  /\ host = "windows" =>
       /\ From(root.wim, vendor.root) /\ From(copy.wim, vendor.copy)
       /\ \A g \in Groups : Holding(op[g]) /\ op[g].here => From(op[g].image, vendor.root)
       /\ op["import"].at \in {"away", "place"} =>
            From(op["import"].package.wim, op["import"].vendor)

LEMMA InitialOrigins == Init => OriginsInv
<1> SUFFICES ASSUME Init PROVE OriginsInv
  OBVIOUS
<1>1. \A g \in Groups : op[g].at = "idle"
  BY DEF Init, NoOp
<1>2. copy.wim = NoWim /\ vendor.root = root.wim
      /\ vendor.root \in VendorImages \cup {NoWim}
  BY ScenariosAssumption DEF Init, Absent
<1>3. From(root.wim, vendor.root)
  BY <1>2 DEF From, Untouched, VendorImages
<1>4. QED
  BY <1>1, <1>2, <1>3 DEF OriginsInv, Groups, Holding, From

LEMMA QuietOrigins ==
  ASSUME TypesInv, OriginsInv, Quiet
  PROVE  OriginsInv'
<1>1. "import" \in Groups
  BY DEF Groups
<1>2. \A g \in Groups : Holding(op'[g]) => Same(g) /\ Holding(op[g])
  BY DEF Quiet, QuietOps, Same, Busy, Holding
<1>3. op'["import"].at \in {"away", "place"} => Same("import")
  BY <1>1 DEF Quiet, QuietOps, Busy
<1>4. op'["import"].at = "place" =>
        root'.wim = NoWim /\ \A g \in Groups : Holding(op'[g]) => ~op'[g].here
  BY <1>2, <1>3 DEF Quiet, Same, OriginsInv
<1>5. ASSUME host' = "windows"
      PROVE  /\ From(root'.wim, vendor'.root) /\ From(copy'.wim, vendor'.copy)
             /\ \A g \in Groups : Holding(op'[g]) /\ op'[g].here => From(op'[g].image, vendor'.root)
             /\ op'["import"].at \in {"away", "place"} =>
                  From(op'["import"].package.wim, op'["import"].vendor)
  BY <1>2, <1>3, <1>5 DEF Quiet, Same, OriginsInv
<1>6. QED
  BY <1>4, <1>5 DEF OriginsInv, Holding, From, Untouched, Hooked

LEMMA MountedOrigins ==
  ASSUME TypesInv, OriginsInv, NEW g \in Groups, NEW i,
         NEW next \in {"putAgent", "putBootstrap"}, Mounted(g, i, next),
         host = "windows" => From(i, vendor.root)
  PROVE  OriginsInv'
<1>1. /\ root.wim # NoWim /\ UNCHANGED <<host, root, copy, vendor>>
      /\ op'[g].at = next /\ op'[g].image = i
      /\ \A h \in Groups \ {g} : op'[h] = op[h]
  BY DEF Mounted
<1>2. op["import"].at # "place" /\ "import" \in Groups
  BY <1>1 DEF OriginsInv, Groups
<1>3. op'["import"].at # "place"
  BY <1>1, <1>2
<1>4. ASSUME host = "windows"
      PROVE  /\ From(root.wim, vendor.root) /\ From(copy.wim, vendor.copy)
             /\ \A h \in Groups : Holding(op'[h]) /\ op'[h].here => From(op'[h].image, vendor.root)
             /\ op'["import"].at \in {"away", "place"} =>
                  From(op'["import"].package.wim, op'["import"].vendor)
  BY <1>1, <1>2, <1>4 DEF OriginsInv
<1>5. QED
  BY <1>1, <1>3, <1>4 DEF OriginsInv, Holding, From, Untouched, Hooked

\* A step that changes who is at which step, but no image and no package.
LEMMA MarkedOrigins ==
  ASSUME TypesInv, OriginsInv, NEW g \in Groups, op'[g].at = "bootstrap",
         \A h \in Groups \ {g} : op'[h] = op[h],
         root'.wim = root.wim, UNCHANGED <<host, copy, vendor>>
  PROVE  OriginsInv'
<1>1. ~Holding(op'[g]) /\ op'[g].at \notin {"away", "place"} /\ "import" \in Groups
  BY DEF Holding, Groups
<1>2. op'["import"].at = "place" =>
        root'.wim = NoWim /\ \A h \in Groups : Holding(op'[h]) => ~op'[h].here
  BY <1>1 DEF OriginsInv
<1>3. ASSUME host = "windows"
      PROVE  /\ From(root'.wim, vendor.root) /\ From(copy.wim, vendor.copy)
             /\ \A h \in Groups : Holding(op'[h]) /\ op'[h].here => From(op'[h].image, vendor.root)
             /\ op'["import"].at \in {"away", "place"} =>
                  From(op'["import"].package.wim, op'["import"].vendor)
  BY <1>1, <1>3 DEF OriginsInv
<1>4. QED
  BY <1>2, <1>3 DEF OriginsInv, Holding, From, Untouched, Hooked

LEMMA BroughtOrigins ==
  ASSUME TypesInv, OriginsInv, NEW p, NEW v, Brought(p, v),
         host = "windows" => From(p.wim, v)
  PROVE  OriginsInv'
<1>1. /\ op'["import"].at = "away" /\ op'["import"].package = p /\ op'["import"].vendor = v
      /\ \A h \in Groups \ {"import"} : Same(h)
      /\ UNCHANGED <<host, root, copy, vendor>> /\ ~Holding(op'["import"])
  BY DEF Brought, Holding
<1>2. ASSUME host = "windows"
      PROVE  /\ From(root.wim, vendor.root) /\ From(copy.wim, vendor.copy)
             /\ \A h \in Groups : Holding(op'[h]) /\ op'[h].here => From(op'[h].image, vendor.root)
             /\ op'["import"].at \in {"away", "place"} =>
                  From(op'["import"].package.wim, op'["import"].vendor)
  BY <1>1, <1>2 DEF OriginsInv, Same, Holding
<1>3. QED
  BY <1>1, <1>2 DEF OriginsInv, Holding, From, Untouched, Hooked

LEMMA InjectedOrigin ==
  ASSUME TypesInv, NEW i \in Images, NEW v \in Origins, i # NoWim, From(i, v),
         host = "windows", NEW j \in InjectAgent(host, i, version)
  PROVE  From(j, v)
<1>1. v \in VendorImages /\ (Untouched(i, v) \/ Hooked(i, v)) /\ version \in Versions \ {0}
  BY DEF From, TypesInv
<1>2. Hooked(j, v)
  BY <1>1, InjectHooks
<1>3. QED
  BY <1>1, <1>2 DEF From

LEMMA OriginsStep ==
  ASSUME TypesInv, OriginsInv, [Next]_vars
  PROVE  OriginsInv'
<1>0. /\ "import" \in Groups /\ version \in Versions
      /\ vendor.root \in Origins /\ vendor.copy \in Origins
  BY DEF Groups, TypesInv
<1>1. CASE UNCHANGED vars
  BY <1>1 DEF vars, OriginsInv, Holding, From, Untouched, Hooked
<1>2. CASE Quiet
  BY <1>2, QuietOrigins
<1>3. ASSUME NEW g \in Groups, MountForAgent(g) PROVE OriginsInv'
  <2>1. CASE \E i \in InjectAgent(host, root.wim, version) : Mounted(g, i, "putAgent")
    <3>1. PICK i \in InjectAgent(host, root.wim, version) : Mounted(g, i, "putAgent")
      BY <2>1
    <3>2. root.wim # NoWim /\ root.wim \in Images
      BY <3>1, RootImage DEF Mounted
    <3>3. host = "windows" => From(i, vendor.root)
      BY <1>0, <3>1, <3>2, InjectedOrigin DEF OriginsInv
    <3>4. QED
      BY <3>1, <3>3, MountedOrigins
  <2>2. CASE /\ op'[g].at = "bootstrap" /\ \A h \in Groups \ {g} : op'[h] = op[h]
             /\ UNCHANGED <<host, version, root, copy, vendor>>
    BY <2>2, MarkedOrigins
  <2>3. QED
    BY <1>2, <1>3, <2>1, <2>2, MountForAgentEffect
<1>4. ASSUME NEW g \in Groups, MountForBootstrap(g) PROVE OriginsInv'
  <2>1. CASE Mounted(g, InjectBootstrap(root.wim, op[g].session), "putBootstrap")
    <3> DEFINE i == InjectBootstrap(root.wim, op[g].session)
    <3>1. root.wim \in Images /\ root.wim # NoWim
      BY <2>1, RootImage DEF Mounted
    <3>2. /\ i.agent = root.wim.agent /\ i.startnet = root.wim.startnet
          /\ i.kept = root.wim.kept /\ i.ini = root.wim.ini /\ i.cmdline = root.wim.cmdline
          /\ i.shell = root.wim.shell /\ i.hook = root.wim.hook
      BY <3>1 DEF InjectBootstrap, Images, WinpeImages
    <3> HIDE DEF i
    <3>3. host = "windows" => From(i, vendor.root)
      BY <3>1, <3>2 DEF OriginsInv, From, Untouched, Hooked
    <3>4. QED
      BY <2>1, <3>3, MountedOrigins DEF i
  <2>2. QED
    BY <1>2, <1>4, <2>1, MountForBootstrapEffect
<1>5. ASSUME NEW g \in Groups, PutImage(g) \/ SwapImage(g) PROVE OriginsInv'
  <2>1. CASE ~Quiet
    <3>1. /\ Holding(op[g]) /\ op[g].here
          /\ \/ root'.wim = op[g].image /\ ~Holding(op'[g])
             \/ /\ host = "macos" /\ root'.wim = NoWim
                /\ Holding(op'[g]) /\ op'[g].image = op[g].image /\ op'[g].here = op[g].here
          /\ op'[g].at \notin {"away", "place", "saved"}
          /\ \A h \in Groups \ {g} : op'[h] = op[h]
          /\ UNCHANGED <<host, version, copy, vendor>>
      BY <1>5, <2>1, PutEffect
    <3>2. op["import"].at # "place"
      BY <3>1 DEF OriginsInv
    <3>3. op'["import"].at # "place"
      BY <1>0, <3>1, <3>2
    <3>4. ASSUME host = "windows"
          PROVE  /\ From(root'.wim, vendor.root) /\ From(copy.wim, vendor.copy)
                 /\ \A h \in Groups : Holding(op'[h]) /\ op'[h].here =>
                      From(op'[h].image, vendor.root)
                 /\ op'["import"].at \in {"away", "place"} =>
                      From(op'["import"].package.wim, op'["import"].vendor)
      BY <1>0, <3>1, <3>4 DEF OriginsInv
    <3>5. QED
      BY <3>1, <3>3, <3>4 DEF OriginsInv
  <2>2. QED
    BY <1>2, <2>1
<1>6. ASSUME NEW g \in Groups, WriteDigests(g) PROVE OriginsInv'
  <2>1. CASE ~Quiet
    <3>1. /\ op'[g].at = "bootstrap" /\ \A h \in Groups \ {g} : op'[h] = op[h]
          /\ root'.wim = root.wim /\ UNCHANGED <<host, copy, vendor>>
      BY <1>6, <2>1, WriteDigestsEffect
    <3>2. QED
      BY <3>1, MarkedOrigins
  <2>2. QED
    BY <1>2, <2>1
<1>7. CASE ImportMedia
  <2>1. CASE ~Quiet
    <3>1. PICK m \in media : \E w \in Selected(m) :
              \E p \in BuildPackage(host, m, w, version) : Brought(p, w.image)
      BY <1>7, <2>1, ImportMediaEffect
    <3>2. PICK w \in Selected(m) :
            \E p \in BuildPackage(host, m, w, version) : Brought(p, w.image)
      BY <3>1
    <3>3. PICK p \in BuildPackage(host, m, w, version) : Brought(p, w.image)
      BY <3>2
    <3>4. p.wim \in InjectAgent(host, w.image, version) /\ w.image \in VendorImages
      BY <3>1, <3>2, <3>3, BuiltPackage
    <3>5. w.image \in Images /\ w.image \in Origins /\ w.image # NoWim
      BY <3>4, VendorImagesAreImages, NoWimIsNoImage DEF Origins
    <3>6. From(w.image, w.image)
      BY <3>4 DEF From, Untouched, VendorImages
    <3>7. host = "windows" => From(p.wim, w.image)
      BY <3>4, <3>5, <3>6, InjectedOrigin
    <3>8. QED
      BY <3>3, <3>7, BroughtOrigins
  <2>2. QED
    BY <1>2, <2>1
<1>8. CASE ImportDirectory
  <2>1. CASE ~Quiet
    <3>1. /\ copy.wim \in Images /\ copy.wim # NoWim
          /\ \E i \in IF copy.mark = version THEN {copy.wim}
                      ELSE InjectAgent(host, copy.wim, version) :
               Brought([copy EXCEPT !.wim = i, !.mark = version], vendor.copy)
      BY <1>8, <2>1, ImportDirectoryEffect
    <3>2. PICK i \in (IF copy.mark = version THEN {copy.wim}
                      ELSE InjectAgent(host, copy.wim, version)) :
            Brought([copy EXCEPT !.wim = i, !.mark = version], vendor.copy)
      BY <3>1
    <3> DEFINE p == [copy EXCEPT !.wim = i, !.mark = version]
    <3>3. host = "windows" => From(i, vendor.copy)
      BY <1>0, <3>1, <3>2, InjectedOrigin DEF OriginsInv
    <3>4. p.wim = i
      BY DEF TypesInv, AllPackages, Packages
    <3>5. Brought(p, vendor.copy)
      BY <3>2
    <3> HIDE DEF p
    <3>6. QED
      BY <3>3, <3>4, <3>5, BroughtOrigins
  <2>2. QED
    BY <1>2, <2>1
<1>9. CASE CopyPackage
  <2>1. /\ \A g \in Groups : op[g].at = "idle"
        /\ copy' = root /\ vendor' = [vendor EXCEPT !.copy = vendor.root]
        /\ UNCHANGED <<host, root, op>>
    BY <1>9 DEF CopyPackage, Idle
  <2>2. vendor'.root = vendor.root /\ vendor'.copy = vendor.root
    BY <2>1 DEF TypesInv
  <2>3. host = "windows" => From(root.wim, vendor.root)
    BY DEF OriginsInv
  <2>4. QED
    BY <1>0, <2>1, <2>2, <2>3 DEF OriginsInv, Holding, From, Untouched, Hooked
<1>10. CASE MoveAside
  <2>1. CASE ~Quiet
    <3>1. /\ op["import"].at = "away" /\ op'["import"].at = "place"
          /\ op'["import"].package = op["import"].package
          /\ op'["import"].vendor = op["import"].vendor
          /\ \A g \in Groups \ {"import"} : op'[g].at # "idle" => ~op'[g].here
          /\ root' = Absent /\ UNCHANGED <<host, copy, vendor>>
      BY <1>10, <2>1, MoveAsideEffect
    <3>2. root'.wim = NoWim
      BY <3>1 DEF Absent
    <3>3. \A g \in Groups : Holding(op'[g]) => ~op'[g].here
      BY <3>1 DEF Holding
    <3>4. host = "windows" =>
            From(copy.wim, vendor.copy) /\ From(op["import"].package.wim, op["import"].vendor)
      BY <3>1 DEF OriginsInv
    <3>5. From(NoWim, vendor.root)
      BY DEF From
    <3>6. QED
      BY <3>1, <3>2, <3>3, <3>4, <3>5 DEF OriginsInv, Holding, From, Untouched, Hooked
  <2>2. QED
    BY <1>2, <2>1
<1>11. CASE PlacePackage
  <2>1. CASE ~Quiet
    <3>1. /\ op["import"].at = "place" /\ op'["import"].at = "saved"
          /\ root' = op["import"].package
          /\ vendor' = [vendor EXCEPT !.root = op["import"].vendor]
          /\ \A h \in Groups \ {"import"} : op'[h] = op[h]
          /\ UNCHANGED <<host, copy>>
      BY <1>11, <2>1, PlacePackageEffect
    <3>2. vendor'.root = op["import"].vendor /\ vendor'.copy = vendor.copy
      BY <3>1 DEF TypesInv
    <3>3. \A g \in Groups : Holding(op'[g]) => ~op'[g].here
      BY <3>1 DEF OriginsInv, Holding
    <3>4. host = "windows" =>
            From(copy.wim, vendor.copy) /\ From(op["import"].package.wim, op["import"].vendor)
      BY <3>1 DEF OriginsInv
    <3>5. QED
      BY <3>1, <3>2, <3>3, <3>4 DEF OriginsInv, Holding, From, Untouched, Hooked
  <2>2. QED
    BY <1>2, <2>1
<1>12. CASE InjectSaved
  <2>1. CASE ~Quiet
    <3>1. /\ op'["import"].at = "bootstrap" /\ \A h \in Groups \ {"import"} : op'[h] = op[h]
          /\ UNCHANGED <<host, version, root, copy, vendor>>
      BY <1>12, <2>1, InjectSavedEffect
    <3>2. QED
      BY <1>0, <3>1, MarkedOrigins
  <2>2. QED
    BY <1>2, <2>1
<1>13. CASE Restart
  <2>1. /\ UNCHANGED <<host, root, copy, vendor>> /\ \A g \in Groups : op'[g].at = "idle"
    BY <1>13 DEF Restart, NoOp
  <2>2. host = "windows" => From(root.wim, vendor.root) /\ From(copy.wim, vendor.copy)
    BY DEF OriginsInv
  <2>3. QED
    BY <1>0, <2>1, <2>2 DEF OriginsInv, Holding, From, Untouched, Hooked
<1>14. CASE Next
  BY <1>2, <1>3, <1>4, <1>5, <1>6, <1>7, <1>8, <1>9, <1>10, <1>11, <1>12, <1>13, <1>14,
     QuietControl, QuietPxe, QuietSync DEF Next
<1>15. QED
  BY <1>1, <1>14

\* However often an image is injected again, on Windows, a machine that boots
\* it runs one Agent and what its vendor's image ran.
THEOREM StartsEverything == Spec => []StartsEverythingOnce
<1>1. Init => TypesInv /\ OriginsInv
  BY InitialTypes, InitialOrigins
<1>2. TypesInv /\ OriginsInv /\ [Next]_vars => TypesInv' /\ OriginsInv'
  BY TypesStep, OriginsStep
<1>3. TypesInv /\ OriginsInv => StartsEverythingOnce
  <2> SUFFICES ASSUME TypesInv, OriginsInv, host = "windows", root.wim # NoWim,
                      root.wim.agent # 0,
                      ReachesStartnet(vendor.root) => vendor.root.startnet # "none"
               PROVE  Boot(root.wim) = AsBefore(vendor.root)
    BY DEF StartsEverythingOnce
  <2>1. root.wim \in Images /\ vendor.root \in VendorImages /\ Hooked(root.wim, vendor.root)
    BY RootImage DEF OriginsInv, From, Untouched
  <2>2. QED
    BY <2>1, HookedBoots
<1>4. QED
  BY <1>1, <1>2, <1>3, PTL DEF Spec

-----------------------------------------------------------------------------
(* A package stays the one that was put in place, and a package made from a *)
(* medium stays manageable.                                                 *)

Swaps == {"swapAgent", "swapBootstrap"}
BcdSteps == {"aside", "bcd"}

\* Nothing a crash or an overlap took from the package, but for its boot
\* configuration, which the next refresh puts back.
Whole == lost.root \subseteq {"bcd"}

\* The package is where an import moved it.
Away == op["import"].at = "place" /\ op["import"].old

PolicyByFlavour(f) == IF f = "usm" THEN "usm" ELSE "standard"

\* A package with the script, the loader and the boot policy of its medium,
\* whose image may be away for the moment of a swap.
Manageable(p, v) ==
  /\ p.there /\ p.layout = "managed" /\ p.files
  /\ p.wim # NoWim => p.wim.loader = v.loader
  /\ \/ p.script = ScriptByMarker(p)
     \/ p.script.kind = "dispatcher" /\ p.fallback = ScriptByMarker(p)
  /\ p.bcd = NoBcd \/ p.bcd.loader = v.loader
  /\ p.flavour # "edgeless" => p.bcd = NoBcd \/ p.bcd.policy = PolicyByFlavour(p.flavour)

\* What an import of a medium puts in place.
Complete(p, v) ==
  /\ Manageable(p, v) /\ p.script.kind = "managed" /\ p.wim # NoWim /\ p.bcd # NoBcd

\* What a command took from the package in place still belongs to it.
Fits(c, p, v) ==
  /\ c.at = "fallback" => c.script = ScriptByMarker(p)
  /\ c.at = "dispatcher" => p.fallback = ScriptByMarker(p)
  /\ Holding(c) /\ c.here => c.image # NoWim /\ c.image.loader = v.loader
  /\ c.at \in BcdSteps /\ c.here =>
       c.bcd = [policy |-> PolicyByFlavour(p.flavour), loader |-> v.loader]

\* What a directory that is not there cannot have.
Blank(p) ==
  /\ p.layout = "none" /\ p.wim = NoWim
  /\ p.script.kind = "none" /\ p.fallback.kind = "none"

\* The packages an import and the operator hold.
CarriedInv ==
  /\ op["import"].at \in {"away", "place"} /\ op["import"].media =>
       Complete(op["import"].package, op["import"].vendor)
  /\ op["import"].at \in {"away", "place"} /\ (op["import"].media \/ lost.copy \subseteq {"bcd"}) =>
       Sound(op["import"].package)
  /\ lost.copy \subseteq {"bcd"} => Sound(copy)
  /\ copy.wim # NoWim => copy.there
  /\ op["import"].at \in {"away", "place"} => op["import"].package.there
  /\ \A g \in Groups : op[g].at = "fallback" => op[g].script.kind = "managed"

\* A package that is away is not one to take anything from.
PlacingInv ==
  /\ root.there \/ Blank(root)
  /\ \A g \in Groups : Holding(op[g]) /\ op[g].here => root.there
  /\ op["import"].at = "place" =>
       /\ ~root.files /\ root.wim = NoWim
       /\ \A g \in Groups : Holding(op[g]) \/ op[g].at \in BcdSteps => ~op[g].here
       /\ owned /\ Whole => op["import"].old

\* The dispatcher of any package, and the image of a native ISO.
SoundInv ==
  Whole /\ ~Away =>
    /\ root.script.kind = "dispatcher" =>
         root.fallback.kind = "managed" /\ root.layout # "native"
    /\ root.script.kind = "dispatcher" /\ ~root.dynamic =>
         \E g \in Groups : op[g].at = "dynamic"
    /\ root.layout = "native" /\ root.wim = NoWim =>
         \E g \in Groups : op[g].at \in Swaps /\ op[g].here
    /\ \A g \in Groups :
         /\ op[g].at \in {"fallback", "dispatcher"} => root.layout # "native"
         /\ op[g].at = "dispatcher" => root.fallback.kind = "managed"

\* The package of a medium.
KeptInv ==
  owned /\ Whole /\ ~Away =>
    /\ Manageable(root, vendor.root)
    /\ root.wim = NoWim => \E g \in Groups : op[g].at \in Swaps /\ op[g].here
    /\ root.bcd = NoBcd => "bcd" \in lost.root
    /\ \A g \in Groups : Fits(op[g], root, vendor.root)

PackageInv == CarriedInv /\ PlacingInv /\ SoundInv /\ KeptInv

LEMMA InitialPackage == Init => PackageInv
<1> SUFFICES ASSUME Init PROVE PackageInv
  OBVIOUS
<1>1. Sound(root) /\ Sound(Absent)
  BY ScenariosAssumption DEF Init, Sound, Absent, NoScript
<1>2. /\ \A g \in Groups : op[g].at = "idle"
      /\ copy = Absent /\ owned = FALSE /\ "import" \in Groups
  BY DEF Init, NoOp, Groups
<1>3. CarriedInv
  BY <1>1, <1>2 DEF CarriedInv, Absent
<1>4. PlacingInv
  BY <1>1, <1>2 DEF PlacingInv, Sound, Blank, Absent, NoScript, Holding
<1>5. SoundInv
  BY <1>1, <1>2 DEF SoundInv, Sound
<1>6. KeptInv
  BY <1>2 DEF KeptInv
<1>7. QED
  BY <1>3, <1>4, <1>5, <1>6 DEF PackageInv

-----------------------------------------------------------------------------
(* What a step does to the commands. *)

Others(g) == \A h \in Groups \ {g} : op'[h] = op[h]

\* The command goes on to its next step.
Moves(g, step) ==
  /\ op'[g].at = step /\ op'[g].alone = op[g].alone /\ op'[g].session = op[g].session
  /\ op'[g].image = op[g].image /\ op'[g].here = op[g].here /\ op'[g].script = op[g].script
  /\ op'[g].bcd = op[g].bcd /\ op'[g].ready = op[g].ready
  /\ Others(g)

Ends(g) == op'[g] = NoOp /\ Others(g)

LEMMA GotoMoves ==
  ASSUME TypesInv, NEW g \in Groups, NEW step, Goto(g, step)
  PROVE  Moves(g, step)
BY DEF Goto, Moves, Others, TypesInv, Commands

LEMMA EndsCommand ==
  ASSUME TypesInv, NEW g \in Groups, Finish(g) \/ Fail(g)
  PROVE  Ends(g)
BY DEF Finish, Fail, Ends, Others, TypesInv

\* All of a command but whether another overlaps it.
Stays(h) ==
  /\ op'[h].at = op[h].at /\ op'[h].image = op[h].image /\ op'[h].here = op[h].here
  /\ op'[h].script = op[h].script /\ op'[h].bcd = op[h].bcd
  /\ op'[h].package = op[h].package /\ op'[h].media = op[h].media
  /\ op'[h].vendor = op[h].vendor /\ op'[h].old = op[h].old

LEMMA BeginStays ==
  ASSUME TypesInv, NEW g \in Groups, NEW new \in Commands, Begin(g, new)
  PROVE  /\ op[g].at = "idle" /\ op'[g].at = new.at
         /\ \A h \in Groups \ {g} : Stays(h)
<1>1. /\ op'[g] = [new EXCEPT !.alone = (Idle \/ new.at = "idle")]
      /\ \A h \in Groups \ {g} : op'[h] = [op[h] EXCEPT !.alone = (op[h].at = "idle")]
      /\ op[g].at = "idle"
  BY DEF Begin
<1>2. ASSUME NEW c \in Commands, NEW b
      PROVE  LET d == [c EXCEPT !.alone = b]
             IN /\ d.at = c.at /\ d.image = c.image /\ d.here = c.here /\ d.script = c.script
                /\ d.bcd = c.bcd /\ d.package = c.package /\ d.media = c.media
                /\ d.vendor = c.vendor /\ d.old = c.old
  BY DEF Commands
<1>3. op'[g].at = new.at
  BY <1>1, <1>2
<1>4. ASSUME NEW h \in Groups \ {g} PROVE Stays(h)
  <2> DEFINE b == op[h].at = "idle"
  <2>1. op'[h] = [op[h] EXCEPT !.alone = b] /\ op[h] \in Commands
    BY <1>1 DEF TypesInv
  <2> HIDE DEF b
  <2>2. QED
    BY <1>2, <2>1 DEF Stays
<1>5. QED
  BY <1>1, <1>3, <1>4

-----------------------------------------------------------------------------
(* Steps that concern no package: they go between steps at which a command  *)
(* holds nothing of the package, or give up.                                *)

HoldingSteps == {"fallback", "dispatcher", "dynamic", "putAgent", "swapAgent", "putBootstrap",
                 "swapBootstrap", "aside", "bcd", "away", "place"}

GivesUp(g) ==
  /\ op[g].at # "place" /\ op'[g].at \notin HoldingSteps
  /\ op[g].at \in Swaps => ~op[g].here
  /\ op[g].at = "dynamic" => ~root.there

Plain ==
  /\ root'.layout = root.layout /\ root'.flavour = root.flavour /\ root'.wim = root.wim
  /\ root'.files = root.files /\ root'.bcd = root.bcd /\ root'.script = root.script
  /\ root'.fallback = root.fallback /\ root'.dynamic = root.dynamic
  /\ root.there => root'.there
  /\ lost'.root = lost.root
  /\ vendor'.root = vendor.root
  /\ UNCHANGED owned
  /\ \A h \in Groups : Stays(h) \/ GivesUp(h)

\* The copy of a directory stays as it is.
SameCopy == UNCHANGED copy /\ lost'.copy = lost.copy

LEMMA PlainStep ==
  ASSUME TypesInv, PackageInv, Plain, SameCopy
  PROVE  PackageInv'
<1>1. "import" \in Groups
  BY DEF Groups
<1>2. /\ op["import"].at = "place" => Stays("import")
      /\ op'["import"].at \in {"away", "place"} => Stays("import")
  BY <1>1 DEF Plain, GivesUp, HoldingSteps
<1>3. Away' = Away /\ Whole' = Whole /\ owned' = owned
  BY <1>1, <1>2 DEF Plain, Stays, Away, Whole
<1>4. CarriedInv'
  BY <1>1, <1>2 DEF PackageInv, CarriedInv, Plain, Stays, GivesUp, HoldingSteps, SameCopy
<1>5. PlacingInv'
  <2>1. /\ root'.there \/ Blank(root)'
        /\ \A g \in Groups : Holding(op'[g]) /\ op'[g].here => root'.there
    BY DEF PackageInv, PlacingInv, Plain, Blank, Stays, GivesUp, HoldingSteps, Holding
  <2>2. ASSUME op'["import"].at = "place"
        PROVE  /\ ~root'.files /\ root'.wim = NoWim
               /\ \A g \in Groups : Holding(op'[g]) \/ op'[g].at \in BcdSteps => ~op'[g].here
               /\ owned' /\ Whole' => op'["import"].old
    BY <1>1, <1>2, <1>3, <2>2
    DEF PackageInv, PlacingInv, Plain, Stays, GivesUp, HoldingSteps, Holding, BcdSteps
  <2>3. QED
    BY <2>1, <2>2 DEF PlacingInv
<1>6. SoundInv'
  <2> SUFFICES ASSUME Whole, ~Away
               PROVE  SoundInv'
    BY <1>3 DEF SoundInv
  <2>0. root.script.kind = "dispatcher" \/ (root.layout = "native" /\ root.wim = NoWim) => root.there
    BY DEF PackageInv, PlacingInv, Blank
  <2>1. root.script.kind = "dispatcher" /\ ~root.dynamic =>
          \E g \in Groups : op'[g].at = "dynamic"
    BY <2>0 DEF PackageInv, SoundInv, Plain, Stays, GivesUp
  <2>2. root.layout = "native" /\ root.wim = NoWim =>
          \E g \in Groups : op'[g].at \in Swaps /\ op'[g].here
    BY DEF PackageInv, SoundInv, Plain, Stays, GivesUp
  <2>3. \A g \in Groups : op'[g].at \in {"fallback", "dispatcher"} => op[g].at = op'[g].at
    BY DEF Plain, Stays, GivesUp, HoldingSteps
  <2>4. QED
    BY <2>1, <2>2, <2>3 DEF PackageInv, SoundInv, Plain
<1>7. KeptInv'
  <2> SUFFICES ASSUME owned, Whole, ~Away
               PROVE  KeptInv'
    BY <1>3 DEF KeptInv
  <2>1. Manageable(root, vendor.root)'
    BY DEF PackageInv, KeptInv, Manageable, Plain, ScriptByMarker
  <2>2. root.wim = NoWim => \E g \in Groups : op'[g].at \in Swaps /\ op'[g].here
    BY DEF PackageInv, KeptInv, Plain, Stays, GivesUp
  <2>3. ASSUME NEW g \in Groups
        PROVE  Fits(op[g], root, vendor.root)'
    <3>1. Fits(op[g], root, vendor.root)
      BY DEF PackageInv, KeptInv
    <3>2. CASE Stays(g)
      BY <3>1, <3>2 DEF Fits, Stays, Plain, ScriptByMarker, Holding
    <3>3. CASE GivesUp(g)
      BY <3>3 DEF Fits, GivesUp, HoldingSteps, Holding, BcdSteps
    <3>4. QED
      BY <3>2, <3>3 DEF Plain
  <2>4. root'.bcd = NoBcd => "bcd" \in lost'.root
    BY DEF PackageInv, KeptInv, Plain
  <2>5. QED
    BY <2>1, <2>2, <2>3, <2>4 DEF KeptInv, Plain
<1>8. QED
  BY <1>4, <1>5, <1>6, <1>7 DEF PackageInv

LEMMA PlainCommands ==
  ASSUME TypesInv, NEW g \in Groups,
         \/ \E new \in Commands : Begin(g, new) /\ new.at \notin HoldingSteps
         \/ /\ \/ \E step : Moves(g, step) /\ step \notin HoldingSteps
               \/ Ends(g)
            /\ op[g].at # "place"
            /\ op[g].at \in Swaps => ~op[g].here
            /\ op[g].at = "dynamic" => ~root.there
  PROVE  \A h \in Groups : Stays(h) \/ GivesUp(h)
<1>1. CASE \E new \in Commands : Begin(g, new) /\ new.at \notin HoldingSteps
  BY <1>1, BeginStays DEF GivesUp, Swaps
<1>2. CASE Ends(g)
  BY <1>1, <1>2 DEF Ends, Others, NoOp, Stays, GivesUp, HoldingSteps, Begin
<1>3. CASE \E step : Moves(g, step) /\ step \notin HoldingSteps
  BY <1>1, <1>3 DEF Moves, Others, Stays, GivesUp, Begin
<1>4. QED
  BY <1>1, <1>2, <1>3

\* The same package, but for what only ServesTheSession is about.
SamePackage ==
  /\ \/ root' = root
     \/ root' = [root EXCEPT !.json = 0]
     \/ \E n \in Sessions : root' = [root EXCEPT !.there = TRUE, !.json = n]
     \/ root.layout = "native" /\ \E n \in Sessions : root' = [root EXCEPT !.iso = n]
     \/ root.there /\ root' = [root EXCEPT !.mark = version]
  /\ lost'.root = lost.root
  /\ vendor'.root = vendor.root
  /\ UNCHANGED owned

LEMMA SamePackagePlain ==
  ASSUME TypesInv, SamePackage, \A h \in Groups : Stays(h) \/ GivesUp(h)
  PROVE  Plain
<1> DEFINE SameFields ==
      /\ root'.layout = root.layout /\ root'.flavour = root.flavour /\ root'.wim = root.wim
      /\ root'.files = root.files /\ root'.bcd = root.bcd /\ root'.script = root.script
      /\ root'.fallback = root.fallback /\ root'.dynamic = root.dynamic
      /\ root.there => root'.there
<1>1. SameFields
  <2>1. CASE root' = root
    BY <2>1
  <2>2. CASE root' = [root EXCEPT !.json = 0]
    BY <2>2 DEF TypesInv, AllPackages, Packages
  <2>3. ASSUME NEW n \in Sessions, root' = [root EXCEPT !.there = TRUE, !.json = n]
        PROVE  SameFields
    BY <2>3 DEF TypesInv, AllPackages, Packages
  <2>4. ASSUME NEW n \in Sessions, root' = [root EXCEPT !.iso = n]
        PROVE  SameFields
    BY <2>4 DEF TypesInv, AllPackages, Packages
  <2>5. CASE root' = [root EXCEPT !.mark = version]
    BY <2>5 DEF TypesInv, AllPackages, Packages
  <2>6. QED
    BY <2>1, <2>2, <2>3, <2>4, <2>5, Zenon DEF SamePackage
<1>2. lost'.root = lost.root /\ vendor'.root = vendor.root /\ UNCHANGED owned
  BY DEF SamePackage
<1>3. QED
  BY <1>1, <1>2, Zenon DEF Plain

LEMMA PlainControl ==
  ASSUME TypesInv, PackageInv,
         \/ StartControl \/ StopControl \/ ForgetBootstrap \/ ServerDies
         \/ \E g \in Groups : OpenSession(g)
  PROVE  Plain /\ SameCopy
<1>0. "control" \in Groups /\ 0 \in Sessions
  BY BootMediaAssumption DEF Groups, Sessions
<1>1. CASE StartControl
  <2>1. [NoOp EXCEPT !.at = "open"] \in Commands
        /\ [NoOp EXCEPT !.at = "open"].at \notin HoldingSteps
    BY NoOpType DEF Commands, Steps, HoldingSteps, NoOp
  <2>2. Begin("control", [NoOp EXCEPT !.at = "open"])
    BY <1>1 DEF StartControl
  <2>3. \A h \in Groups : Stays(h) \/ GivesUp(h)
    BY <1>0, <2>1, <2>2, PlainCommands
  <2>4. SamePackage /\ SameCopy
    BY <1>1 DEF StartControl, SamePackage, SameCopy
  <2>5. QED
    BY <2>3, <2>4, SamePackagePlain
<1>2. CASE StopControl
  <2>1. \A s \in {"forget", "idle"} :
          [NoOp EXCEPT !.at = s] \in Commands /\ [NoOp EXCEPT !.at = s].at \notin HoldingSteps
    BY NoOpType DEF Commands, Steps, HoldingSteps, NoOp
  <2>2. PICK s \in {"forget", "idle"} : Begin("control", [NoOp EXCEPT !.at = s])
    BY <1>2 DEF StopControl
  <2>3. \A h \in Groups : Stays(h) \/ GivesUp(h)
    BY <1>0, <2>1, <2>2, PlainCommands
  <2>4. SamePackage /\ SameCopy
    BY <1>2 DEF StopControl, SamePackage, SameCopy
  <2>5. QED
    BY <2>3, <2>4, SamePackagePlain
<1>3. CASE ForgetBootstrap
  <2>1. Ends("control") /\ op["control"].at = "forget"
    BY <1>0, <1>3 DEF ForgetBootstrap, Ends, Others, TypesInv
  <2>2. \A h \in Groups : Stays(h) \/ GivesUp(h)
    BY <1>0, <2>1, PlainCommands DEF Swaps
  <2>3. root' = [root EXCEPT !.json = 0]
    BY <1>3 DEF ForgetBootstrap
  <2>4. SamePackage /\ SameCopy
    BY <1>0, <1>3, <2>3 DEF ForgetBootstrap, SamePackage, SameCopy, history
  <2>5. QED
    BY <2>2, <2>3, <2>4, SamePackagePlain
<1>4. CASE ServerDies
  <2>1. \A h \in Groups : Stays(h)
    BY <1>4 DEF ServerDies, Stays
  <2>2. SamePackage /\ SameCopy
    BY <1>4 DEF ServerDies, SamePackage, SameCopy, history
  <2>3. QED
    BY <2>1, <2>2, SamePackagePlain
<1>5. ASSUME NEW g \in Groups, OpenSession(g) PROVE Plain /\ SameCopy
  <2>1. op[g].at = "open" /\ (Finish(g) \/ \E n : op' = [op EXCEPT ![g].at = "json", ![g].session = n])
    BY <1>5 DEF OpenSession
  <2>2. \A h \in Groups : Stays(h) \/ GivesUp(h)
    <3>1. CASE Finish(g)
      BY <2>1, <3>1, EndsCommand, PlainCommands DEF Swaps
    <3>2. CASE \E n : op' = [op EXCEPT ![g].at = "json", ![g].session = n]
      <4>1. op'[g].at = "json" /\ \A h \in Groups \ {g} : op'[h] = op[h]
        BY <3>2 DEF TypesInv, Commands
      <4>2. GivesUp(g) /\ \A h \in Groups \ {g} : Stays(h)
        BY <2>1, <4>1 DEF Stays, GivesUp, HoldingSteps, Swaps
      <4>3. QED
        BY <4>2
    <3>3. QED
      BY <2>1, <3>1, <3>2
  <2>3. SamePackage /\ SameCopy
    BY <1>5 DEF OpenSession, SamePackage, SameCopy
  <2>4. QED
    BY <2>2, <2>3, SamePackagePlain
<1>6. QED
  BY <1>1, <1>2, <1>3, <1>4, <1>5

\* Steps of a start of PXE that write no file of the package but the script of
\* a native ISO.
ScriptOfIso ==
  /\ root.layout = "native" /\ lost' = lost /\ UNCHANGED <<copy, owned, vendor>>
  /\ \E x \in {Placeholder, Sanboot} : root' = [root EXCEPT !.script = x]
  /\ \A h \in Groups : Stays(h) \/ GivesUp(h)

LEMMA ScriptOfIsoStep ==
  ASSUME TypesInv, PackageInv, ScriptOfIso
  PROVE  PackageInv'
<1>1. /\ "import" \in Groups
      /\ op["import"].at = "place" => Stays("import")
      /\ op'["import"].at \in {"away", "place"} => Stays("import")
  BY DEF Groups, ScriptOfIso, GivesUp, HoldingSteps
<1>2. Away' = Away /\ Whole' = Whole /\ owned' = owned
  BY <1>1 DEF ScriptOfIso, Stays, Away, Whole
<1>3. /\ root'.layout = "native" /\ root'.script.kind # "dispatcher" /\ root'.wim = root.wim
      /\ root'.there = root.there /\ root'.files = root.files /\ root.there
  BY DEF ScriptOfIso, Placeholder, Sanboot, NoScript, TypesInv, AllPackages, Packages,
         PackageInv, PlacingInv, Blank
<1>4. CarriedInv'
  BY <1>1 DEF PackageInv, CarriedInv, ScriptOfIso, Stays, GivesUp, HoldingSteps
<1>5. PlacingInv'
  BY <1>1, <1>2, <1>3
  DEF PackageInv, PlacingInv, ScriptOfIso, Stays, GivesUp, HoldingSteps, Holding, BcdSteps
<1>6. SoundInv'
  BY <1>2, <1>3 DEF PackageInv, SoundInv, ScriptOfIso, Stays, GivesUp, HoldingSteps
<1>7. ~(owned /\ Whole /\ ~Away)
  BY DEF PackageInv, KeptInv, Manageable, ScriptOfIso
<1>8. QED
  BY <1>2, <1>4, <1>5, <1>6, <1>7 DEF PackageInv, KeptInv

LEMMA PlainPxe ==
  ASSUME TypesInv, PackageInv,
         \/ StartPxe \/ AskControl \/ Listen \/ StopPxe
         \/ EnsureNetworkBoot /\ op'["pxe"].at # "aside"
  PROVE  (Plain /\ SameCopy) \/ ScriptOfIso
<1>0. "pxe" \in Groups
  BY DEF Groups
<1>1. CASE StartPxe
  <2>1. [NoOp EXCEPT !.at = "ensure"] \in Commands
        /\ [NoOp EXCEPT !.at = "ensure"].at \notin HoldingSteps
    BY NoOpType DEF Commands, Steps, HoldingSteps, NoOp
  <2>2. Begin("pxe", [NoOp EXCEPT !.at = "ensure"])
    BY <1>1 DEF StartPxe
  <2>3. \A h \in Groups : Stays(h) \/ GivesUp(h)
    BY <1>0, <2>1, <2>2, PlainCommands
  <2>4. SamePackage /\ SameCopy
    BY <1>1 DEF StartPxe, SamePackage, SameCopy
  <2>5. QED
    BY <2>3, <2>4, SamePackagePlain
<1>2. CASE AskControl
  <2>1. op["pxe"].at = "ask" /\ op'["pxe"].at \in {"json", "open"} /\ Others("pxe")
    BY <1>0, <1>2 DEF AskControl, Others, TypesInv, Commands
  <2>2. \A h \in Groups : Stays(h) \/ GivesUp(h)
    BY <2>1 DEF Others, Stays, GivesUp, HoldingSteps, Swaps
  <2>3. SamePackage /\ SameCopy
    BY <1>2 DEF AskControl, SamePackage, SameCopy, history
  <2>4. QED
    BY <2>2, <2>3, SamePackagePlain
<1>3. CASE Listen
  <2>1. op["pxe"].at = "listen" /\ Ends("pxe")
    BY <1>0, <1>3, EndsCommand DEF Listen
  <2>2. \A h \in Groups : Stays(h) \/ GivesUp(h)
    BY <1>0, <2>1, PlainCommands DEF Swaps
  <2>3. CASE root.layout = "native" /\ root' = [root EXCEPT !.script = Sanboot]
    BY <1>3, <2>2, <2>3 DEF Listen, ScriptOfIso
  <2>4. CASE ~(root.layout = "native" /\ root' = [root EXCEPT !.script = Sanboot])
    <3>1. root' = root \/ root' = [root EXCEPT !.script = root.script]
      BY <1>3, <2>4 DEF Listen
    <3>2. root' = root
      BY <3>1 DEF TypesInv, AllPackages, Packages
    <3>3. SamePackage /\ SameCopy
      BY <1>3, <3>2 DEF Listen, SamePackage, SameCopy
    <3>4. QED
      BY <2>2, <3>3, SamePackagePlain
  <2>5. QED
    BY <2>3, <2>4
<1>4. CASE StopPxe
  <2>1. \A h \in Groups : Stays(h)
    BY <1>4 DEF StopPxe, Stays
  <2>2. SamePackage /\ SameCopy
    BY <1>4 DEF StopPxe, SamePackage, SameCopy, history
  <2>3. QED
    BY <2>1, <2>2, SamePackagePlain
<1>5. CASE EnsureNetworkBoot /\ op'["pxe"].at # "aside"
  <2>1. op["pxe"].at = "ensure" /\ (Finish("pxe") \/ Goto("pxe", "ask"))
    <3>1. CASE op' = [op EXCEPT !["pxe"].at = "aside",
                                !["pxe"].active = HasControlDispatcher(root),
                                !["pxe"].bcd = BcdByMarker(root), !["pxe"].here = TRUE]
      BY <1>0, <1>5, <3>1 DEF TypesInv, Commands
    <3>2. QED
      BY <1>5, <3>1 DEF EnsureNetworkBoot
  <2>2. \A h \in Groups : Stays(h) \/ GivesUp(h)
    <3>1. Ends("pxe") \/ Moves("pxe", "ask")
      BY <1>0, <2>1, EndsCommand, GotoMoves
    <3>2. QED
      BY <1>0, <2>1, <3>1, PlainCommands DEF Swaps, HoldingSteps
  <2>3. CASE root.layout = "native"
    BY <1>5, <2>2, <2>3 DEF EnsureNetworkBoot, ScriptOfIso
  <2>4. CASE root.layout # "native"
    <3>1. SamePackage /\ SameCopy
      BY <1>5, <2>4 DEF EnsureNetworkBoot, SamePackage, SameCopy
    <3>2. QED
      BY <2>2, <3>1, SamePackagePlain
  <2>5. QED
    BY <2>3, <2>4
<1>6. QED
  BY <1>1, <1>2, <1>3, <1>4, <1>5

LEMMA PlainSync ==
  ASSUME TypesInv, PackageInv, NEW g \in Groups,
         WriteBootstrap(g) \/ WriteDigests(g) \/ RefreshIso(g) \/ FinishSync(g)
  PROVE  Plain /\ SameCopy
<1>0. op[g].session \in Sessions
  BY DEF TypesInv, Commands
<1>1. CASE WriteBootstrap(g)
  <2>1. /\ op[g].at = "json"
        /\ Moves(g, "agent") \/ Moves(g, "script")
    BY <1>1, GotoMoves DEF WriteBootstrap
  <2>2. \A h \in Groups : Stays(h) \/ GivesUp(h)
    BY <2>1, PlainCommands DEF Swaps, HoldingSteps
  <2>3. SamePackage /\ SameCopy
    BY <1>0, <1>1 DEF WriteBootstrap, SamePackage, SameCopy, history
  <2>4. QED
    BY <2>2, <2>3, SamePackagePlain
<1>2. CASE WriteDigests(g)
  <2>1. op[g].at = "mark" /\ (Ends(g) \/ Moves(g, "bootstrap"))
    BY <1>2, GotoMoves, EndsCommand DEF WriteDigests
  <2>2. \A h \in Groups : Stays(h) \/ GivesUp(h)
    BY <2>1, PlainCommands DEF Swaps, HoldingSteps
  <2>3. SamePackage /\ SameCopy
    BY <1>2 DEF WriteDigests, SamePackage, SameCopy
  <2>4. QED
    BY <2>2, <2>3, SamePackagePlain
<1>3. CASE RefreshIso(g)
  <2>1. op[g].at = "iso" /\ (Ends(g) \/ Moves(g, "script"))
    BY <1>3, GotoMoves, EndsCommand DEF RefreshIso
  <2>2. \A h \in Groups : Stays(h) \/ GivesUp(h)
    BY <2>1, PlainCommands DEF Swaps, HoldingSteps
  <2>3. SamePackage /\ SameCopy
    BY <1>0, <1>3 DEF RefreshIso, SamePackage, SameCopy
  <2>4. QED
    BY <2>2, <2>3, SamePackagePlain
<1>4. CASE FinishSync(g)
  <2>1. op[g].at = "finish" /\ (Ends(g) \/ Moves(g, "listen"))
    <3>1. CASE op' = [op EXCEPT ![g] = NoOp]
      BY <1>4, <3>1 DEF FinishSync, Ends, Others, TypesInv
    <3>2. QED
      BY <1>4, <3>1, GotoMoves, EndsCommand DEF FinishSync
  <2>2. \A h \in Groups : Stays(h) \/ GivesUp(h)
    BY <2>1, PlainCommands DEF Swaps, HoldingSteps
  <2>3. SamePackage /\ SameCopy
    BY <1>4 DEF FinishSync, SamePackage, SameCopy
  <2>4. QED
    BY <2>2, <2>3, SamePackagePlain
<1>5. QED
  BY <1>1, <1>2, <1>3, <1>4

-----------------------------------------------------------------------------
(* The refresh of a start of PXE. *)

LEMMA EnsureEffect ==
  ASSUME TypesInv, EnsureNetworkBoot, op'["pxe"].at = "aside"
  PROVE  /\ op["pxe"].at = "ensure" /\ IsManaged(root) /\ root.wim.loader # "none"
         /\ root.layout # "native"
         /\ op'["pxe"].bcd = BcdByMarker(root) /\ op'["pxe"].here = TRUE
         /\ op'["pxe"].alone = op["pxe"].alone
         /\ Others("pxe")
         /\ UNCHANGED <<host, version, root, copy, control, pxe, vendor, lost, owned, disturbed>>
<1>0. "pxe" \in Groups
  BY DEF Groups
<1>1. ~Finish("pxe") /\ ~Goto("pxe", "ask")
  BY <1>0 DEF Finish, Goto, NoOp, TypesInv, Commands
<1>2. /\ op["pxe"].at = "ensure" /\ IsManaged(root) /\ root.wim.loader # "none"
      /\ root.layout # "native"
      /\ op' = [op EXCEPT !["pxe"].at = "aside",
                          !["pxe"].active = HasControlDispatcher(root),
                          !["pxe"].bcd = BcdByMarker(root), !["pxe"].here = TRUE]
      /\ UNCHANGED <<host, version, root, copy, control, pxe, vendor, lost, owned, disturbed>>
  BY <1>1 DEF EnsureNetworkBoot
<1>3. /\ op'["pxe"].bcd = BcdByMarker(root) /\ op'["pxe"].here = TRUE
      /\ op'["pxe"].alone = op["pxe"].alone /\ Others("pxe")
  BY <1>0, <1>2 DEF Others, TypesInv, Commands
<1>4. QED
  BY <1>2, <1>3

\* A refresh that goes on has the root it began with.
LEMMA RefreshEffect ==
  ASSUME TypesInv, NEW step, NEW next, NEW new, NEW gone, Refresh(step, next, new, gone)
  PROVE  /\ op["pxe"].at = step
         /\ UNCHANGED <<host, version, copy, control, pxe, vendor, owned>>
         /\ lost'.copy = lost.copy
         /\ disturbed' = disturbed
         /\ \/ /\ Ends("pxe") /\ root' = root /\ lost'.root = lost.root
               /\ step \in {"aside", "bcd"} => ~root.there \/ ~op["pxe"].here
            \/ /\ Moves("pxe", next) /\ root' = new /\ lost'.root = gone
               /\ root.there
               /\ step \in {"aside", "bcd"} => op["pxe"].here
<1>0. "pxe" \in Groups
  BY DEF Groups
<1>1. CASE ~root.there \/ (step \in {"aside", "bcd"} /\ ~op["pxe"].here)
  BY <1>0, <1>1, EndsCommand DEF Refresh, Finish
<1>2. CASE ~(~root.there \/ (step \in {"aside", "bcd"} /\ ~op["pxe"].here))
  <2>1. /\ root.there /\ (step \in {"aside", "bcd"} => op["pxe"].here)
        /\ root' = new /\ lost' = [lost EXCEPT !.root = gone]
        /\ Goto("pxe", next) /\ disturbed' = disturbed
    BY <1>2 DEF Refresh
  <2>2. lost'.root = gone /\ lost'.copy = lost.copy
    BY <2>1 DEF TypesInv
  <2>3. QED
    BY <1>0, <2>1, <2>2, GotoMoves DEF Refresh
<1>3. QED
  BY <1>1, <1>2

\* A step of PXE that changes the package the refresh is about.
RefreshesPackage ==
  SetBcdAside \/ PutBcd \/ WriteLoaders \/ MarkManaged

LEMMA EnsurePackage ==
  ASSUME TypesInv, PackageInv, EnsureNetworkBoot, op'["pxe"].at = "aside"
  PROVE  PackageInv'
<1>1. /\ op["pxe"].at = "ensure" /\ op'["pxe"].bcd = BcdByMarker(root)
      /\ \A h \in Groups \ {"pxe"} : op'[h] = op[h]
      /\ root.files /\ root.wim # NoWim
      /\ UNCHANGED <<root, copy, vendor, lost, owned>>
      /\ "import" \in Groups \ {"pxe"} /\ "pxe" \in Groups
  BY EnsureEffect DEF Others, IsManaged, Groups
<1>2. CarriedInv'
  BY <1>1 DEF PackageInv, CarriedInv
<1>3. PlacingInv'
  BY <1>1 DEF PackageInv, PlacingInv, Holding
<1>4. Whole' = Whole /\ Away' = Away
  BY <1>1 DEF Whole, Away
<1>5. SoundInv'
  BY <1>1, <1>4 DEF PackageInv, SoundInv, Swaps
<1>6. KeptInv'
  <2> SUFFICES ASSUME owned, Whole, ~Away
               PROVE  KeptInv'
    BY <1>1, <1>4 DEF KeptInv
  <2>1. op'["pxe"].bcd = [policy |-> PolicyByFlavour(root.flavour), loader |-> vendor.root.loader]
    BY <1>1 DEF BcdByMarker, PolicyByFlavour, PackageInv, KeptInv, Manageable
  <2>2. \A g \in Groups : Fits(op[g], root, vendor.root)'
    BY <1>1, <2>1 DEF PackageInv, KeptInv, Fits, Holding
  <2>3. QED
    BY <1>1, <2>2 DEF PackageInv, KeptInv, Swaps
<1>7. QED
  BY <1>2, <1>3, <1>5, <1>6 DEF PackageInv

LEMMA RefreshPackage ==
  ASSUME TypesInv, PackageInv, RefreshesPackage
  PROVE  PackageInv'
<1>0. /\ "pxe" \in Groups /\ "import" \in Groups \ {"pxe"} /\ root \in AllPackages
      /\ lost.root \in SUBSET Losses
  BY DEF Groups, TypesInv
<1> DEFINE Given(step) ==
      /\ op["pxe"].at = step
      /\ UNCHANGED <<host, version, copy, control, pxe, vendor, owned>>
      /\ lost'.copy = lost.copy
<1> DEFINE Goes(step, next, new, gone) ==
      /\ Given(step)
      /\ Moves("pxe", next) /\ root' = new /\ lost'.root = gone /\ root.there
      /\ step \in {"aside", "bcd"} => op["pxe"].here
<1>1. ASSUME NEW step \in {"aside", "bcd", "loaders", "marker"},
             Given(step), Ends("pxe"), root' = root, lost'.root = lost.root
      PROVE  PackageInv'
  <2>1. \A h \in Groups : Stays(h) \/ GivesUp(h)
    BY <1>0, <1>1, PlainCommands DEF Swaps
  <2>2. SamePackage /\ SameCopy
    BY <1>1 DEF SamePackage, SameCopy
  <2>3. QED
    BY <2>1, <2>2, SamePackagePlain, PlainStep
<1>2. ASSUME NEW step \in {"aside", "bcd", "loaders", "marker"},
             NEW next \in {"bcd", "loaders", "marker", "ask"},
             NEW new, NEW gone, Goes(step, next, new, gone),
             new.there, new.wim = root.wim, new.files = root.files,
             new.layout \in {root.layout, "managed"}, new.flavour = root.flavour,
             new.dynamic = root.dynamic,
             new.fallback = root.fallback \/ new.fallback = ScriptByMarker(root),
             new.script = root.script \/ new.script = ScriptByMarker(root),
             next = "bcd" => step = "aside",
             gone \subseteq {"bcd"} <=> lost.root \subseteq {"bcd"},
             \/ new.bcd = root.bcd /\ gone = lost.root
             \/ new.bcd = NoBcd /\ "bcd" \in gone
             \/ new.bcd = op["pxe"].bcd /\ step = "bcd"
      PROVE  PackageInv'
  <2>1. /\ op'["pxe"].at = next /\ op'["pxe"].here = op["pxe"].here
        /\ op'["pxe"].bcd = op["pxe"].bcd
        /\ op["pxe"].at \notin Swaps \cup {"dynamic"}
        /\ \A h \in Groups \ {"pxe"} : op'[h] = op[h]
        /\ UNCHANGED <<copy, vendor, owned>> /\ lost'.copy = lost.copy
        /\ root' = new /\ lost'.root = gone /\ root.there
    BY <1>2 DEF Moves, Others, Swaps
  <2>2. Whole' = Whole /\ Away' = Away
    BY <1>0, <1>2, <2>1 DEF Whole, Away
  <2>3. CarriedInv'
    BY <1>0, <2>1 DEF PackageInv, CarriedInv
  <2>4. PlacingInv'
    BY <1>0, <1>2, <2>1, <2>2 DEF PackageInv, PlacingInv, Holding, BcdSteps
  <2>5. ScriptByMarker(root).kind = "managed"
    BY DEF ScriptByMarker, ManagedScript, NoScript
  <2>6. SoundInv'
    <3> SUFFICES ASSUME Whole, ~Away
                 PROVE  SoundInv'
      BY <2>2 DEF SoundInv
    <3>1. new.script.kind = "dispatcher" =>
            /\ root.script.kind = "dispatcher" /\ new.fallback.kind = "managed"
            /\ new.layout # "native"
      BY <1>2, <2>5 DEF PackageInv, SoundInv
    <3>2. root.script.kind = "dispatcher" /\ ~root.dynamic =>
            \E g \in Groups : op'[g].at = "dynamic"
      BY <2>1 DEF PackageInv, SoundInv
    <3>3. root.layout = "native" /\ root.wim = NoWim =>
            \E g \in Groups : op'[g].at \in Swaps /\ op'[g].here
      BY <2>1 DEF PackageInv, SoundInv, Swaps
    <3>4. \A g \in Groups : op'[g].at \in {"fallback", "dispatcher"} =>
            op[g].at = op'[g].at
      BY <1>2, <2>1
    <3>5. QED
      BY <1>2, <2>1, <2>5, <3>1, <3>2, <3>3, <3>4 DEF PackageInv, SoundInv
  <2>7. KeptInv'
    <3> SUFFICES ASSUME owned, Whole, ~Away
                 PROVE  KeptInv'
      BY <2>1, <2>2 DEF KeptInv
    <3>1. ScriptByMarker(new) = ScriptByMarker(root)
      BY <1>2 DEF ScriptByMarker
    <3>2. step = "bcd" =>
            op["pxe"].bcd = [policy |-> PolicyByFlavour(root.flavour), loader |-> vendor.root.loader]
      BY <1>0, <1>2 DEF PackageInv, KeptInv, Fits, BcdSteps
    <3>3. Manageable(root, vendor.root)
      BY DEF PackageInv, KeptInv
    <3>4. Manageable(new, vendor.root)
      BY <1>2, <3>1, <3>2, <3>3 DEF Manageable
    <3>5. root.wim = NoWim => \E g \in Groups : op'[g].at \in Swaps /\ op'[g].here
      BY <2>1 DEF PackageInv, KeptInv, Swaps
    <3>6. new.bcd = NoBcd => "bcd" \in gone
      BY <1>2, <3>2 DEF PackageInv, KeptInv, NoBcd, PolicyByFlavour
    <3>7. ASSUME NEW g \in Groups
          PROVE  Fits(op'[g], new, vendor.root)
      <4>1. Fits(op[g], root, vendor.root)
        BY DEF PackageInv, KeptInv
      <4>2. CASE g = "pxe"
        BY <1>2, <2>1, <4>1, <4>2 DEF Fits, Holding, BcdSteps
      <4>3. CASE g # "pxe"
        BY <1>2, <2>1, <3>1, <4>1, <4>3 DEF Fits
      <4>4. QED
        BY <4>2, <4>3
    <3>8. QED
      BY <1>2, <2>1, <3>4, <3>5, <3>6, <3>7 DEF KeptInv
  <2>8. QED
    BY <2>3, <2>4, <2>6, <2>7 DEF PackageInv
<1>3. CASE SetBcdAside
  <2> DEFINE new == [root EXCEPT !.bcd = NoBcd]
  <2>1. /\ new.there = root.there /\ new.wim = root.wim /\ new.files = root.files
        /\ new.layout = root.layout /\ new.flavour = root.flavour
        /\ new.dynamic = root.dynamic /\ new.fallback = root.fallback
        /\ new.script = root.script /\ new.bcd = NoBcd
    BY <1>0 DEF AllPackages, Packages
  <2>2. Refresh("aside", "bcd", new, lost.root \cup {"bcd"})
    BY <1>3 DEF SetBcdAside
  <2> HIDE DEF new
  <2>3. \/ Given("aside") /\ Ends("pxe") /\ root' = root /\ lost'.root = lost.root
        \/ Goes("aside", "bcd", new, lost.root \cup {"bcd"})
    BY <2>2, RefreshEffect
  <2> HIDE DEF Given, Goes
  <2>4. CASE Goes("aside", "bcd", new, lost.root \cup {"bcd"})
    <3>1. root.there
      BY <2>4 DEF Goes
    <3>2. QED
      BY <1>2, <2>1, <2>4, <3>1
  <2>5. QED
    BY <1>1, <2>3, <2>4
<1>4. CASE PutBcd
  <2> DEFINE new == [root EXCEPT !.bcd = op["pxe"].bcd]
  <2>1. /\ new.there = root.there /\ new.wim = root.wim /\ new.files = root.files
        /\ new.layout = root.layout /\ new.flavour = root.flavour
        /\ new.dynamic = root.dynamic /\ new.fallback = root.fallback
        /\ new.script = root.script /\ new.bcd = op["pxe"].bcd
    BY <1>0 DEF AllPackages, Packages
  <2>2. Refresh("bcd", "loaders", new, lost.root \ {"bcd"})
    BY <1>4 DEF PutBcd
  <2> HIDE DEF new
  <2>3. \/ Given("bcd") /\ Ends("pxe") /\ root' = root /\ lost'.root = lost.root
        \/ Goes("bcd", "loaders", new, lost.root \ {"bcd"})
    BY <2>2, RefreshEffect
  <2> HIDE DEF Given, Goes
  <2>4. CASE Goes("bcd", "loaders", new, lost.root \ {"bcd"})
    <3>1. root.there
      BY <2>4 DEF Goes
    <3>2. QED
      BY <1>2, <2>1, <2>4, <3>1
  <2>5. QED
    BY <1>1, <2>3, <2>4
<1>5. CASE WriteLoaders
  <2> DEFINE new == IF op["pxe"].active THEN [root EXCEPT !.fallback = ScriptByMarker(root)]
                                        ELSE [root EXCEPT !.script = ScriptByMarker(root)]
  <2>1. /\ new.there = root.there /\ new.wim = root.wim /\ new.files = root.files
        /\ new.layout = root.layout /\ new.flavour = root.flavour
        /\ new.dynamic = root.dynamic /\ new.bcd = root.bcd
        /\ new.fallback = root.fallback \/ new.fallback = ScriptByMarker(root)
        /\ new.script = root.script \/ new.script = ScriptByMarker(root)
    BY <1>0 DEF AllPackages, Packages
  <2>2. Refresh("loaders", "marker", new, lost.root)
    BY <1>5 DEF WriteLoaders
  <2> HIDE DEF new
  <2>3. \/ Given("loaders") /\ Ends("pxe") /\ root' = root /\ lost'.root = lost.root
        \/ Goes("loaders", "marker", new, lost.root)
    BY <2>2, RefreshEffect
  <2> HIDE DEF Given, Goes
  <2>4. CASE Goes("loaders", "marker", new, lost.root)
    <3>1. root.there
      BY <2>4 DEF Goes
    <3>2. QED
      BY <1>2, <2>1, <2>4, <3>1
  <2>5. QED
    BY <1>1, <2>3, <2>4
<1>6. CASE MarkManaged
  <2> DEFINE new == [root EXCEPT !.layout = "managed"]
  <2>1. /\ new.there = root.there /\ new.wim = root.wim /\ new.files = root.files
        /\ new.layout = "managed" /\ new.flavour = root.flavour
        /\ new.dynamic = root.dynamic /\ new.fallback = root.fallback
        /\ new.script = root.script /\ new.bcd = root.bcd
    BY <1>0 DEF AllPackages, Packages
  <2>2. Refresh("marker", "ask", new, lost.root)
    BY <1>6 DEF MarkManaged
  <2> HIDE DEF new
  <2>3. \/ Given("marker") /\ Ends("pxe") /\ root' = root /\ lost'.root = lost.root
        \/ Goes("marker", "ask", new, lost.root)
    BY <2>2, RefreshEffect
  <2> HIDE DEF Given, Goes
  <2>4. CASE Goes("marker", "ask", new, lost.root)
    <3>1. root.there
      BY <2>4 DEF Goes
    <3>2. QED
      BY <1>2, <2>1, <2>4, <3>1
  <2>5. QED
    BY <1>1, <2>3, <2>4
<1>7. QED
  BY <1>3, <1>4, <1>5, <1>6 DEF RefreshesPackage

-----------------------------------------------------------------------------
(* An injection: the image is mounted, and the copy takes its place. *)

\* What an image that is mounted is, and whose.
Mounts(g, i, next) ==
  /\ op[g].at \in {"agent", "bootstrap"} /\ root.wim # NoWim
  /\ op'[g].at = next /\ op'[g].image = i /\ op'[g].here = TRUE
  /\ op'[g].alone = op[g].alone /\ op'[g].session = op[g].session
  /\ Others(g)
  /\ i # NoWim /\ i.loader = root.wim.loader
  /\ UNCHANGED <<host, version, root, copy, control, pxe, vendor, lost, owned, disturbed>>

LEMMA MountMoves ==
  ASSUME TypesInv, NEW g \in Groups, op[g].at \in {"agent", "bootstrap"},
         NEW images, NEW next, Mount(g, images, next),
         \A i \in images : i # NoWim /\ i.loader = root.wim.loader
  PROVE  /\ UNCHANGED <<host, version, root, copy, control, pxe, vendor, lost, owned>>
         /\ \/ Ends(g) /\ disturbed' = TRUE
            \/ \E i \in images : Mounts(g, i, next)
<1>1. UNCHANGED <<host, version, root, copy, control, pxe, vendor, lost, owned>>
  BY DEF Mount
<1>2. CASE Fail(g)
  BY <1>1, <1>2, EndsCommand DEF Fail
<1>3. CASE ~Fail(g)
  <2>1. PICK i \in images : op' = [op EXCEPT ![g].at = next, ![g].image = i, ![g].here = TRUE]
    BY <1>3 DEF Mount
  <2>2. /\ op'[g].at = next /\ op'[g].image = i /\ op'[g].here = TRUE
        /\ op'[g].alone = op[g].alone /\ op'[g].session = op[g].session
        /\ Others(g)
    BY <2>1 DEF TypesInv, Commands, Others
  <2>3. root.wim # NoWim /\ disturbed' = disturbed
    BY <1>3 DEF Mount, CanMount
  <2>4. QED
    BY <1>1, <2>1, <2>2, <2>3 DEF Mounts
<1>4. QED
  BY <1>2, <1>3

LEMMA MountAgentMoves ==
  ASSUME TypesInv, NEW g \in Groups, MountForAgent(g)
  PROVE  /\ op[g].at = "agent"
         /\ UNCHANGED <<host, version, root, copy, control, pxe, vendor, lost, owned>>
         /\ \/ Ends(g) /\ disturbed' = TRUE
            \/ \E i \in InjectAgent(host, root.wim, version) : Mounts(g, i, "putAgent")
            \/ /\ root.wim # NoWim /\ root.mark = version /\ Moves(g, "bootstrap")
               /\ disturbed' = disturbed
<1>0. op[g].at = "agent" /\ version \in Versions
  BY DEF MountForAgent, TypesInv
<1>1. CASE root.wim # NoWim /\ root.mark = version
  BY <1>0, <1>1, GotoMoves DEF MountForAgent, history
<1>2. CASE ~(root.wim # NoWim /\ root.mark = version)
  <2> DEFINE images == IF root.wim = NoWim THEN {} ELSE InjectAgent(host, root.wim, version)
  <2>1. Mount(g, images, "putAgent")
    BY <1>2 DEF MountForAgent
  <2>2. \A i \in images : /\ i # NoWim /\ i.loader = root.wim.loader
                          /\ i \in InjectAgent(host, root.wim, version)
    BY <1>0, RootImage, InjectedImages
  <2> HIDE DEF images
  <2>3. QED
    BY <1>0, <2>1, <2>2, MountMoves
<1>3. QED
  BY <1>1, <1>2

LEMMA MountBootstrapMoves ==
  ASSUME TypesInv, NEW g \in Groups, MountForBootstrap(g)
  PROVE  /\ op[g].at = "bootstrap"
         /\ UNCHANGED <<host, version, root, copy, control, pxe, vendor, lost, owned>>
         /\ \/ Ends(g) /\ disturbed' = TRUE
            \/ Mounts(g, InjectBootstrap(root.wim, op[g].session), "putBootstrap")
<1> DEFINE new == InjectBootstrap(root.wim, op[g].session)
           images == IF root.wim = NoWim THEN {} ELSE {new}
<1>1. op[g].at = "bootstrap" /\ Mount(g, images, "putBootstrap") /\ op[g].session \in Sessions
  BY DEF MountForBootstrap, TypesInv, Commands
<1>2. root.wim # NoWim => new # NoWim /\ new.loader = root.wim.loader
  <2> SUFFICES ASSUME root.wim # NoWim PROVE new # NoWim /\ new.loader = root.wim.loader
    OBVIOUS
  <2>1. root.wim \in Images /\ new \in Images
    BY <1>1, RootImage
  <2>2. QED
    BY <2>1, NoWimIsNoImage DEF InjectBootstrap, Images, WinpeImages
<1>3. \A i \in images : i # NoWim /\ i.loader = root.wim.loader /\ i = new
  BY <1>2
<1> HIDE DEF images, new
<1>4. /\ UNCHANGED <<host, version, root, copy, control, pxe, vendor, lost, owned>>
      /\ \/ Ends(g) /\ disturbed' = TRUE
         \/ \E i \in images : Mounts(g, i, "putBootstrap")
  BY <1>1, <1>3, MountMoves
<1>5. QED
  BY <1>1, <1>3, <1>4 DEF new

LEMMA MountPackage ==
  ASSUME TypesInv, PackageInv, NEW g \in Groups, MountForAgent(g) \/ MountForBootstrap(g)
  PROVE  PackageInv'
<1>1. /\ op[g].at \in {"agent", "bootstrap"}
      /\ UNCHANGED <<root, copy, vendor, lost, owned>>
      /\ \/ Ends(g) \/ Moves(g, "bootstrap")
         \/ \E i, next : Mounts(g, i, next) /\ next \in {"putAgent", "putBootstrap"}
  BY MountAgentMoves, MountBootstrapMoves
<1>2. CASE Ends(g) \/ Moves(g, "bootstrap")
  <2>1. \A h \in Groups : Stays(h) \/ GivesUp(h)
    BY <1>1, <1>2, PlainCommands DEF Swaps, HoldingSteps
  <2>2. SamePackage /\ SameCopy
    BY <1>1 DEF SamePackage, SameCopy
  <2>3. QED
    BY <2>1, <2>2, SamePackagePlain, PlainStep
<1>3. ASSUME NEW i, NEW next \in {"putAgent", "putBootstrap"}, Mounts(g, i, next)
      PROVE  PackageInv'
  <2>1. /\ op'[g].at = next /\ op'[g].image = i /\ root.wim # NoWim
        /\ i # NoWim /\ i.loader = root.wim.loader
        /\ \A h \in Groups \ {g} : op'[h] = op[h]
        /\ UNCHANGED <<root, copy, vendor, lost, owned>> /\ "import" \in Groups
    BY <1>3 DEF Mounts, Others, Groups
  <2>2. op["import"].at # "place" /\ op'["import"].at # "place" /\ root.there
    BY <1>1, <2>1 DEF PackageInv, PlacingInv, Blank
  <2>3. Whole' = Whole /\ Away' = Away
    BY <2>1, <2>2 DEF Whole, Away
  <2>4. CarriedInv'
    BY <1>1, <2>1 DEF PackageInv, CarriedInv
  <2>5. PlacingInv'
    BY <2>1, <2>2 DEF PlacingInv
  <2>6. SoundInv'
    BY <1>1, <2>1, <2>3 DEF PackageInv, SoundInv
  <2>7. KeptInv'
    <3> SUFFICES ASSUME owned, Whole, ~Away
                 PROVE  KeptInv'
      BY <2>1, <2>3 DEF KeptInv
    <3>1. Manageable(root, vendor.root) /\ \A h \in Groups : Fits(op[h], root, vendor.root)
      BY DEF PackageInv, KeptInv
    <3>2. i.loader = vendor.root.loader
      BY <2>1, <3>1 DEF Manageable
    <3>3. Fits(op'[g], root, vendor.root)
      BY <2>1, <3>2 DEF Fits, BcdSteps
    <3>4. QED
      BY <2>1, <3>1, <3>3 DEF PackageInv, KeptInv
  <2>8. QED
    BY <2>4, <2>5, <2>6, <2>7 DEF PackageInv
<1>4. QED
  BY <1>1, <1>2, <1>3

\* What the end of an injection puts into the package.
Puts(g, next) ==
  /\ Holding(op[g]) /\ op[g].here /\ Moves(g, next) /\ disturbed' = disturbed
  /\ \/ root'.wim = NoWim /\ next = (IF op[g].at = "putAgent" THEN "swapAgent" ELSE "swapBootstrap")
        /\ op[g].at \in {"putAgent", "putBootstrap"}
     \/ /\ root'.wim = op[g].image
        /\ next = IF op[g].at \in {"putAgent", "swapAgent"} THEN "mark" ELSE AfterBootstrap
  /\ root'.there = root.there /\ root'.layout = root.layout /\ root'.flavour = root.flavour
  /\ root'.files = root.files /\ root'.bcd = root.bcd /\ root'.mark = root.mark
  /\ root'.script = root.script /\ root'.fallback = root.fallback
  /\ root'.dynamic = root.dynamic /\ root'.json = root.json /\ root'.iso = root.iso

LEMMA PutMoves ==
  ASSUME TypesInv, NEW g \in Groups, PutImage(g) \/ SwapImage(g)
  PROVE  /\ Holding(op[g])
         /\ UNCHANGED <<host, version, copy, control, pxe, vendor, lost, owned>>
         /\ \/ /\ Ends(g) /\ root' = root /\ disturbed' = TRUE
               /\ op[g].at \in Swaps => ~op[g].here
            \/ \E next : Puts(g, next)
<1>0. root \in AllPackages /\ op[g] \in Commands
  BY DEF TypesInv
<1>1. UNCHANGED <<host, version, copy, control, pxe, vendor, lost, owned>> /\ Holding(op[g])
  BY DEF PutImage, SwapImage, Holding
<1>2. ASSUME NEW i, NEW r, r = [root EXCEPT !.wim = i]
      PROVE  /\ r.wim = i /\ r.there = root.there /\ r.layout = root.layout
             /\ r.flavour = root.flavour
             /\ r.files = root.files /\ r.bcd = root.bcd /\ r.mark = root.mark
             /\ r.script = root.script /\ r.fallback = root.fallback
             /\ r.dynamic = root.dynamic /\ r.json = root.json /\ r.iso = root.iso
  BY <1>0, <1>2 DEF AllPackages, Packages
<1>3. CASE PutImage(g)
  <2>1. CASE root.wim = NoWim \/ ~op[g].here
    BY <1>1, <1>3, <2>1, EndsCommand DEF PutImage, Fail, Swaps
  <2>2. CASE ~(root.wim = NoWim \/ ~op[g].here)
    <3> DEFINE image == IF host = "macos" THEN NoWim ELSE op[g].image
               next == IF host = "macos"
                       THEN IF op[g].at = "putAgent" THEN "swapAgent" ELSE "swapBootstrap"
                       ELSE IF op[g].at = "putAgent" THEN "mark" ELSE AfterBootstrap
    <3>1. root' = [root EXCEPT !.wim = image] /\ Goto(g, next) /\ disturbed' = disturbed
          /\ op[g].here = TRUE /\ op[g].at \in {"putAgent", "putBootstrap"}
      BY <1>0, <1>3, <2>2 DEF PutImage, Commands
    <3>2. Moves(g, next)
      <4> HIDE DEF next
      <4>1. QED
        BY <3>1, GotoMoves
    <3>3. /\ root'.wim = image /\ root'.there = root.there /\ root'.layout = root.layout
          /\ root'.flavour = root.flavour
          /\ root'.files = root.files /\ root'.bcd = root.bcd /\ root'.mark = root.mark
          /\ root'.script = root.script /\ root'.fallback = root.fallback
          /\ root'.dynamic = root.dynamic /\ root'.json = root.json /\ root'.iso = root.iso
      <4> HIDE DEF image
      <4>1. QED
        BY <1>2, <3>1
    <3>4. Puts(g, next)
      BY <1>1, <3>1, <3>2, <3>3 DEF Puts
    <3>5. QED
      BY <1>1, <3>4
  <2>3. QED
    BY <2>1, <2>2
<1>4. CASE SwapImage(g)
  <2>1. CASE ~op[g].here
    BY <1>1, <1>4, <2>1, EndsCommand DEF SwapImage, Fail
  <2>2. CASE op[g].here
    <3> DEFINE next == IF op[g].at = "swapAgent" THEN "mark" ELSE AfterBootstrap
    <3>1. root' = [root EXCEPT !.wim = op[g].image] /\ Goto(g, next) /\ disturbed' = disturbed
          /\ op[g].at \in {"swapAgent", "swapBootstrap"}
      BY <1>4, <2>2 DEF SwapImage
    <3>2. Moves(g, next)
      <4> HIDE DEF next
      <4>1. QED
        BY <3>1, GotoMoves
    <3>3. Puts(g, next)
      BY <1>1, <1>2, <2>2, <3>1, <3>2 DEF Puts
    <3>4. QED
      BY <1>1, <3>3
  <2>3. QED
    BY <2>1, <2>2
<1>5. QED
  BY <1>3, <1>4

LEMMA PutPackage ==
  ASSUME TypesInv, DigestsInv, PackageInv, NEW g \in Groups, PutImage(g) \/ SwapImage(g)
  PROVE  PackageInv'
<1>1. /\ Holding(op[g]) /\ UNCHANGED <<copy, vendor, lost, owned>>
      /\ \/ Ends(g) /\ root' = root /\ (op[g].at \in Swaps => ~op[g].here)
         \/ \E next : Puts(g, next)
  BY PutMoves
<1>2. CASE Ends(g) /\ root' = root /\ (op[g].at \in Swaps => ~op[g].here)
  <2>1. \A h \in Groups : Stays(h) \/ GivesUp(h)
    BY <1>1, <1>2, PlainCommands DEF Holding
  <2>2. SamePackage /\ SameCopy
    BY <1>1, <1>2 DEF SamePackage, SameCopy
  <2>3. QED
    BY <2>1, <2>2, SamePackagePlain, PlainStep
<1>3. ASSUME NEW next, Puts(g, next)
      PROVE  PackageInv'
  <2>1. /\ op[g].here /\ op'[g].at = next /\ op'[g].image = op[g].image
        /\ op'[g].here = op[g].here
        /\ \A h \in Groups \ {g} : op'[h] = op[h]
        /\ \/ root'.wim = NoWim /\ next \in Swaps
           \/ root'.wim = op[g].image /\ next \in {"mark", "iso", "script"}
        /\ root'.there = root.there /\ root'.layout = root.layout
        /\ root'.flavour = root.flavour
        /\ root'.files = root.files /\ root'.bcd = root.bcd
        /\ root'.script = root.script /\ root'.fallback = root.fallback
        /\ root'.dynamic = root.dynamic
        /\ op[g].image # NoWim /\ "import" \in Groups
    BY <1>1, <1>3 DEF Puts, Moves, Others, Swaps, AfterBootstrap, DigestsInv, Groups
  <2>2. op["import"].at # "place" /\ op'["import"].at # "place" /\ root.there
    BY <1>1, <2>1 DEF PackageInv, PlacingInv, Swaps
  <2>3. Whole' = Whole /\ Away' = Away
    BY <1>1, <2>1, <2>2 DEF Whole, Away
  <2>4. CarriedInv'
    BY <1>1, <2>1 DEF PackageInv, CarriedInv, Swaps
  <2>5. PlacingInv'
    BY <2>1, <2>2 DEF PlacingInv
  <2>6. SoundInv'
    <3> SUFFICES ASSUME Whole, ~Away
                 PROVE  SoundInv'
      BY <2>3 DEF SoundInv
    <3>1. root'.wim = NoWim => op'[g].at \in Swaps /\ op'[g].here
      BY <2>1
    <3>2. \A h \in Groups : op'[h].at \in {"fallback", "dispatcher"} => op'[h] = op[h]
      BY <2>1 DEF Swaps
    <3>3. root.script.kind = "dispatcher" /\ ~root.dynamic =>
            \E h \in Groups : op'[h].at = "dynamic"
      BY <1>1, <2>1 DEF PackageInv, SoundInv, Holding
    <3>4. QED
      BY <2>1, <3>1, <3>2, <3>3 DEF PackageInv, SoundInv
  <2>7. KeptInv'
    <3> SUFFICES ASSUME owned, Whole, ~Away
                 PROVE  KeptInv'
      BY <1>1, <2>3 DEF KeptInv
    <3>1. Manageable(root, vendor.root) /\ \A h \in Groups : Fits(op[h], root, vendor.root)
      BY DEF PackageInv, KeptInv
    <3>2. op[g].image.loader = vendor.root.loader
      BY <1>1, <2>1, <3>1 DEF Fits
    <3>3. Manageable(root', vendor.root)
      BY <2>1, <3>1, <3>2 DEF Manageable, ScriptByMarker
    <3>4. \A h \in Groups : Fits(op'[h], root', vendor.root)
      BY <2>1, <3>1, <3>2 DEF Fits, BcdSteps, Swaps, Holding, ScriptByMarker
    <3>5. root'.wim = NoWim => \E h \in Groups : op'[h].at \in Swaps /\ op'[h].here
      BY <2>1
    <3>6. root'.bcd = NoBcd => "bcd" \in lost.root
      BY <2>1 DEF PackageInv, KeptInv
    <3>7. QED
      BY <1>1, <3>3, <3>4, <3>5, <3>6 DEF KeptInv
  <2>8. QED
    BY <2>4, <2>5, <2>6, <2>7 DEF PackageInv
<1>4. QED
  BY <1>1, <1>2, <1>3

-----------------------------------------------------------------------------
(* The dispatcher: the scripts are read, and three files written. *)

LEMMA ReadScriptsMoves ==
  ASSUME TypesInv, NEW g \in Groups, ReadScripts(g)
  PROVE  /\ op[g].at = "script"
         /\ op'[g].alone = op[g].alone /\ op'[g].session = op[g].session /\ Others(g)
         /\ UNCHANGED <<host, version, root, copy, control, pxe, vendor, lost, owned, disturbed>>
         /\ \/ /\ root.layout # "native" /\ FallbackScript(root).kind = "managed"
               /\ op'[g].at = "fallback" /\ op'[g].script = FallbackScript(root)
               /\ op'[g].ready = TRUE
            \/ /\ ~(root.layout # "native" /\ FallbackScript(root).kind = "managed")
               /\ op'[g].at = "finish" /\ op'[g].ready = FALSE
<1> DEFINE mine == root.layout # "native" /\ FallbackScript(root).kind = "managed"
           next == IF mine THEN "fallback" ELSE "finish"
           kept == IF mine THEN FallbackScript(root) ELSE NoScript
<1>1. /\ op[g].at = "script"
      /\ op' = [op EXCEPT ![g].at = next, ![g].script = kept, ![g].ready = mine]
      /\ UNCHANGED <<host, version, root, copy, control, pxe, vendor, lost, owned, disturbed>>
  BY DEF ReadScripts, history
<1>2. mine \in BOOLEAN
  OBVIOUS
<1>3. /\ op'[g].at = next /\ op'[g].script = kept /\ op'[g].ready = mine
      /\ op'[g].alone = op[g].alone /\ op'[g].session = op[g].session /\ Others(g)
  <2> HIDE DEF mine, next, kept
  <2>1. QED
    BY <1>1 DEF TypesInv, Commands, Others
<1>4. QED
  BY <1>1, <1>3

LEMMA ReadPackage ==
  ASSUME TypesInv, PackageInv, NEW g \in Groups, ReadScripts(g)
  PROVE  PackageInv'
<1>1. /\ op[g].at = "script" /\ Others(g) /\ UNCHANGED <<root, copy, vendor, lost, owned>>
      /\ \/ /\ root.layout # "native" /\ FallbackScript(root).kind = "managed"
            /\ op'[g].at = "fallback" /\ op'[g].script = FallbackScript(root)
         \/ op'[g].at = "finish"
  BY ReadScriptsMoves
<1>2. CASE op'[g].at = "finish"
  <2>1. \A h \in Groups : Stays(h) \/ GivesUp(h)
    BY <1>1, <1>2 DEF Others, Stays, GivesUp, HoldingSteps, Swaps
  <2>2. SamePackage /\ SameCopy
    BY <1>1 DEF SamePackage, SameCopy
  <2>3. QED
    BY <2>1, <2>2, SamePackagePlain, PlainStep
<1>3. CASE op'[g].at # "finish"
  <2>1. /\ root.layout # "native" /\ FallbackScript(root).kind = "managed"
        /\ op'[g].at = "fallback" /\ op'[g].script = FallbackScript(root)
        /\ "import" \in Groups
        /\ \A h \in Groups \ {g} : op'[h] = op[h]
    BY <1>1, <1>3 DEF Others, Groups
  <2>2. /\ op'["import"].at \in {"away", "place"} => op'["import"] = op["import"]
        /\ op["import"].at \in {"away", "place"} => op'["import"] = op["import"]
    BY <1>1, <2>1
  <2>3. Whole' = Whole /\ Away' = Away
    BY <1>1, <2>2 DEF Whole, Away
  <2>4. CarriedInv'
    BY <1>1, <2>1, <2>2 DEF PackageInv, CarriedInv
  <2>5. PlacingInv'
    BY <1>1, <2>1, <2>2 DEF PackageInv, PlacingInv, Holding, BcdSteps, Whole
  <2>6. SoundInv'
    BY <1>1, <2>1, <2>3 DEF PackageInv, SoundInv, Swaps
  <2>7. KeptInv'
    <3> SUFFICES ASSUME owned, Whole, ~Away
                 PROVE  KeptInv'
      BY <1>1, <2>3 DEF KeptInv
    <3>1. Manageable(root, vendor.root) /\ \A h \in Groups : Fits(op[h], root, vendor.root)
      BY DEF PackageInv, KeptInv
    <3>2. FallbackScript(root) = ScriptByMarker(root)
      BY <2>1, <3>1 DEF FallbackScript, DispatcherActive, Manageable, ScriptByMarker,
                        ManagedScript, NoScript
    <3>3. Fits(op'[g], root, vendor.root)
      BY <2>1, <3>2 DEF Fits, Holding, BcdSteps
    <3>4. QED
      BY <1>1, <2>1, <3>1, <3>3 DEF PackageInv, KeptInv, Swaps
  <2>8. QED
    BY <2>4, <2>5, <2>6, <2>7 DEF PackageInv
<1>4. QED
  BY <1>2, <1>3

\* The three writes; a directory that is not there ends the command.
WritesScript(g) ==
  /\ root'.there /\ root'.layout = root.layout /\ root'.flavour = root.flavour
  /\ root'.wim = root.wim /\ root'.files = root.files /\ root'.bcd = root.bcd
  /\ root'.mark = root.mark /\ root'.json = root.json /\ root'.iso = root.iso
  /\ disturbed' = disturbed
  /\ \/ /\ op[g].at = "fallback" /\ Moves(g, "dispatcher")
        /\ root'.fallback = op[g].script
        /\ root'.script = root.script /\ root'.dynamic = root.dynamic
     \/ /\ op[g].at = "dispatcher" /\ Moves(g, "dynamic")
        /\ root'.script = Dispatcher(op[g].session)
        /\ root'.fallback = root.fallback /\ root'.dynamic = root.dynamic
     \/ /\ op[g].at = "dynamic" /\ Moves(g, "finish")
        /\ root'.dynamic = TRUE
        /\ root'.script = root.script /\ root'.fallback = root.fallback

LEMMA WriteMoves ==
  ASSUME TypesInv, NEW g \in Groups, WriteFallback(g) \/ WriteDispatcher(g) \/ MarkDynamic(g)
  PROVE  /\ op[g].at \in {"fallback", "dispatcher", "dynamic"}
         /\ UNCHANGED <<host, version, copy, control, pxe, vendor, lost, owned>>
         /\ \/ Ends(g) /\ root' = root /\ disturbed' = TRUE /\ ~root.there
            \/ WritesScript(g)
<1>0. root \in AllPackages
  BY DEF TypesInv
<1>1. CASE WriteFallback(g)
  <2>1. /\ op[g].at = "fallback" /\ Moves(g, "dispatcher")
        /\ root' = [root EXCEPT !.there = TRUE, !.fallback = op[g].script]
        /\ UNCHANGED <<host, version, copy, control, pxe, vendor, lost, owned, disturbed>>
    BY <1>1, GotoMoves DEF WriteFallback, history
  <2>2. QED
    BY <1>0, <2>1 DEF WritesScript, AllPackages, Packages
<1>2. CASE WriteDispatcher(g)
  <2>1. CASE ~root.there
    BY <1>2, <2>1, EndsCommand DEF WriteDispatcher, Fail
  <2>2. CASE root.there
    <3>1. /\ op[g].at = "dispatcher" /\ Moves(g, "dynamic")
          /\ root' = [root EXCEPT !.script = Dispatcher(op[g].session)]
          /\ UNCHANGED <<host, version, copy, control, pxe, vendor, lost, owned, disturbed>>
      BY <1>2, <2>2, GotoMoves DEF WriteDispatcher
    <3>2. QED
      BY <1>0, <2>2, <3>1 DEF WritesScript, AllPackages, Packages
  <2>3. QED
    BY <2>1, <2>2
<1>3. CASE MarkDynamic(g)
  <2>1. CASE ~root.there
    BY <1>3, <2>1, EndsCommand DEF MarkDynamic, Fail
  <2>2. CASE root.there
    <3>1. /\ op[g].at = "dynamic" /\ Moves(g, "finish")
          /\ root' = [root EXCEPT !.dynamic = TRUE]
          /\ UNCHANGED <<host, version, copy, control, pxe, vendor, lost, owned, disturbed>>
      BY <1>3, <2>2, GotoMoves DEF MarkDynamic
    <3>2. QED
      BY <1>0, <2>2, <3>1 DEF WritesScript, AllPackages, Packages
  <2>3. QED
    BY <2>1, <2>2
<1>4. QED
  BY <1>1, <1>2, <1>3

LEMMA WritePackage ==
  ASSUME TypesInv, PackageInv, NEW g \in Groups,
         WriteFallback(g) \/ WriteDispatcher(g) \/ MarkDynamic(g)
  PROVE  PackageInv'
<1>1. /\ op[g].at \in {"fallback", "dispatcher", "dynamic"}
      /\ UNCHANGED <<copy, vendor, lost, owned>>
      /\ \/ Ends(g) /\ root' = root /\ ~root.there
         \/ WritesScript(g)
  BY WriteMoves
<1>2. CASE Ends(g) /\ root' = root /\ ~root.there
  <2>1. \A h \in Groups : Stays(h) \/ GivesUp(h)
    BY <1>1, <1>2, PlainCommands DEF Swaps
  <2>2. SamePackage /\ SameCopy
    BY <1>1, <1>2 DEF SamePackage, SameCopy
  <2>3. QED
    BY <2>1, <2>2, SamePackagePlain, PlainStep
<1>3. CASE WritesScript(g)
  <2>1. /\ op'[g].at \in {"dispatcher", "dynamic", "finish"}
        /\ \A h \in Groups \ {g} : op'[h] = op[h]
        /\ "import" \in Groups
    BY <1>3 DEF WritesScript, Moves, Others, Groups
  <2>2. /\ op'["import"].at \in {"away", "place"} => op'["import"] = op["import"]
        /\ op["import"].at \in {"away", "place"} => op'["import"] = op["import"]
    BY <1>1, <2>1
  <2>3. Whole' = Whole /\ Away' = Away
    BY <1>1, <2>2 DEF Whole, Away
  <2>4. CarriedInv'
    BY <1>1, <2>1, <2>2 DEF PackageInv, CarriedInv
  <2>5. PlacingInv'
    BY <1>1, <1>3, <2>1, <2>2
    DEF PackageInv, PlacingInv, Holding, BcdSteps, Whole, WritesScript
  <2>6. op[g].at = "fallback" => op[g].script.kind = "managed"
    BY DEF PackageInv, CarriedInv
  <2>7. SoundInv'
    <3> SUFFICES ASSUME Whole, ~Away
                 PROVE  SoundInv'
      BY <2>3 DEF SoundInv
    <3>1. SoundInv /\ Whole /\ ~Away
      BY DEF PackageInv
    <3>2. root'.script.kind = "dispatcher" =>
            root'.fallback.kind = "managed" /\ root'.layout # "native"
      BY <1>3, <2>6, <3>1 DEF SoundInv, WritesScript
    <3>3. root'.script.kind = "dispatcher" /\ ~root'.dynamic =>
            \E h \in Groups : op'[h].at = "dynamic"
      BY <1>3, <2>1, <3>1 DEF SoundInv, WritesScript, Moves
    <3>4. root'.layout = "native" /\ root'.wim = NoWim =>
            \E h \in Groups : op'[h].at \in Swaps /\ op'[h].here
      BY <1>1, <1>3, <2>1, <3>1 DEF SoundInv, WritesScript, Swaps
    <3>5. ASSUME NEW h \in Groups
          PROVE  /\ op'[h].at \in {"fallback", "dispatcher"} => root'.layout # "native"
                 /\ op'[h].at = "dispatcher" => root'.fallback.kind = "managed"
      BY <1>3, <2>1, <2>6, <3>1 DEF SoundInv, WritesScript, Moves
    <3>6. QED
      BY <3>2, <3>3, <3>4, <3>5 DEF SoundInv
  <2>8. KeptInv'
    <3> SUFFICES ASSUME owned, Whole, ~Away
                 PROVE  KeptInv'
      BY <1>1, <2>3 DEF KeptInv
    <3>1. Manageable(root, vendor.root) /\ \A h \in Groups : Fits(op[h], root, vendor.root)
      BY DEF PackageInv, KeptInv
    <3>2. ScriptByMarker(root') = ScriptByMarker(root)
      BY <1>3 DEF WritesScript, ScriptByMarker
    <3>3. Manageable(root', vendor.root)
      <4>1. \/ root'.script = ScriptByMarker(root')
            \/ root'.script.kind = "dispatcher" /\ root'.fallback = ScriptByMarker(root')
        BY <1>3, <3>1, <3>2 DEF WritesScript, Manageable, Fits, Dispatcher, NoScript
      <4>2. QED
        BY <1>3, <3>1, <4>1 DEF WritesScript, Manageable
    <3>4. Fits(op'[g], root', vendor.root)
      BY <1>3, <2>1, <3>1, <3>2 DEF WritesScript, Fits, Holding, BcdSteps, Moves
    <3>5. ASSUME NEW h \in Groups \ {g} PROVE Fits(op'[h], root', vendor.root)
      <4>1. op'[h] = op[h] /\ Fits(op[h], root, vendor.root)
        BY <2>1, <3>1
      <4>2. root'.fallback = root.fallback \/ root'.fallback = ScriptByMarker(root')
        BY <1>3, <3>1, <3>2 DEF WritesScript, Fits
      <4>3. root'.flavour = root.flavour
        BY <1>3 DEF WritesScript
      <4>4. QED
        BY <3>2, <4>1, <4>2, <4>3 DEF Fits
    <3>6. root.wim = NoWim => \E h \in Groups : op'[h].at \in Swaps /\ op'[h].here
      BY <1>1, <2>1 DEF PackageInv, KeptInv, Swaps
    <3>7. QED
      BY <1>1, <1>3, <3>3, <3>4, <3>5, <3>6 DEF PackageInv, KeptInv, WritesScript
  <2>9. QED
    BY <2>4, <2>5, <2>7, <2>8 DEF PackageInv
<1>4. QED
  BY <1>1, <1>2, <1>3

-----------------------------------------------------------------------------
(* Imports. *)

\* An import that begins brings a package.
Brings(p, v, m) ==
  /\ op["import"].at = "idle" /\ op'["import"].at = "away"
  /\ op'["import"].package = p /\ op'["import"].vendor = v /\ op'["import"].media = m
  /\ \A h \in Groups \ {"import"} : Stays(h)
  /\ UNCHANGED <<root, copy, vendor, lost, owned>>

LEMMA BroughtPackage ==
  ASSUME PackageInv, NEW p, NEW v, NEW m \in BOOLEAN, Brings(p, v, m),
         p.there,
         m => Complete(p, v) /\ Sound(p),
         lost.copy \subseteq {"bcd"} => Sound(p)
  PROVE  PackageInv'
<1>1. /\ op["import"].at = "idle" /\ op'["import"].at = "away" /\ "import" \in Groups
      /\ op'["import"].package = p /\ op'["import"].vendor = v /\ op'["import"].media = m
      /\ \A h \in Groups \ {"import"} : Stays(h)
      /\ UNCHANGED <<root, copy, vendor, lost, owned>>
  BY DEF Brings, Groups
<1>2. Whole' = Whole /\ Away' = FALSE /\ Away = FALSE
  BY <1>1 DEF Whole, Away
<1>3. CarriedInv'
  BY <1>1 DEF PackageInv, CarriedInv, Stays
<1>4. PlacingInv'
  BY <1>1 DEF PackageInv, PlacingInv, Stays, Holding
<1>5. SoundInv'
  BY <1>1, <1>2 DEF PackageInv, SoundInv, Stays, Swaps
<1>6. ASSUME owned, Whole PROVE KeptInv'
  <2>1. /\ Manageable(root, vendor.root)
        /\ \A h \in Groups : Fits(op[h], root, vendor.root)
        /\ root.wim = NoWim => \E h \in Groups : op[h].at \in Swaps /\ op[h].here
        /\ root.bcd = NoBcd => "bcd" \in lost.root
    BY <1>2, <1>6 DEF PackageInv, KeptInv
  <2>2. ASSUME NEW h \in Groups PROVE Fits(op'[h], root, vendor.root)
    BY <1>1, <2>1 DEF Fits, Stays, Holding, BcdSteps
  <2>3. root.wim = NoWim => \E h \in Groups : op'[h].at \in Swaps /\ op'[h].here
    BY <1>1, <2>1 DEF Stays, Swaps
  <2>4. QED
    BY <1>1, <2>1, <2>2, <2>3 DEF KeptInv
<1>7. KeptInv'
  BY <1>1, <1>2, <1>6 DEF KeptInv
<1>8. QED
  BY <1>3, <1>4, <1>5, <1>7 DEF PackageInv

LEMMA BeginBrings ==
  ASSUME TypesInv, NEW p \in AllPackages, NEW v \in Origins, NEW m \in BOOLEAN,
         Begin("import", [NoOp EXCEPT !.at = "away", !.package = p, !.media = m, !.vendor = v]),
         UNCHANGED <<root, copy, vendor, lost, owned>>
  PROVE  Brings(p, v, m)
<1> DEFINE new == [NoOp EXCEPT !.at = "away", !.package = p, !.media = m, !.vendor = v]
<1>1. new \in Commands /\ "import" \in Groups
  BY NoOpType DEF NoOp, Commands, Steps, AllPackages, Origins, Groups
<1>2. Begin("import", new)
  OBVIOUS
<1> HIDE DEF new
<1>3. op["import"].at = "idle" /\ \A h \in Groups \ {"import"} : Stays(h)
  BY <1>1, <1>2, BeginStays
<1>4. /\ op'["import"].at = "away" /\ op'["import"].package = p /\ op'["import"].vendor = v
      /\ op'["import"].media = m
  BY BeginImport
<1>5. QED
  BY <1>3, <1>4 DEF Brings

LEMMA NothingBrought ==
  ASSUME TypesInv, PackageInv, Begin("import", NoOp),
         UNCHANGED <<root, copy, vendor, lost, owned>>
  PROVE  PackageInv'
<1>1. NoOp \in Commands /\ NoOp.at \notin HoldingSteps /\ "import" \in Groups
  BY NoOpType DEF NoOp, HoldingSteps, Groups
<1>2. \A h \in Groups : Stays(h) \/ GivesUp(h)
  BY <1>1, PlainCommands
<1>3. SamePackage /\ SameCopy
  BY DEF SamePackage, SameCopy
<1>4. QED
  BY <1>2, <1>3, SamePackagePlain, PlainStep

LEMMA MediaPackage ==
  ASSUME TypesInv, PackageInv, ImportMedia
  PROVE  PackageInv'
<1>1. UNCHANGED <<root, copy, vendor, lost, owned>>
  BY DEF ImportMedia
<1>2. CASE Begin("import", NoOp)
  BY <1>1, <1>2, NothingBrought
<1>3. CASE ~Begin("import", NoOp)
  <2>1. PICK m \in media : \E w \in Selected(m) : \E p \in BuildPackage(host, m, w, version) :
          Begin("import", [NoOp EXCEPT !.at = "away", !.package = p, !.media = TRUE,
                                       !.vendor = w.image])
    BY <1>3 DEF ImportMedia
  <2>2. PICK w \in Selected(m) : \E p \in BuildPackage(host, m, w, version) :
          Begin("import", [NoOp EXCEPT !.at = "away", !.package = p, !.media = TRUE,
                                       !.vendor = w.image])
    BY <2>1
  <2>3. PICK p \in BuildPackage(host, m, w, version) :
          Begin("import", [NoOp EXCEPT !.at = "away", !.package = p, !.media = TRUE,
                                       !.vendor = w.image])
    BY <2>2
  <2>4. /\ p \in AllPackages /\ p.there /\ p.files /\ p.layout = "managed"
        /\ p.script = ScriptByMarker(p) /\ p.bcd.loader = p.wim.loader
        /\ p.flavour # "edgeless" => p.bcd = BcdByMarker(p)
        /\ p.bcd # NoBcd /\ p.wim # NoWim
        /\ w.image \in VendorImages /\ p.wim \in InjectAgent(host, w.image, version)
    BY <2>1, <2>2, <2>3, BuiltPackage
  <2>5. w.image \in Images /\ version \in Versions
    BY <2>4, VendorImagesAreImages DEF TypesInv
  <2>6. p.wim.loader = w.image.loader
    BY <2>4, <2>5, InjectedImages
  <2>7. p.script.kind = "managed"
    BY <2>4 DEF ScriptByMarker, ManagedScript, NoScript
  <2>8. Complete(p, w.image) /\ Sound(p)
    BY <2>4, <2>6, <2>7 DEF Complete, Manageable, Sound, BcdByMarker, PolicyByFlavour
  <2>9. w.image \in Origins
    BY <2>4 DEF Origins
  <2>10. Brings(p, w.image, TRUE)
    BY <1>1, <2>3, <2>4, <2>9, BeginBrings
  <2>11. QED
    BY <2>4, <2>8, <2>10, BroughtPackage
<1>4. QED
  BY <1>2, <1>3

LEMMA DirectoryPackage ==
  ASSUME TypesInv, PackageInv, ImportDirectory
  PROVE  PackageInv'
<1>1. /\ UNCHANGED <<root, copy, vendor, lost, owned>>
      /\ copy \in AllPackages /\ version \in Versions
      /\ copy.wim \in Images /\ copy.wim # NoWim
      /\ vendor.copy \in Origins
  BY DEF ImportDirectory, TypesInv, AllPackages, Packages, Images
<1>2. CASE Begin("import", NoOp)
  BY <1>1, <1>2, NothingBrought
<1>3. CASE ~Begin("import", NoOp)
  <2>1. PICK i \in (IF copy.mark = version THEN {copy.wim}
                    ELSE InjectAgent(host, copy.wim, version)) :
          Begin("import", [NoOp EXCEPT !.at = "away",
                                       !.package = [copy EXCEPT !.wim = i, !.mark = version],
                                       !.media = FALSE, !.vendor = vendor.copy])
    BY <1>3 DEF ImportDirectory
  <2> DEFINE p == [copy EXCEPT !.wim = i, !.mark = version]
  <2>2. i \in Images /\ i # NoWim
    BY <1>1, <2>1, InjectedImages
  <2>3. /\ p \in AllPackages /\ p.there = copy.there /\ p.layout = copy.layout
        /\ p.script = copy.script /\ p.fallback = copy.fallback /\ p.dynamic = copy.dynamic
        /\ p.wim = i
    BY <1>1, <2>2 DEF AllPackages, Packages, Images
  <2>4. Begin("import", [NoOp EXCEPT !.at = "away", !.package = p, !.media = FALSE,
                                     !.vendor = vendor.copy])
    BY <2>1
  <2> HIDE DEF p
  <2>5. Brings(p, vendor.copy, FALSE)
    BY <1>1, <2>3, <2>4, BeginBrings
  <2>6. p.there
    BY <1>1, <2>3 DEF PackageInv, CarriedInv
  <2>7. lost.copy \subseteq {"bcd"} => Sound(p)
    BY <2>2, <2>3, <2>6 DEF PackageInv, CarriedInv, Sound
  <2>8. QED
    BY <2>5, <2>6, <2>7, BroughtPackage
<1>4. QED
  BY <1>2, <1>3

LEMMA CopiedPackage ==
  ASSUME TypesInv, PackageInv, CopyPackage
  PROVE  PackageInv'
<1>1. /\ root.wim # NoWim /\ copy' = root /\ "import" \in Groups
      /\ \A g \in Groups : op[g].at = "idle"
      /\ UNCHANGED <<root, op, owned>>
      /\ vendor'.root = vendor.root
      /\ lost'.copy = lost.root /\ lost'.root = lost.root
  BY DEF CopyPackage, Idle, TypesInv, Groups
<1>2. root.there /\ Whole' = Whole /\ Away' = Away /\ ~Away
  BY <1>1 DEF PackageInv, PlacingInv, Blank, Whole, Away
<1>3. Whole => Sound(root)
  BY <1>1, <1>2 DEF PackageInv, SoundInv, Sound
<1>4. CarriedInv'
  BY <1>1, <1>2, <1>3 DEF CarriedInv, Whole
<1>5. PlacingInv'
  BY <1>1, <1>2 DEF PackageInv, PlacingInv
<1>6. SoundInv'
  BY <1>1, <1>2 DEF PackageInv, SoundInv
<1>7. KeptInv'
  BY <1>1, <1>2 DEF PackageInv, KeptInv
<1>8. QED
  BY <1>4, <1>5, <1>6, <1>7 DEF PackageInv

\* The old package is moved away from under every command in flight.
MovesAway ==
  /\ op["import"].at = "away" /\ op'["import"].at = "place"
  /\ op'["import"].package = op["import"].package
  /\ op'["import"].vendor = op["import"].vendor /\ op'["import"].media = op["import"].media
  /\ op'["import"].old = root.there /\ op'["import"].alone = op["import"].alone
  /\ \A g \in Groups \ {"import"} :
       /\ op'[g].at = op[g].at /\ op'[g].alone = op[g].alone /\ op'[g].script = op[g].script
       /\ op'[g].session = op[g].session /\ op'[g].image = op[g].image
       /\ op'[g].ready = op[g].ready
       /\ op'[g].at # "idle" => ~op'[g].here
  /\ root' = Absent

LEMMA MoveAsideMoves ==
  ASSUME TypesInv, MoveAside
  PROVE  /\ op["import"].at = "away"
         /\ UNCHANGED <<host, version, copy, control, pxe, vendor, lost, owned, disturbed>>
         /\ \/ Ends("import") /\ root' = root
            \/ MovesAway
<1>1. "import" \in Groups /\ \A g \in Groups : op[g] \in Commands
  BY DEF Groups, TypesInv
<1>2. CASE host = "windows" /\ \E g \in Groups : op[g].at \in {"putAgent", "putBootstrap"}
  BY <1>1, <1>2, EndsCommand DEF MoveAside, Finish
<1>3. CASE ~(host = "windows" /\ \E g \in Groups : op[g].at \in {"putAgent", "putBootstrap"})
  <2>1. /\ op["import"].at = "away" /\ root' = Absent
        /\ op' = [g \in Groups |->
                    IF g # "import" THEN [op[g] EXCEPT !.here = (op[g].at = "idle")]
                    ELSE [op[g] EXCEPT !.at = "place", !.old = root.there]]
        /\ UNCHANGED <<host, version, copy, control, pxe, vendor, lost, owned, disturbed>>
    BY <1>3 DEF MoveAside
  <2>2. op'["import"] = [op["import"] EXCEPT !.at = "place", !.old = root.there]
    BY <1>1, <2>1
  <2>3. /\ op'["import"].at = "place" /\ op'["import"].package = op["import"].package
        /\ op'["import"].vendor = op["import"].vendor /\ op'["import"].media = op["import"].media
        /\ op'["import"].old = root.there /\ op'["import"].alone = op["import"].alone
    BY <1>1, <2>2 DEF Commands
  <2>4. ASSUME NEW g \in Groups \ {"import"}
        PROVE  /\ op'[g].at = op[g].at /\ op'[g].alone = op[g].alone
               /\ op'[g].script = op[g].script
               /\ op'[g].session = op[g].session /\ op'[g].image = op[g].image
               /\ op'[g].ready = op[g].ready
               /\ op'[g].at # "idle" => ~op'[g].here
    <3> DEFINE b == op[g].at = "idle"
    <3>1. op'[g] = [op[g] EXCEPT !.here = b] /\ op[g] \in Commands
      BY <1>1, <2>1
    <3>2. /\ op'[g].at = op[g].at /\ op'[g].alone = op[g].alone
          /\ op'[g].script = op[g].script /\ op'[g].session = op[g].session
          /\ op'[g].image = op[g].image /\ op'[g].ready = op[g].ready /\ op'[g].here = b
      <4> HIDE DEF b
      <4>1. QED
        BY <3>1 DEF Commands
    <3>3. QED
      BY <3>2
  <2>5. QED
    BY <2>1, <2>3, <2>4 DEF MovesAway
<1>4. QED
  BY <1>2, <1>3

LEMMA MovedPackage ==
  ASSUME TypesInv, PackageInv, MoveAside
  PROVE  PackageInv'
<1>1. /\ op["import"].at = "away" /\ "import" \in Groups
      /\ UNCHANGED <<copy, vendor, lost, owned>>
      /\ (Ends("import") /\ root' = root) \/ MovesAway
  BY MoveAsideMoves DEF Groups
<1>2. CASE Ends("import") /\ root' = root
  <2>1. \A h \in Groups : Stays(h) \/ GivesUp(h)
    BY <1>1, <1>2, PlainCommands DEF Swaps
  <2>2. SamePackage /\ SameCopy
    BY <1>1, <1>2 DEF SamePackage, SameCopy
  <2>3. QED
    BY <2>1, <2>2, SamePackagePlain, PlainStep
<1>3. CASE MovesAway
  <2>1. /\ op'["import"].at = "place" /\ op'["import"].package = op["import"].package
        /\ op'["import"].vendor = op["import"].vendor
        /\ op'["import"].media = op["import"].media /\ op'["import"].old = root.there
        /\ \A g \in Groups \ {"import"} :
             /\ op'[g].at = op[g].at /\ op'[g].script = op[g].script
             /\ op'[g].at # "idle" => ~op'[g].here
        /\ root' = Absent
    BY <1>3 DEF MovesAway
  <2>2. Whole' = Whole /\ ~Away
    BY <1>1 DEF Whole, Away
  <2>3. CarriedInv'
    BY <1>1, <2>1 DEF PackageInv, CarriedInv
  <2>4. owned /\ Whole => root.there
    BY <2>2 DEF PackageInv, KeptInv, Manageable
  <2>5. \A g \in Groups : Holding(op'[g]) \/ op'[g].at \in BcdSteps => ~op'[g].here
    BY <1>1, <2>1 DEF Holding, BcdSteps
  <2>6. PlacingInv'
    BY <1>1, <2>1, <2>2, <2>4, <2>5 DEF PlacingInv, Blank, Absent, NoScript
  <2>7. SoundInv'
    <3> SUFFICES ASSUME Whole, ~root.there
                 PROVE  SoundInv'
      BY <2>1, <2>2 DEF SoundInv, Away
    <3>1. \A g \in Groups : op[g].at # "dispatcher"
      BY <2>2 DEF PackageInv, SoundInv, PlacingInv, Blank
    <3>2. \A g \in Groups : op'[g].at # "dispatcher"
      BY <2>1, <3>1
    <3>3. QED
      BY <2>1, <3>2 DEF SoundInv, Absent, NoScript
  <2>8. KeptInv'
    BY <1>1, <2>1, <2>2, <2>4 DEF KeptInv, Away
  <2>9. QED
    BY <2>3, <2>6, <2>7, <2>8 DEF PackageInv
<1>4. QED
  BY <1>1, <1>2, <1>3

\* The new package is put in place, unless a directory is in the way.
Places ==
  /\ Moves("import", "saved") /\ ~root.there
  /\ root' = op["import"].package /\ vendor'.root = op["import"].vendor
  /\ owned' = op["import"].media /\ disturbed' = disturbed
  /\ lost'.root = (IF op["import"].media THEN {} ELSE lost.copy)
                  \cup (IF \E g \in Groups : op[g].at \in {"fallback", "dispatcher"}
                        THEN {"dispatcher"} ELSE {})

LEMMA PlaceMoves ==
  ASSUME TypesInv, PlacePackage
  PROVE  /\ op["import"].at = "place"
         /\ UNCHANGED <<host, version, copy, control, pxe>> /\ lost'.copy = lost.copy
         /\ \/ /\ Ends("import") /\ root' = root /\ disturbed' = disturbed
               /\ UNCHANGED <<vendor, owned>>
               /\ lost'.root = lost.root \cup (IF op["import"].old THEN {"root"} ELSE {})
            \/ Places
<1>1. "import" \in Groups /\ op["import"].at = "place"
      /\ UNCHANGED <<host, version, copy, control, pxe>>
  BY DEF Groups, PlacePackage
<1>2. CASE root.there
  BY <1>1, <1>2, EndsCommand DEF PlacePackage, TypesInv, Finish
<1>3. CASE ~root.there
  <2>1. /\ root' = op["import"].package
        /\ vendor' = [vendor EXCEPT !.root = op["import"].vendor]
        /\ owned' = op["import"].media
        /\ lost' = [lost EXCEPT !.root =
                      (IF op["import"].media THEN {} ELSE lost.copy)
                      \cup (IF \E g \in Groups : op[g].at \in {"fallback", "dispatcher"}
                            THEN {"dispatcher"} ELSE {})]
        /\ Goto("import", "saved") /\ disturbed' = disturbed
    BY <1>3 DEF PlacePackage
  <2>2. QED
    BY <1>1, <1>3, <2>1, GotoMoves DEF Places, TypesInv
<1>4. QED
  BY <1>2, <1>3

LEMMA PlacedPackage ==
  ASSUME TypesInv, PackageInv, PlacePackage
  PROVE  PackageInv'
<1>1. /\ op["import"].at = "place" /\ "import" \in Groups
      /\ UNCHANGED copy /\ lost'.copy = lost.copy
      /\ \/ /\ Ends("import") /\ root' = root /\ UNCHANGED <<vendor, owned>>
            /\ lost'.root = lost.root \cup (IF op["import"].old THEN {"root"} ELSE {})
         \/ Places
  BY PlaceMoves DEF Groups
<1>2. op'["import"].at \notin {"away", "place", "fallback", "dispatcher", "aside", "bcd"}
      /\ ~Holding(op'["import"])
      /\ \A h \in Groups \ {"import"} : op'[h] = op[h]
  BY <1>1 DEF Ends, Places, Moves, Others, NoOp, Holding
<1>3. CarriedInv'
  BY <1>1, <1>2 DEF PackageInv, CarriedInv
<1>4. ~Away'
  BY <1>2 DEF Away
<1>5. CASE Ends("import") /\ root' = root /\ UNCHANGED <<vendor, owned>>
           /\ lost'.root = lost.root \cup (IF op["import"].old THEN {"root"} ELSE {})
  <2>1. PlacingInv'
    BY <1>2, <1>5 DEF PackageInv, PlacingInv
  <2>2. Whole' => Whole /\ ~op["import"].old /\ ~Away /\ ~owned
    BY <1>1, <1>5 DEF Whole, Away, PackageInv, PlacingInv
  <2>3. SoundInv'
    <3> SUFFICES ASSUME Whole' PROVE SoundInv'
      BY DEF SoundInv
    <3>1. /\ root.script.kind = "dispatcher" /\ ~root.dynamic =>
               \E g \in Groups : op'[g].at = "dynamic"
          /\ root.layout = "native" /\ root.wim = NoWim =>
               \E g \in Groups : op'[g].at \in Swaps /\ op'[g].here
      BY <1>1, <1>2, <2>2 DEF PackageInv, SoundInv, Swaps
    <3>2. \A g \in Groups : op'[g].at \in {"fallback", "dispatcher"} => op'[g] = op[g]
      BY <1>2
    <3>3. QED
      BY <1>5, <2>2, <3>1, <3>2 DEF PackageInv, SoundInv
  <2>4. KeptInv'
    BY <1>5, <2>2 DEF KeptInv
  <2>5. QED
    BY <1>3, <2>1, <2>3, <2>4 DEF PackageInv
<1>6. CASE Places
  <2> DEFINE p == op["import"].package
             m == op["import"].media
  <2>1. /\ root' = p /\ vendor'.root = op["import"].vendor /\ owned' = m
        /\ lost'.root = (IF m THEN {} ELSE lost.copy)
                        \cup (IF \E g \in Groups : op[g].at \in {"fallback", "dispatcher"}
                              THEN {"dispatcher"} ELSE {})
    BY <1>6 DEF Places
  <2>2. p.there
    BY <1>1 DEF PackageInv, CarriedInv
  <2>3. PlacingInv'
    BY <1>2, <2>1, <2>2 DEF PlacingInv
  <2>4. Whole' => /\ \A g \in Groups : op'[g].at \notin {"fallback", "dispatcher"}
                  /\ m \/ lost.copy \subseteq {"bcd"}
    <3>1. Whole' => \A g \in Groups : op[g].at \notin {"fallback", "dispatcher"}
      BY <2>1 DEF Whole
    <3>2. Whole' => m \/ lost.copy \subseteq {"bcd"}
      BY <2>1 DEF Whole
    <3>3. QED
      BY <1>2, <3>1, <3>2
  <2>5. Whole' => Sound(p)
    BY <1>1, <2>4 DEF PackageInv, CarriedInv
  <2>6. SoundInv'
    BY <2>1, <2>4, <2>5 DEF SoundInv, Sound
  <2>7. KeptInv'
    <3> SUFFICES ASSUME owned', Whole' PROVE KeptInv'
      BY DEF KeptInv
    <3>1. Complete(p, op["import"].vendor)
      BY <1>1, <2>1 DEF PackageInv, CarriedInv
    <3>2. \A g \in Groups : ~(Holding(op'[g]) /\ op'[g].here)
                            /\ ~(op'[g].at \in BcdSteps /\ op'[g].here)
      BY <1>1, <1>2 DEF PackageInv, PlacingInv, BcdSteps
    <3>3. \A g \in Groups : Fits(op'[g], p, op["import"].vendor)
      BY <2>4, <3>2 DEF Fits
    <3>4. Manageable(p, op["import"].vendor) /\ p.wim # NoWim /\ p.bcd # NoBcd
      BY <3>1 DEF Complete
    <3> HIDE DEF p, m
    <3>5. Manageable(root', vendor'.root)
          /\ \A g \in Groups : Fits(op'[g], root', vendor'.root)
      BY <2>1, <3>3, <3>4
    <3>6. QED
      BY <2>1, <3>4, <3>5 DEF KeptInv
  <2>8. QED
    BY <1>3, <2>3, <2>6, <2>7 DEF PackageInv
<1>7. QED
  BY <1>1, <1>5, <1>6

LEMMA SavedPackage ==
  ASSUME TypesInv, PackageInv, InjectSaved
  PROVE  PackageInv'
<1>1. op["import"].at = "saved" /\ "import" \in Groups
  BY DEF InjectSaved, Groups
<1>2. op'["import"].at \in {"idle", "bootstrap"} /\ Others("import")
  <2>1. CASE root.json = 0
    BY <1>1, <2>1 DEF InjectSaved, NoOp, TypesInv, Others
  <2>2. CASE root.json # 0
    BY <1>1, <2>2 DEF InjectSaved, TypesInv, Commands, Others
  <2>3. QED
    BY <2>1, <2>2
<1>3. \A h \in Groups : Stays(h) \/ GivesUp(h)
  BY <1>1, <1>2 DEF Others, Stays, GivesUp, HoldingSteps, Swaps
<1>4. SamePackage /\ SameCopy
  BY DEF InjectSaved, history, SamePackage, SameCopy
<1>5. QED
  BY <1>3, <1>4, SamePackagePlain, PlainStep

LEMMA RestartPackage ==
  ASSUME TypesInv, PackageInv, Restart
  PROVE  PackageInv'
<1>1. /\ \A g \in Groups : op'[g].at = "idle" /\ "import" \in Groups
      /\ UNCHANGED <<root, copy, vendor, owned>>
      /\ lost'.copy = lost.copy /\ lost'.root = lost.root \cup Interrupted
  BY DEF Restart, NoOp, TypesInv, Groups
<1>2. CarriedInv'
  BY <1>1 DEF PackageInv, CarriedInv, Groups
<1>3. PlacingInv'
  BY <1>1 DEF PackageInv, PlacingInv, Holding, Groups
<1>4. Whole' => /\ Whole /\ ~Away
                /\ \A g \in Groups : op[g].at \notin Swaps /\ (op[g].at = "dynamic" => root.dynamic)
  BY <1>1 DEF Whole, Away, Interrupted, Swaps
<1>5. SoundInv'
  <2> SUFFICES ASSUME Whole' PROVE SoundInv'
    BY DEF SoundInv
  <2>1. QED
    BY <1>1, <1>4 DEF PackageInv, SoundInv
<1>6. KeptInv'
  <2> SUFFICES ASSUME Whole', owned' PROVE KeptInv'
    BY DEF KeptInv
  <2>1. \A g \in Groups : Fits(op'[g], root, vendor.root)
    BY <1>1 DEF Fits, Holding, BcdSteps
  <2>2. "bcd" \in lost.root => "bcd" \in lost'.root
    BY <1>1
  <2>3. QED
    BY <1>1, <1>4, <2>1, <2>2 DEF PackageInv, KeptInv
<1>7. QED
  BY <1>2, <1>3, <1>5, <1>6 DEF PackageInv

LEMMA PackageStep ==
  ASSUME TypesInv, DigestsInv, PackageInv, [Next]_vars
  PROVE  PackageInv'
<1>1. CASE UNCHANGED vars
  <2>1. \A h \in Groups : Stays(h)
    BY <1>1 DEF vars, Stays
  <2>2. SamePackage /\ SameCopy
    BY <1>1 DEF vars, SamePackage, SameCopy
  <2>3. QED
    BY <2>1, <2>2, SamePackagePlain, PlainStep
<1>2. CASE StartControl \/ StopControl \/ ForgetBootstrap \/ ServerDies
           \/ \E g \in Groups : OpenSession(g)
  BY <1>2, PlainControl, PlainStep
<1>3. CASE \/ StartPxe \/ AskControl \/ Listen \/ StopPxe
           \/ EnsureNetworkBoot /\ op'["pxe"].at # "aside"
  BY <1>3, PlainPxe, PlainStep, ScriptOfIsoStep
<1>4. CASE EnsureNetworkBoot /\ op'["pxe"].at = "aside"
  BY <1>4, EnsurePackage
<1>5. CASE SetBcdAside \/ PutBcd \/ WriteLoaders \/ MarkManaged
  BY <1>5, RefreshPackage DEF RefreshesPackage
<1>6. CASE \E g \in Groups : \/ WriteBootstrap(g) \/ WriteDigests(g) \/ RefreshIso(g)
                             \/ FinishSync(g)
  BY <1>6, PlainSync, PlainStep
<1>7. CASE \E g \in Groups : MountForAgent(g) \/ MountForBootstrap(g)
  BY <1>7, MountPackage
<1>8. CASE \E g \in Groups : PutImage(g) \/ SwapImage(g)
  BY <1>8, PutPackage
<1>9. CASE \E g \in Groups : ReadScripts(g)
  BY <1>9, ReadPackage
<1>10. CASE \E g \in Groups : WriteFallback(g) \/ WriteDispatcher(g) \/ MarkDynamic(g)
  BY <1>10, WritePackage
<1>11. CASE Next
  BY <1>2, <1>3, <1>4, <1>5, <1>6, <1>7, <1>8, <1>9, <1>10, <1>11,
     MediaPackage, DirectoryPackage, CopiedPackage, MovedPackage, PlacedPackage, SavedPackage,
     RestartPackage DEF Next
<1>12. QED
  BY <1>1, <1>11

\* A package made from a medium stays one the next start refreshes, with the
\* medium's own boot manager policy and script, through failures, overlaps and
\* restarts that took nothing from it but its boot configuration.
THEOREM PackagesStayManageable == Spec => []StaysManageable
<1>1. Init => TypesInv /\ DigestsInv /\ PackageInv
  BY InitialTypes, InitialDigests, InitialPackage
<1>2. TypesInv /\ DigestsInv /\ PackageInv /\ [Next]_vars =>
        TypesInv' /\ DigestsInv' /\ PackageInv'
  BY TypesStep, DigestsStep, PackageStep
<1>3. TypesInv /\ PackageInv => StaysManageable
  <2> SUFFICES ASSUME TypesInv, PackageInv, owned, Whole, Idle
               PROVE  StaysManageable
    BY DEF StaysManageable, Whole
  <2>1. /\ Manageable(root, vendor.root) /\ root.wim # NoWim
        /\ root.script.kind = "dispatcher" =>
             root.dynamic /\ root.fallback.kind = "managed" /\ root.layout # "native"
        /\ root.bcd = NoBcd => "bcd" \in lost.root
    BY DEF PackageInv, SoundInv, KeptInv, Idle, Away, Groups, Swaps
  <2>2. WindowsScript(root) = ScriptByMarker(root) /\ ScriptByMarker(root).kind = "managed"
    BY <2>1 DEF WindowsScript, HasControlDispatcher, Manageable, ScriptByMarker, ManagedScript,
                NoScript
  <2>3. /\ root.bcd = NoBcd \/ root.bcd.loader = root.wim.loader
        /\ root.bcd \in Bcds
    BY <2>1 DEF Manageable, TypesInv, AllPackages, Packages
  <2>4. root.flavour # "edgeless" => root.bcd \in {NoBcd, BcdByMarker(root)}
    BY <2>1, <2>3 DEF Manageable, BcdByMarker, PolicyByFlavour, Bcds
  <2>5. root.script.kind = "dispatcher" => root.fallback = ScriptByMarker(root)
    BY <2>1, <2>2 DEF Manageable
  <2>6. IsManaged(root) /\ root.layout = "managed"
    BY <2>1, <2>2 DEF IsManaged, Manageable
  <2>7. QED
    BY <2>1, <2>2, <2>3, <2>4, <2>5, <2>6 DEF StaysManageable
<1>4. QED
  BY <1>1, <1>2, <1>3, PTL DEF Spec

-----------------------------------------------------------------------------
(* What PXE serves while the control plane runs.                           *)
(*                                                                         *)
(* A synchronisation no other command overlaps is alone with the package:  *)
(* each step of it leaves what it wrote for the ones to come. A service    *)
(* that runs has had such a synchronisation last, unless one of them is    *)
(* still to come.                                                          *)

AloneInv ==
  /\ ~disturbed => \A g \in Groups : op[g].at # "idle" => op[g].alone
  /\ \A g \in Groups : op[g].at # "idle" /\ op[g].alone =>
       \A h \in Groups \ {g} : op[h].at = "idle"
  /\ pxe => op["pxe"].at = "idle"
  /\ pxe => ~(op["import"].at # "idle" /\ op["import"].alone)
  /\ op["control"].at = "forget" /\ op["control"].alone => control.state # "running"

AfterOpen == {"json", "agent", "putAgent", "swapAgent", "mark", "bootstrap", "putBootstrap",
              "swapBootstrap", "iso", "script", "fallback", "dispatcher", "dynamic", "finish",
              "listen"}
Injected == {"iso", "script", "fallback", "dispatcher", "dynamic", "finish", "listen"}

Carries(i, n) == i.agent = version /\ i.session = n

\* How far the synchronisation of a command no other overlapped has come.
Phase(c) ==
  c.alone /\ c.at \in AfterOpen =>
    /\ c.session = control.session
    /\ c.at # "json" => root.json = c.session /\ root.there
    /\ c.at \in {"putAgent", "swapAgent"} => c.image.agent = version
    /\ c.at \in {"mark", "bootstrap"} => root.wim.agent = version /\ root.wim # NoWim
    /\ c.at \in {"putBootstrap", "swapBootstrap"} => Carries(c.image, c.session)
    /\ c.at \in Injected => root.wim = NoWim \/ Carries(root.wim, c.session)
    /\ Whole /\ c.at \in Injected \ {"iso"} /\ root.layout = "native" => root.iso = c.session
    /\ c.at \in {"fallback", "dispatcher", "dynamic"} => c.ready /\ root.layout # "native"
    /\ c.at \in {"dispatcher", "dynamic"} => root.fallback.kind = "managed"
    /\ c.at = "dynamic" => root.script = Dispatcher(c.session)
    /\ c.at \in {"finish", "listen"} /\ c.ready =>
         HasControlDispatcher(root) /\ root.script = Dispatcher(c.session) /\ root.layout # "native"
    /\ c.at \in {"finish", "listen"} /\ ~c.ready /\ Whole =>
         root.script.kind # "dispatcher" /\ ~owned

PhaseInv == Phase(op["control"]) /\ Phase(op["pxe"])

\* What a machine is served that the session n is to be reached by.
Serves(n) ==
  /\ root.json = n
  /\ root.wim # NoWim => Carries(root.wim, n)
  /\ root.layout = "native" => root.iso = n
  /\ root.script.kind = "dispatcher" => root.script.session = n
  /\ owned => HasControlDispatcher(root)

ServingInv ==
  pxe /\ ~disturbed /\ Whole =>
    /\ root.layout = "native" => root.script = Sanboot
    /\ control.state = "running" /\ op["control"].at \in {"idle", "open"} =>
         Serves(control.session)

ServeInv == AloneInv /\ PhaseInv /\ ServingInv

LEMMA InitialServe == Init => ServeInv
BY DEF Init, ServeInv, AloneInv, PhaseInv, Phase, ServingInv, NoOp, Groups, AfterOpen

\* A step of a command in flight.
Works(g) ==
  /\ op[g].at # "idle"
  /\ \A h \in Groups \ {g} : op'[h].at = op[h].at /\ op'[h].alone = op[h].alone
  /\ \/ op'[g] = NoOp
     \/ op'[g].at \notin {"idle", "forget"} /\ op'[g].alone = op[g].alone
  /\ pxe' = pxe \/ (g = "pxe" /\ op'[g] = NoOp)
  /\ \/ disturbed' = disturbed \/ disturbed' = TRUE
     \/ op[g].alone /\ g # "import"

LEMMA WorksByMove ==
  ASSUME NEW g \in Groups, op[g].at # "idle",
         Ends(g) \/ \E step : Moves(g, step) /\ step \notin {"idle", "forget"},
         pxe' = pxe \/ (g = "pxe" /\ Ends(g)),
         disturbed' = disturbed \/ disturbed' = TRUE
  PROVE  Works(g)
BY DEF Works, Ends, Moves, Others

LEMMA AloneByWork ==
  ASSUME TypesInv, AloneInv, NEW g \in Groups, Works(g)
  PROVE  AloneInv'
<1>0. {"control", "pxe", "import"} \subseteq Groups /\ NoOp.at = "idle"
  BY DEF Groups, NoOp
<1>1. ASSUME NEW h \in Groups, op'[h].at # "idle"
      PROVE  op[h].at # "idle" /\ op'[h].alone = op[h].alone
  BY <1>0, <1>1 DEF Works
<1>2. ~disturbed' => \A h \in Groups : op'[h].at # "idle" => op'[h].alone
  <2> SUFFICES ASSUME ~disturbed', NEW h \in Groups, op'[h].at # "idle"
               PROVE  op'[h].alone
    OBVIOUS
  <2>1. CASE ~disturbed
    BY <1>1, <2>1 DEF AloneInv
  <2>2. CASE disturbed
    BY <1>1, <2>2 DEF AloneInv, Works
  <2>3. QED
    BY <2>1, <2>2
<1>3. \A x \in Groups : op'[x].at # "idle" /\ op'[x].alone =>
         \A h \in Groups \ {x} : op'[h].at = "idle"
  <2> SUFFICES ASSUME NEW x \in Groups, op'[x].at # "idle", op'[x].alone,
                      NEW h \in Groups \ {x}
               PROVE  op'[h].at = "idle"
    OBVIOUS
  <2>1. op[x].at # "idle" /\ op[x].alone
    BY <1>1
  <2>2. op[h].at = "idle"
    BY <2>1 DEF AloneInv
  <2>3. QED
    BY <1>1, <2>2
<1>4. pxe' => op'["pxe"].at = "idle"
  BY <1>0, <1>1 DEF AloneInv, Works
<1>5. pxe' => ~(op'["import"].at # "idle" /\ op'["import"].alone)
  <2> SUFFICES ASSUME pxe', op'["import"].at # "idle", op'["import"].alone PROVE FALSE
    OBVIOUS
  <2>1. op["import"].at # "idle" /\ op["import"].alone
    BY <1>0, <1>1
  <2>2. g = "import"
    BY <1>0, <2>1 DEF AloneInv, Works
  <2>3. QED
    BY <2>1, <2>2 DEF AloneInv, Works
<1>6. op'["control"].at = "forget" /\ op'["control"].alone => control'.state # "running"
  <2> SUFFICES ASSUME op'["control"].at = "forget", op'["control"].alone PROVE FALSE
    OBVIOUS
  <2>1. op["control"].at # "idle" /\ op["control"].alone
    BY <1>0, <1>1
  <2>2. g = "control"
    BY <1>0, <2>1 DEF AloneInv, Works
  <2>3. QED
    BY <1>0, <2>2 DEF Works
<1>7. QED
  BY <1>2, <1>3, <1>4, <1>5, <1>6 DEF AloneInv

\* A synchronisation that is alone does not go on while another command works.
LEMMA OtherPhases ==
  ASSUME TypesInv, AloneInv, NEW g \in Groups, Works(g),
         NEW h \in Groups \ {g}
  PROVE  Phase(op[h])'
<1>1. op'[h].at = op[h].at /\ op'[h].alone = op[h].alone /\ op[g].at # "idle"
  BY DEF Works
<1>2. ~(op'[h].alone /\ op'[h].at \in AfterOpen)
  BY <1>1 DEF AloneInv, AfterOpen
<1>3. QED
  BY <1>2 DEF Phase

LEMMA PhasesByWork ==
  ASSUME TypesInv, AloneInv, NEW g \in Groups, Works(g), g # "import" => Phase(op[g])'
  PROVE  PhaseInv'
<1>1. {"control", "pxe"} \subseteq Groups
  BY DEF Groups
<1>2. ASSUME NEW h \in {"control", "pxe"} PROVE Phase(op[h])'
  BY <1>1, OtherPhases
<1>3. QED
  BY <1>2 DEF PhaseInv

\* A command that has not come to the synchronisation, or is at an end.
LEMMA EarlyPhase ==
  ASSUME NEW g \in Groups, op'[g].at \notin AfterOpen
  PROVE  Phase(op[g])'
BY DEF Phase

\* While PXE serves, an import disturbs, PXE's own command has ended, and the
\* control plane's has not.
LEMMA ServingByWork ==
  ASSUME TypesInv, AloneInv, ServingInv, NEW g \in Groups, Works(g),
         \/ g # "control" /\ pxe' = pxe
         \/ disturbed' = TRUE
         \/ /\ disturbed' = disturbed /\ pxe' = pxe /\ lost'.root = lost.root
            /\ op'["control"].at \notin {"idle", "open"} \/ control'.state # "running"
            /\ \/ root'.layout = root.layout /\ root'.script = root.script
               \/ root'.layout # "native"
  PROVE  ServingInv'
<1>1. {"control", "pxe", "import"} \subseteq Groups
  BY DEF Groups
<1>2. CASE g = "import" /\ pxe' = pxe
  <2> SUFFICES ASSUME pxe PROVE disturbed' = TRUE
    BY <1>2 DEF ServingInv
  <2>1. disturbed \in BOOLEAN /\ op["import"].at # "idle"
    BY <1>2 DEF TypesInv, Works
  <2>2. disturbed
    BY <1>1, <2>1 DEF AloneInv
  <2>3. QED
    BY <1>2, <2>1, <2>2 DEF Works
<1>3. CASE g = "pxe" /\ pxe' = pxe
  BY <1>1, <1>3 DEF AloneInv, Works, ServingInv
<1>4. CASE disturbed' = TRUE
  BY <1>4 DEF ServingInv
<1>5. CASE /\ disturbed' = disturbed /\ pxe' = pxe /\ lost'.root = lost.root
           /\ op'["control"].at \notin {"idle", "open"} \/ control'.state # "running"
           /\ \/ root'.layout = root.layout /\ root'.script = root.script
              \/ root'.layout # "native"
  BY <1>5 DEF ServingInv, Whole
<1>6. QED
  BY <1>1, <1>2, <1>3, <1>4, <1>5 DEF Groups

LEMMA WorkGivesUp ==
  ASSUME TypesInv, ServeInv, NEW g \in Groups, op[g].at # "idle",
         Ends(g), disturbed' = TRUE, pxe' = pxe
  PROVE  ServeInv'
<1>1. Works(g)
  BY WorksByMove
<1>2. Phase(op[g])'
  BY EarlyPhase DEF Ends, NoOp, AfterOpen
<1>3. QED
  BY <1>1, <1>2, AloneByWork, PhasesByWork, ServingByWork DEF ServeInv

\* The command goes on to a later step.
Turns(g) ==
  /\ op[g].at # "idle" /\ op'[g].at \notin {"idle", "forget", "open"}
  /\ op'[g].alone = op[g].alone /\ Others(g)
  /\ pxe' = pxe /\ disturbed' = disturbed

LEMMA WorkGoesOn ==
  ASSUME TypesInv, ServeInv, NEW g \in Groups, Turns(g),
         g # "import" => Phase(op[g])',
         g = "control" => \/ root'.layout = root.layout /\ root'.script = root.script
                          \/ root'.layout # "native",
         g = "control" => lost'.root = lost.root
  PROVE  ServeInv'
<1>1. Works(g)
  BY DEF Works, Turns, Others
<1>2. ServingInv'
  <2>1. CASE g = "control"
    BY <1>1, <2>1, ServingByWork DEF ServeInv, Turns
  <2>2. CASE g # "control"
    BY <1>1, <2>2, ServingByWork DEF ServeInv, Turns
  <2>3. QED
    BY <2>1, <2>2
<1>3. QED
  BY <1>1, <1>2, AloneByWork, PhasesByWork DEF ServeInv

\* A synchronisation that is alone has the package to itself.
LEMMA AloneWithPackage ==
  ASSUME TypesInv, PackageInv, ServeInv, NEW g \in {"control", "pxe"}, op[g].alone,
         op[g].at \in AfterOpen
  PROVE  /\ \A h \in Groups \ {g} : op[h].at = "idle"
         /\ ~Away
<1>1. \A h \in Groups \ {g} : op[h].at = "idle"
  BY DEF ServeInv, AloneInv, AfterOpen, Groups
<1>2. QED
  BY <1>1 DEF Away, Groups

LEMMA OpenServe ==
  ASSUME TypesInv, ServeInv, NEW g \in Groups, OpenSession(g)
  PROVE  ServeInv'
<1>1. op[g].at = "open" /\ UNCHANGED <<version, root, pxe, lost, owned>>
  BY DEF OpenSession
<1>2. CASE Finish(g)
  <2>1. Ends(g) /\ disturbed' = disturbed
    BY <1>2, EndsCommand DEF Finish
  <2>2. Works(g) /\ Phase(op[g])'
    <3>1. op[g].at # "idle" /\ pxe' = pxe
      BY <1>1
    <3>2. Works(g)
      BY <2>1, <3>1, WorksByMove
    <3>3. op'[g].at \notin AfterOpen
      BY <2>1 DEF Ends, NoOp, AfterOpen
    <3>4. QED
      BY <3>2, <3>3, EarlyPhase
  <2>3. control' = control \/ control'.state # "running"
    <3>1. CASE control.state = "running"
      BY <3>1 DEF OpenSession
    <3>2. CASE control.state # "running" /\ control' = [state |-> "stopped", session |-> 0]
      BY <3>2
    <3>3. CASE op' = [op EXCEPT ![g].at = "json",
                                ![g].session = MaxSessions + 1 - budget.sessions]
      BY <2>1, <3>3 DEF Ends, NoOp, TypesInv, Commands
    <3>4. QED
      BY <3>1, <3>2, <3>3 DEF OpenSession
  <2>4. ServingInv'
    <3>1. CASE g # "control" \/ control'.state # "running"
      BY <1>1, <2>1, <2>2, <3>1, ServingByWork DEF ServeInv
    <3>2. CASE g = "control" /\ control' = control
      BY <1>1, <2>1, <3>2 DEF ServeInv, ServingInv, Serves, Whole, Carries
    <3>3. QED
      BY <2>3, <3>1, <3>2
  <2>5. QED
    BY <2>2, <2>4, AloneByWork, PhasesByWork DEF ServeInv
<1>3. CASE ~Finish(g)
  <2> DEFINE session == MaxSessions + 1 - budget.sessions
  <2>1. /\ control' = [state |-> "running", session |-> session]
        /\ op' = [op EXCEPT ![g].at = "json", ![g].session = session]
        /\ disturbed' = disturbed
    BY <1>3 DEF OpenSession
  <2>2. control'.session = session
    BY <2>1
  <2>3. /\ op'[g].at = "json" /\ op'[g].session = session /\ op'[g].alone = op[g].alone
        /\ Others(g)
    <3> HIDE DEF session
    <3>1. QED
      BY <2>1 DEF TypesInv, Commands, Others
  <2>4. Turns(g)
    BY <1>1, <2>1, <2>3 DEF Turns
  <2>5. Phase(op[g])'
    BY <2>2, <2>3 DEF Phase, Injected
  <2>6. QED
    BY <1>1, <2>4, <2>5, WorkGoesOn
<1>4. QED
  BY <1>2, <1>3

LEMMA WriteBootstrapServe ==
  ASSUME TypesInv, PackageInv, ServeInv, NEW g \in Groups, WriteBootstrap(g)
  PROVE  ServeInv'
<1> DEFINE next == IF root.wim # NoWim THEN "agent" ELSE "script"
<1>1. /\ op[g].at = "json" /\ Goto(g, next)
      /\ root' = [root EXCEPT !.there = TRUE, !.json = op[g].session]
      /\ UNCHANGED <<version, control, pxe, lost, owned, disturbed>>
  BY DEF WriteBootstrap, history
<1>2. Moves(g, next)
  <2> HIDE DEF next
  <2>1. QED
    BY <1>1, GotoMoves
<1>3. /\ root'.there /\ root'.json = op[g].session /\ root'.wim = root.wim
      /\ root'.layout = root.layout /\ root'.script = root.script
  BY <1>1 DEF TypesInv, AllPackages, Packages
<1>4. Turns(g)
  BY <1>1, <1>2 DEF Turns, Moves
<1>5. ASSUME g # "import" PROVE Phase(op[g])'
  <2> SUFFICES ASSUME op[g].alone
               PROVE  Phase(op[g])'
    BY <1>2 DEF Phase, Moves
  <2>1. /\ \A h \in Groups \ {g} : op[h].at = "idle"
        /\ ~Away /\ op[g].session = control.session
    <3>1. g \in {"control", "pxe"}
      BY <1>5 DEF Groups
    <3>2. op[g].session = control.session
      BY <1>1, <3>1 DEF ServeInv, PhaseInv, Phase, AfterOpen
    <3>3. QED
      BY <1>1, <3>1, <3>2, AloneWithPackage DEF AfterOpen
  <2>2. Whole /\ root.layout = "native" => root.wim # NoWim
    BY <1>1, <2>1 DEF PackageInv, SoundInv, Swaps
  <2>3. op'[g].at = next /\ op'[g].session = op[g].session
    BY <1>2 DEF Moves
  <2>4. QED
    BY <1>1, <1>3, <2>1, <2>2, <2>3 DEF Phase, Injected, Whole
<1>6. QED
  BY <1>1, <1>3, <1>4, <1>5, WorkGoesOn

\* What a phase says once it is known to be alone.
LEMMA PhaseOf ==
  ASSUME ServeInv, NEW g \in Groups, g # "import"
  PROVE  Phase(op[g])
BY DEF ServeInv, PhaseInv, Groups

LEMMA MountServe ==
  ASSUME TypesInv, DigestsInv, PackageInv, ServeInv, NEW g \in Groups,
         MountForAgent(g) \/ MountForBootstrap(g)
  PROVE  ServeInv'
<1>1. /\ op[g].at \in {"agent", "bootstrap"}
      /\ UNCHANGED <<version, root, control, pxe, vendor, lost, owned>>
  BY MountAgentMoves, MountBootstrapMoves
<1>2. CASE Ends(g) /\ disturbed' = TRUE
  BY <1>1, <1>2, WorkGivesUp
<1>3. CASE MountForAgent(g) /\ ~(Ends(g) /\ disturbed' = TRUE)
  <2>1. /\ op[g].at = "agent"
        /\ \/ \E i \in InjectAgent(host, root.wim, version) : Mounts(g, i, "putAgent")
           \/ root.wim # NoWim /\ root.mark = version /\ Moves(g, "bootstrap")
              /\ disturbed' = disturbed
    BY <1>3, MountAgentMoves
  <2>2. CASE root.wim # NoWim /\ root.mark = version /\ Moves(g, "bootstrap")
             /\ disturbed' = disturbed
    <3>1. root.wim.agent = version
      BY <2>2 DEF DigestsInv, Current
    <3>2. Turns(g)
      BY <1>1, <2>2 DEF Turns, Moves
    <3>3. g # "import" => Phase(op[g])'
      BY <1>1, <2>1, <2>2, <3>1, PhaseOf DEF Phase, Moves, AfterOpen, Injected
    <3>4. QED
      BY <1>1, <3>2, <3>3, WorkGoesOn
  <2>3. ASSUME NEW i \in InjectAgent(host, root.wim, version), Mounts(g, i, "putAgent")
        PROVE  ServeInv'
    <3>1. i.agent = version
      BY <2>3, RootImage, InjectedImages DEF Mounts, TypesInv
    <3>2. Turns(g)
      BY <1>1, <2>3 DEF Turns, Mounts
    <3>3. g # "import" => Phase(op[g])'
      BY <1>1, <2>1, <2>3, <3>1, PhaseOf DEF Phase, Mounts, AfterOpen, Injected
    <3>4. QED
      BY <1>1, <3>2, <3>3, WorkGoesOn
  <2>4. QED
    BY <2>1, <2>2, <2>3
<1>4. CASE MountForBootstrap(g) /\ ~(Ends(g) /\ disturbed' = TRUE)
  <2> DEFINE i == InjectBootstrap(root.wim, op[g].session)
  <2>1. op[g].at = "bootstrap" /\ Mounts(g, i, "putBootstrap")
    BY <1>4, MountBootstrapMoves
  <2>2. i.agent = root.wim.agent /\ i.session = op[g].session
    BY <2>1, RootImage DEF Mounts, InjectBootstrap, Images, WinpeImages
  <2> HIDE DEF i
  <2>3. Turns(g)
    BY <1>1, <2>1 DEF Turns, Mounts
  <2>4. g # "import" => Phase(op[g])'
    BY <1>1, <2>1, <2>2, PhaseOf DEF Phase, Mounts, AfterOpen, Injected, Carries
  <2>5. QED
    BY <1>1, <2>3, <2>4, WorkGoesOn
<1>5. QED
  BY <1>2, <1>3, <1>4

LEMMA PutServe ==
  ASSUME TypesInv, DigestsInv, PackageInv, ServeInv, NEW g \in Groups,
         PutImage(g) \/ SwapImage(g)
  PROVE  ServeInv'
<1>1. /\ Holding(op[g]) /\ UNCHANGED <<version, control, pxe, lost, owned>>
      /\ \/ Ends(g) /\ disturbed' = TRUE
         \/ \E next : Puts(g, next)
  BY PutMoves
<1>2. op[g].at # "idle"
  BY <1>1 DEF Holding
<1>3. CASE Ends(g) /\ disturbed' = TRUE
  BY <1>1, <1>2, <1>3, WorkGivesUp
<1>4. ASSUME NEW next, Puts(g, next) PROVE ServeInv'
  <2>1. /\ op'[g].at = next /\ op'[g].alone = op[g].alone /\ op'[g].session = op[g].session
        /\ op'[g].image = op[g].image /\ Others(g) /\ disturbed' = disturbed
        /\ root'.json = root.json /\ root'.there = root.there
        /\ root'.layout = root.layout /\ root'.script = root.script
    BY <1>4 DEF Puts, Moves
  <2>2. Turns(g)
    BY <1>1, <1>2, <1>4, <2>1 DEF Turns, Puts, AfterBootstrap
  <2>3. op[g].image # NoWim
    BY <1>1 DEF DigestsInv
  <2>4. ASSUME g # "import" PROVE Phase(op[g])'
    <3>1. CASE root'.wim = NoWim
      BY <1>1, <1>4, <2>1, <2>4, <3>1, <2>3, PhaseOf
      DEF Phase, Puts, Holding, AfterOpen, Injected, Carries
    <3>2. CASE root'.wim = op[g].image /\ op[g].at \in {"putAgent", "swapAgent"}
      BY <1>1, <1>4, <2>1, <2>3, <2>4, <3>2, PhaseOf
      DEF Phase, Puts, AfterOpen, Injected
    <3>3. CASE root'.wim = op[g].image /\ op[g].at \in {"putBootstrap", "swapBootstrap"}
      <4>1. next = AfterBootstrap
        BY <1>4, <2>3, <3>3 DEF Puts
      <4>2. QED
        BY <1>1, <2>1, <2>3, <2>4, <3>3, <4>1, PhaseOf
        DEF Phase, AfterOpen, Injected, Carries, AfterBootstrap
    <3>4. QED
      BY <1>1, <1>4, <3>1, <3>2, <3>3 DEF Puts, Holding
  <2>5. QED
    BY <1>1, <2>1, <2>2, <2>4, WorkGoesOn
<1>5. QED
  BY <1>1, <1>3, <1>4

LEMMA DigestsServe ==
  ASSUME TypesInv, ServeInv, NEW g \in Groups, WriteDigests(g)
  PROVE  ServeInv'
<1>1. op[g].at = "mark" /\ UNCHANGED <<version, control, pxe, lost, owned>>
  BY DEF WriteDigests
<1>2. CASE ~root.there
  <2>1. Ends(g) /\ disturbed' = TRUE
    BY <1>2, EndsCommand DEF WriteDigests, Fail
  <2>2. QED
    BY <1>1, <2>1, WorkGivesUp
<1>3. CASE root.there
  <2>1. Moves(g, "bootstrap") /\ disturbed' = disturbed
        /\ root' = [root EXCEPT !.mark = version]
    BY <1>3, GotoMoves DEF WriteDigests
  <2>2. /\ root'.wim = root.wim /\ root'.json = root.json /\ root'.there = root.there
        /\ root'.layout = root.layout /\ root'.script = root.script
    BY <2>1 DEF TypesInv, AllPackages, Packages
  <2>3. Turns(g)
    BY <1>1, <2>1 DEF Turns, Moves
  <2>4. g # "import" => Phase(op[g])'
    BY <1>1, <2>1, <2>2, PhaseOf DEF Phase, Moves, AfterOpen, Injected
  <2>5. QED
    BY <1>1, <2>2, <2>3, <2>4, WorkGoesOn
<1>4. QED
  BY <1>2, <1>3

LEMMA IsoServe ==
  ASSUME TypesInv, ServeInv, NEW g \in Groups, RefreshIso(g)
  PROVE  ServeInv'
<1>1. op[g].at = "iso" /\ UNCHANGED <<version, control, pxe, lost, owned>>
  BY DEF RefreshIso
<1>2. CASE Fail(g)
  <2>1. Ends(g) /\ disturbed' = TRUE
    BY <1>2, EndsCommand DEF Fail
  <2>2. QED
    BY <1>1, <2>1, WorkGivesUp
<1>3. CASE ~Fail(g)
  <2>1. Moves(g, "script") /\ disturbed' = disturbed
        /\ root' = [root EXCEPT !.iso = op[g].session]
    BY <1>3, GotoMoves DEF RefreshIso
  <2>2. /\ root'.wim = root.wim /\ root'.json = root.json /\ root'.there = root.there
        /\ root'.layout = root.layout /\ root'.script = root.script
        /\ root'.iso = op[g].session
    BY <2>1 DEF TypesInv, AllPackages, Packages
  <2>3. Turns(g)
    BY <1>1, <2>1 DEF Turns, Moves
  <2>4. g # "import" => Phase(op[g])'
    BY <1>1, <2>1, <2>2, PhaseOf DEF Phase, Moves, AfterOpen, Injected, Carries
  <2>5. QED
    BY <1>1, <2>2, <2>3, <2>4, WorkGoesOn
<1>4. QED
  BY <1>2, <1>3

\* A package that is whole and to be left without a dispatcher has none, and is
\* not one made from a medium.
LEMMA NothingToDispatch ==
  ASSUME TypesInv, PackageInv, Whole, ~Away, \A h \in Groups : op[h].at # "dynamic",
         ~(root.layout # "native" /\ FallbackScript(root).kind = "managed")
  PROVE  root.script.kind # "dispatcher" /\ ~owned
<1>1. root.script.kind # "dispatcher"
  BY DEF PackageInv, SoundInv, FallbackScript, DispatcherActive
<1>2. FallbackScript(root) = root.script
  BY <1>1 DEF FallbackScript, DispatcherActive
<1>3. ~owned
  BY <1>1, <1>2 DEF PackageInv, KeptInv, Manageable, ScriptByMarker, ManagedScript, NoScript
<1>4. QED
  BY <1>1, <1>3

LEMMA ReadServe ==
  ASSUME TypesInv, PackageInv, ServeInv, NEW g \in Groups, ReadScripts(g)
  PROVE  ServeInv'
<1>1. /\ op[g].at = "script"
      /\ op'[g].alone = op[g].alone /\ op'[g].session = op[g].session /\ Others(g)
      /\ UNCHANGED <<version, root, control, pxe, lost, owned, disturbed>>
      /\ \/ /\ root.layout # "native" /\ FallbackScript(root).kind = "managed"
            /\ op'[g].at = "fallback" /\ op'[g].ready = TRUE
         \/ /\ ~(root.layout # "native" /\ FallbackScript(root).kind = "managed")
            /\ op'[g].at = "finish" /\ op'[g].ready = FALSE
  BY ReadScriptsMoves
<1>2. Turns(g)
  BY <1>1 DEF Turns
<1>3. ASSUME g # "import", op[g].alone PROVE Phase(op[g])'
  <2>1. Phase(op[g]) /\ g \in {"control", "pxe"}
    BY <1>3, PhaseOf DEF Groups
  <2>2. ~Away /\ \A h \in Groups : op[h].at # "dynamic"
    BY <1>1, <1>3, <2>1, AloneWithPackage DEF AfterOpen
  <2>3. CASE op'[g].at = "fallback"
    BY <1>1, <1>3, <2>1, <2>3 DEF Phase, AfterOpen, Injected, Carries, Whole
  <2>4. CASE op'[g].at = "finish"
    <3>1. ~(root.layout # "native" /\ FallbackScript(root).kind = "managed")
          /\ op'[g].ready = FALSE
      BY <1>1, <2>4
    <3>2. Whole => root.script.kind # "dispatcher" /\ ~owned
      BY <2>2, <3>1, NothingToDispatch
    <3>3. QED
      BY <1>1, <1>3, <2>1, <2>4, <3>1, <3>2
      DEF Phase, AfterOpen, Injected, Carries, Whole
  <2>5. QED
    BY <1>1, <2>3, <2>4
<1>4. ASSUME g # "import" PROVE Phase(op[g])'
  BY <1>1, <1>3, <1>4 DEF Phase
<1>5. QED
  BY <1>1, <1>2, <1>4, WorkGoesOn

LEMMA WriteServe ==
  ASSUME TypesInv, PackageInv, ServeInv, NEW g \in Groups,
         WriteFallback(g) \/ WriteDispatcher(g) \/ MarkDynamic(g)
  PROVE  ServeInv'
<1>1. /\ op[g].at \in {"fallback", "dispatcher", "dynamic"}
      /\ UNCHANGED <<version, control, pxe, lost, owned>>
      /\ \/ Ends(g) /\ disturbed' = TRUE
         \/ WritesScript(g)
  BY WriteMoves
<1>2. CASE Ends(g) /\ disturbed' = TRUE
  BY <1>1, <1>2, WorkGivesUp
<1>3. CASE WritesScript(g)
  <2>1. Turns(g) /\ disturbed' = disturbed
    BY <1>1, <1>3 DEF WritesScript, Turns, Moves
  <2>2. ASSUME g # "import" PROVE Phase(op[g])'
    <3>1. Phase(op[g]) /\ (op[g].at = "fallback" => op[g].script.kind = "managed")
      BY <2>2, PhaseOf DEF PackageInv, CarriedInv
    <3>2. CASE op[g].at = "fallback"
      BY <1>1, <1>3, <3>1, <3>2
      DEF WritesScript, Moves, Phase, AfterOpen, Injected, Carries, Whole
    <3>3. CASE op[g].at = "dispatcher"
      BY <1>1, <1>3, <3>1, <3>3
      DEF WritesScript, Moves, Phase, AfterOpen, Injected, Carries, Whole
    <3>4. CASE op[g].at = "dynamic"
      BY <1>1, <1>3, <3>1, <3>4
      DEF WritesScript, Moves, Phase, AfterOpen, Injected, Carries, Whole,
          HasControlDispatcher, Dispatcher, NoScript
    <3>5. QED
      BY <1>1, <3>2, <3>3, <3>4
  <2>3. CASE g # "control"
    BY <2>1, <2>2, <2>3, WorkGoesOn
  <2>4. CASE g = "control" /\ op[g].alone
    <3>1. root.layout # "native"
      BY <1>1, <2>4, PhaseOf DEF Phase, AfterOpen
    <3>2. root'.layout # "native"
      BY <1>3, <3>1 DEF WritesScript
    <3>3. QED
      BY <1>1, <2>1, <2>2, <2>4, <3>2, WorkGoesOn
  <2>5. CASE ~op[g].alone
    <3>1. disturbed /\ Works(g)
      BY <1>1, <2>1, <2>5 DEF ServeInv, AloneInv, Works, Turns, Others
    <3>2. disturbed' = TRUE
      BY <2>1, <3>1 DEF TypesInv
    <3>3. QED
      BY <2>2, <3>1, <3>2, ServingByWork, AloneByWork, PhasesByWork DEF ServeInv
  <2>6. QED
    BY <2>3, <2>4, <2>5
<1>4. QED
  BY <1>1, <1>2, <1>3

\* The synchronisation of an alone command has come to its end.
LEMMA ServedAtTheEnd ==
  ASSUME TypesInv, ServeInv, NEW g \in Groups, g # "import",
         op[g].at \in {"finish", "listen"}, op[g].alone, Whole
  PROVE  Serves(control.session) /\ (op[g].ready => root.layout # "native")
         /\ (~op[g].ready => ~owned /\ root.script.kind # "dispatcher")
         /\ (root.layout = "native" => root.script.kind # "dispatcher")
<1>1. Phase(op[g]) /\ op[g].at \in AfterOpen /\ op[g].at \in Injected \ {"iso"}
      /\ op[g].at # "json"
  BY PhaseOf DEF AfterOpen, Injected
<1>2. op[g].session = control.session
  BY <1>1 DEF Phase
<1>3. /\ root.json = control.session
      /\ root.wim # NoWim => Carries(root.wim, control.session)
      /\ root.layout = "native" => root.iso = control.session
  BY <1>1, <1>2 DEF Phase
<1>4. CASE op[g].ready
  <2>1. HasControlDispatcher(root) /\ root.script = Dispatcher(control.session)
        /\ root.layout # "native"
    BY <1>1, <1>2, <1>4 DEF Phase
  <2>2. root.script.session = control.session
    BY <2>1 DEF Dispatcher, NoScript
  <2>3. QED
    BY <1>3, <1>4, <2>1, <2>2 DEF Serves
<1>5. CASE ~op[g].ready
  <2>1. root.script.kind # "dispatcher" /\ ~owned
    BY <1>1, <1>5 DEF Phase
  <2>2. QED
    BY <1>3, <1>5, <2>1 DEF Serves
<1>6. QED
  BY <1>4, <1>5

LEMMA FinishServe ==
  ASSUME TypesInv, ServeInv, NEW g \in Groups, FinishSync(g)
  PROVE  ServeInv'
<1>1. op[g].at = "finish" /\ UNCHANGED <<version, root, control, pxe, lost, owned>>
  BY DEF FinishSync
<1>2. CASE Fail(g)
  <2>1. Ends(g) /\ disturbed' = TRUE
    BY <1>2, EndsCommand DEF Fail
  <2>2. QED
    BY <1>1, <2>1, WorkGivesUp
<1>3. CASE ~Fail(g)
  <2>1. /\ IF g = "pxe" THEN Goto(g, "listen") ELSE op' = [op EXCEPT ![g] = NoOp]
        /\ disturbed' = (disturbed /\ ~PutsRight(g))
    BY <1>3 DEF FinishSync
  <2>2. IF g = "pxe" THEN Moves(g, "listen") ELSE Ends(g)
    <3>1. CASE g = "pxe"
      BY <2>1, <3>1, GotoMoves
    <3>2. CASE g # "pxe"
      BY <2>1, <3>2 DEF Ends, Others, TypesInv
    <3>3. QED
      BY <3>1, <3>2
  <2>3. disturbed' = disturbed \/ (disturbed' = FALSE /\ PutsRight(g))
    BY <2>1 DEF TypesInv
  <2>4. Works(g)
    BY <1>1, <2>2, <2>3 DEF Works, Moves, Ends, Others, PutsRight
  <2>5. g # "import" => Phase(op[g])'
    <3>1. CASE g = "pxe"
      BY <1>1, <2>2, <3>1, PhaseOf DEF Phase, Moves, AfterOpen, Injected, Carries, Whole
    <3>2. CASE g # "pxe"
      BY <2>2, <3>2, EarlyPhase DEF Ends, NoOp, AfterOpen
    <3>3. QED
      BY <3>1, <3>2
  <2>6. ServingInv'
    <3>1. CASE g # "control"
      BY <1>1, <2>4, <3>1, ServingByWork DEF ServeInv
    <3>2. CASE g = "control"
      <4> SUFFICES ASSUME pxe, ~disturbed', Whole
                   PROVE  ServingInv'
        BY <1>1 DEF ServingInv, Whole
      <4>1. op[g].alone
        BY <1>1, <2>3 DEF ServeInv, AloneInv, PutsRight
      <4>2. Serves(control.session)
        BY <1>1, <3>2, <4>1, ServedAtTheEnd
      <4>3. root.layout = "native" => root.script = Sanboot
        <5>1. CASE ~disturbed
          BY <5>1 DEF ServeInv, ServingInv
        <5>2. CASE disturbed
          BY <2>3, <3>2, <5>2 DEF PutsRight
        <5>3. QED
          BY <5>1, <5>2
      <4>4. QED
        BY <1>1, <4>2, <4>3 DEF ServingInv, Serves, Carries
    <3>3. QED
      BY <3>1, <3>2
  <2>7. QED
    BY <2>4, <2>5, <2>6, AloneByWork, PhasesByWork DEF ServeInv
<1>4. QED
  BY <1>2, <1>3

LEMMA ListenServe ==
  ASSUME TypesInv, ServeInv, Listen
  PROVE  ServeInv'
<1>0. "pxe" \in Groups /\ op["pxe"].at = "listen" /\ Ends("pxe")
      /\ UNCHANGED <<version, control, lost, owned>>
  BY EndsCommand DEF Listen, Groups
<1>1. disturbed' = disturbed \/ disturbed' = TRUE
  BY DEF Listen, Fail, Finish
<1>2. Works("pxe") /\ Phase(op["pxe"])'
  <2>1. Works("pxe")
    BY <1>0, <1>1 DEF Works, Ends, Others
  <2>2. op'["pxe"].at \notin AfterOpen
    BY <1>0 DEF Ends, NoOp, AfterOpen
  <2>3. QED
    BY <1>0, <2>1, <2>2, EarlyPhase
<1>3. ServingInv'
  <2>1. CASE pxe' = pxe
    BY <1>0, <1>2, <2>1, ServingByWork DEF ServeInv
  <2>2. CASE pxe' # pxe
    <3>1. /\ root' = [root EXCEPT !.script = IF root.layout = "native" THEN Sanboot ELSE @]
          /\ Finish("pxe")
      BY <2>2 DEF Listen
    <3>2. /\ root'.script = IF root.layout = "native" THEN Sanboot ELSE root.script
          /\ root'.layout = root.layout /\ root'.json = root.json /\ root'.wim = root.wim
          /\ root'.iso = root.iso /\ root'.dynamic = root.dynamic
          /\ root'.fallback = root.fallback
      BY <3>1 DEF TypesInv, AllPackages, Packages
    <3> SUFFICES ASSUME ~disturbed', Whole
                 PROVE  ServingInv'
      BY <1>0 DEF ServingInv, Whole
    <3>3. op["pxe"].alone
      BY <1>0, <3>1 DEF Finish, ServeInv, AloneInv
    <3>4. /\ Serves(control.session)
          /\ root.layout = "native" => root.script.kind # "dispatcher"
          /\ op["pxe"].ready => root.layout # "native"
          /\ ~op["pxe"].ready => ~owned
      BY <1>0, <3>3, ServedAtTheEnd
    <3>5. CASE root.layout = "native"
      BY <1>0, <3>2, <3>4, <3>5
      DEF ServingInv, Serves, Carries, Sanboot, NoScript
    <3>6. CASE root.layout # "native"
      BY <1>0, <3>2, <3>4, <3>6 DEF ServingInv, Serves, Carries, HasControlDispatcher
    <3>7. QED
      BY <3>5, <3>6
  <2>3. QED
    BY <2>1, <2>2
<1>4. QED
  BY <1>0, <1>2, <1>3, AloneByWork, PhasesByWork DEF ServeInv

LEMMA StartServe ==
  ASSUME TypesInv, ServeInv, EnsureNetworkBoot \/ RefreshesPackage \/ AskControl
  PROVE  ServeInv'
<1>0. "pxe" \in Groups /\ "pxe" # "control" /\ "pxe" # "import"
  BY DEF Groups
<1>1. CASE AskControl
  <2>1. /\ op["pxe"].at = "ask"
        /\ UNCHANGED <<version, root, control, pxe, lost, owned, disturbed>>
    BY <1>1 DEF AskControl, history
  <2>2. /\ op'["pxe"].alone = op["pxe"].alone /\ Others("pxe")
        /\ op'["pxe"].at = "open"
           \/ (op'["pxe"].at = "json" /\ op'["pxe"].session = control.session)
    BY <1>0, <1>1 DEF AskControl, TypesInv, Commands, Others
  <2>3. Works("pxe")
    BY <2>1, <2>2 DEF Works, Others
  <2>4. Phase(op["pxe"])'
    BY <2>1, <2>2 DEF Phase, AfterOpen, Injected
  <2>5. QED
    BY <1>0, <2>1, <2>3, <2>4, AloneByWork, PhasesByWork, ServingByWork DEF ServeInv
<1>2. CASE EnsureNetworkBoot
  <2>1. op["pxe"].at = "ensure" /\ pxe' = pxe /\ disturbed' = disturbed
    BY <1>2 DEF EnsureNetworkBoot, Finish
  <2>2. \/ Ends("pxe") \/ Moves("pxe", "ask")
        \/ /\ op'["pxe"].at = "aside" /\ op'["pxe"].alone = op["pxe"].alone /\ Others("pxe")
    <3>1. CASE op'["pxe"].at = "aside"
      BY <1>2, <3>1, EnsureEffect
    <3>2. CASE op'["pxe"].at # "aside"
      <4>1. ~(op' = [op EXCEPT !["pxe"].at = "aside",
                               !["pxe"].active = HasControlDispatcher(root),
                               !["pxe"].bcd = BcdByMarker(root), !["pxe"].here = TRUE])
        BY <1>0, <3>2 DEF TypesInv, Commands
      <4>2. Finish("pxe") \/ Goto("pxe", "ask")
        BY <1>2, <4>1 DEF EnsureNetworkBoot
      <4>3. QED
        BY <1>0, <4>2, EndsCommand, GotoMoves
    <3>3. QED
      BY <3>1, <3>2
  <2>3. Works("pxe") /\ op'["pxe"].at \notin AfterOpen
    BY <2>1, <2>2 DEF Works, Ends, Moves, Others, NoOp, AfterOpen
  <2>4. QED
    BY <1>0, <2>1, <2>3, EarlyPhase, AloneByWork, PhasesByWork, ServingByWork DEF ServeInv
<1>3. CASE RefreshesPackage
  <2>1. PICK step \in {"aside", "bcd", "loaders", "marker"},
             next \in {"bcd", "loaders", "marker", "ask"} :
          \E new, gone : Refresh(step, next, new, gone)
    BY <1>3 DEF RefreshesPackage, SetBcdAside, PutBcd, WriteLoaders, MarkManaged
  <2>2. PICK new, gone : Refresh(step, next, new, gone)
    BY <2>1
  <2>3. /\ op["pxe"].at = step /\ pxe' = pxe /\ disturbed' = disturbed
        /\ Ends("pxe") \/ Moves("pxe", next)
    BY <2>2, RefreshEffect
  <2>4. Works("pxe") /\ op'["pxe"].at \notin AfterOpen
    BY <2>3 DEF Works, Ends, Moves, Others, NoOp, AfterOpen
  <2>5. QED
    BY <1>0, <2>3, <2>4, EarlyPhase, AloneByWork, PhasesByWork, ServingByWork DEF ServeInv
<1>4. QED
  BY <1>1, <1>2, <1>3

LEMMA ForgetServe ==
  ASSUME TypesInv, ServeInv, ForgetBootstrap
  PROVE  ServeInv'
<1>0. "control" \in Groups /\ "control" # "import"
  BY DEF Groups
<1>1. /\ op["control"].at = "forget"
      /\ root' = [root EXCEPT !.json = 0] /\ Ends("control")
      /\ UNCHANGED <<control, pxe, lost, disturbed>>
  BY <1>0 DEF ForgetBootstrap, history, Ends, Others, TypesInv
<1>2. root'.layout = root.layout /\ root'.script = root.script
  BY <1>1 DEF TypesInv, AllPackages, Packages
<1>3. Works("control") /\ op'["control"].at \notin AfterOpen
  BY <1>1 DEF Works, Ends, Others, NoOp, AfterOpen
<1>4. ~disturbed => control'.state # "running"
  BY <1>0, <1>1 DEF ServeInv, AloneInv
<1>5. disturbed = TRUE \/ disturbed = FALSE
  BY DEF TypesInv
<1>6. ServingInv'
  <2>1. CASE disturbed = TRUE
    BY <1>1, <2>1 DEF ServingInv
  <2>2. CASE disturbed = FALSE
    BY <1>0, <1>1, <1>2, <1>3, <1>4, <2>2, ServingByWork DEF ServeInv
  <2>3. QED
    BY <1>5, <2>1, <2>2
<1>7. QED
  BY <1>0, <1>3, <1>6, EarlyPhase, AloneByWork, PhasesByWork DEF ServeInv

LEMMA ImportServe ==
  ASSUME TypesInv, ServeInv, MoveAside \/ PlacePackage \/ InjectSaved
  PROVE  ServeInv'
<1>0. "import" \in Groups /\ "import" # "control"
  BY DEF Groups
<1>1. Works("import") /\ pxe' = pxe
  <2>1. CASE MoveAside
    <3>1. /\ op["import"].at = "away" /\ pxe' = pxe /\ disturbed' = disturbed
          /\ Ends("import") \/ MovesAway
      BY <2>1, MoveAsideMoves
    <3>2. QED
      BY <3>1 DEF Works, Ends, Others, MovesAway
  <2>2. CASE PlacePackage
    <3>1. /\ op["import"].at = "place" /\ pxe' = pxe /\ disturbed' = disturbed
          /\ Ends("import") \/ Moves("import", "saved")
      BY <2>2, PlaceMoves DEF Places
    <3>2. QED
      BY <3>1 DEF Works, Ends, Others, Moves
  <2>3. CASE InjectSaved
    <3>1. op["import"].at = "saved" /\ pxe' = pxe /\ disturbed' = disturbed
      BY <2>3 DEF InjectSaved, history
    <3>2. Others("import")
          /\ \/ op'["import"] = NoOp
             \/ op'["import"].at = "bootstrap" /\ op'["import"].alone = op["import"].alone
      <4>1. CASE root.json = 0
        BY <1>0, <2>3, <4>1 DEF InjectSaved, TypesInv, Others
      <4>2. CASE root.json # 0
        BY <1>0, <2>3, <4>2 DEF InjectSaved, TypesInv, Commands, Others
      <4>3. QED
        BY <4>1, <4>2
    <3>3. QED
      BY <3>1, <3>2 DEF Works, Others
  <2>4. QED
    BY <2>1, <2>2, <2>3
<1>2. QED
  BY <1>0, <1>1, AloneByWork, PhasesByWork, ServingByWork DEF ServeInv

\* A command that begins beside another disturbs it.
LEMMA BeginServe ==
  ASSUME TypesInv, ServeInv, NEW g \in Groups, NEW new \in Commands, Begin(g, new),
         new.at \in {"idle", "open", "forget", "ensure", "away"},
         new.at = "forget" => g = "control" /\ control'.state # "running",
         new.at # "idle" /\ g \in {"pxe", "import"} => ~pxe,
         UNCHANGED <<version, root, pxe, lost, owned>>,
         control' = control \/ control'.state # "running"
  PROVE  ServeInv'
<1>0. {"control", "pxe", "import"} \subseteq Groups
  BY DEF Groups
<1>1. /\ op[g].at = "idle" /\ op'[g].at = new.at
      /\ \A h \in Groups \ {g} : op'[h].at = op[h].at
  BY BeginStays DEF Stays
<1>2. /\ \A h \in Groups \ {g} : op'[h].alone = (op[h].at = "idle")
      /\ op'[g].alone = (Idle \/ new.at = "idle")
      /\ disturbed' = (disturbed \/ ~Idle)
  <2>1. ASSUME NEW c \in Commands, NEW b PROVE [c EXCEPT !.alone = b].alone = b
    BY DEF Commands
  <2>2. ASSUME NEW h \in Groups \ {g} PROVE op'[h].alone = (op[h].at = "idle")
    <3> DEFINE b == op[h].at = "idle"
    <3>1. op'[h] = [op[h] EXCEPT !.alone = b] /\ op[h] \in Commands
      BY DEF Begin, TypesInv
    <3> HIDE DEF b
    <3>2. op'[h].alone = b
      BY <2>1, <3>1
    <3>3. QED
      BY <3>2 DEF b
  <2>3. op'[g].alone = (Idle \/ new.at = "idle")
    <3> DEFINE b == Idle \/ new.at = "idle"
    <3>1. op'[g] = [new EXCEPT !.alone = b]
      BY DEF Begin
    <3> HIDE DEF b
    <3>2. op'[g].alone = b
      BY <2>1, <3>1
    <3>3. QED
      BY <3>2 DEF b
  <2>4. disturbed' = (disturbed \/ ~Idle)
    BY DEF Begin
  <2>5. QED
    BY <2>2, <2>3, <2>4
<1>3. ~disturbed' => ~disturbed /\ Idle
  BY <1>2
<1>4. \A h \in Groups : op'[h].at # "idle" /\ op'[h].alone => h = g /\ Idle
  BY <1>1, <1>2
<1>5. AloneInv'
  <2>1. ~disturbed' => \A h \in Groups : op'[h].at # "idle" => op'[h].alone
    BY <1>1, <1>2, <1>3 DEF Idle
  <2>2. \A x \in Groups : op'[x].at # "idle" /\ op'[x].alone =>
           \A h \in Groups \ {x} : op'[h].at = "idle"
    BY <1>1, <1>4 DEF Idle
  <2>3. pxe' => op'["pxe"].at = "idle"
    BY <1>0, <1>1 DEF ServeInv, AloneInv
  <2>4. pxe' => ~(op'["import"].at # "idle" /\ op'["import"].alone)
    BY <1>0, <1>1, <1>4
  <2>5. op'["control"].at = "forget" /\ op'["control"].alone => control'.state # "running"
    BY <1>0, <1>1, <1>4
  <2>6. QED
    BY <2>1, <2>2, <2>3, <2>4, <2>5 DEF AloneInv
<1>6. \A h \in Groups : ~(op'[h].alone /\ op'[h].at \in AfterOpen)
  BY <1>1, <1>4 DEF AfterOpen, Idle
<1>7. PhaseInv'
  BY <1>0, <1>6 DEF PhaseInv, Phase
<1>8. ServingInv'
  <2> SUFFICES ASSUME pxe, ~disturbed', Whole
               PROVE  ServingInv'
    BY DEF ServingInv, Whole
  <2>1. ~disturbed /\ op["control"].at = "idle"
    BY <1>0, <1>3 DEF Idle
  <2>2. QED
    BY <2>1 DEF ServeInv, ServingInv, Serves, Carries, HasControlDispatcher
<1>9. QED
  BY <1>5, <1>7, <1>8 DEF ServeInv

LEMMA BeginsServe ==
  ASSUME TypesInv, ServeInv,
         StartControl \/ StopControl \/ StartPxe \/ ImportMedia \/ ImportDirectory
  PROVE  ServeInv'
<1>0. {"control", "pxe", "import"} \subseteq Groups
  BY DEF Groups
<1>1. \A s \in {"idle", "open", "forget", "ensure"} :
        [NoOp EXCEPT !.at = s] \in Commands /\ [NoOp EXCEPT !.at = s].at = s
  BY NoOpType DEF Commands, Steps, NoOp
<1>2. CASE StartControl
  <2>1. Begin("control", [NoOp EXCEPT !.at = "open"])
        /\ UNCHANGED <<version, root, control, pxe, lost, owned>>
    BY <1>2 DEF StartControl
  <2>2. QED
    BY <1>0, <1>1, <2>1, BeginServe
<1>3. CASE StopControl
  <2>1. PICK s \in {"forget", "idle"} : Begin("control", [NoOp EXCEPT !.at = s])
    BY <1>3 DEF StopControl
  <2>2. control'.state # "running" /\ UNCHANGED <<version, root, pxe, lost, owned>>
    BY <1>3 DEF StopControl
  <2>3. QED
    BY <1>0, <1>1, <2>1, <2>2, BeginServe
<1>4. CASE StartPxe
  <2>1. ~pxe /\ Begin("pxe", [NoOp EXCEPT !.at = "ensure"])
        /\ UNCHANGED <<version, root, control, pxe, lost, owned>>
    BY <1>4 DEF StartPxe
  <2>2. QED
    BY <1>0, <1>1, <2>1, BeginServe
<1>5. CASE ImportMedia \/ ImportDirectory
  <2>1. ~pxe /\ UNCHANGED <<version, root, control, pxe, lost, owned>>
    BY <1>5 DEF ImportMedia, ImportDirectory
  <2>2. CASE Begin("import", NoOp)
    BY <1>0, <2>1, <2>2, NoOpType, BeginServe DEF NoOp
  <2>3. ASSUME NEW p \in AllPackages, NEW v \in Origins, NEW m \in BOOLEAN,
               Begin("import", [NoOp EXCEPT !.at = "away", !.package = p, !.media = m,
                                            !.vendor = v])
        PROVE  ServeInv'
    <3> DEFINE new == [NoOp EXCEPT !.at = "away", !.package = p, !.media = m, !.vendor = v]
    <3>1. new.at = "away" /\ new \in Commands
      BY NoOpType DEF NoOp, Commands, Steps, AllPackages, Origins
    <3>2. Begin("import", new)
      BY <2>3
    <3> HIDE DEF new
    <3>3. QED
      BY <1>0, <2>1, <3>1, <3>2, BeginServe
  <2>4. CASE ImportMedia /\ ~Begin("import", NoOp)
    <3>1. PICK m \in media : \E w \in Selected(m) : \E p \in BuildPackage(host, m, w, version) :
            Begin("import", [NoOp EXCEPT !.at = "away", !.package = p, !.media = TRUE,
                                         !.vendor = w.image])
      BY <2>4 DEF ImportMedia
    <3>2. PICK w \in Selected(m) : \E p \in BuildPackage(host, m, w, version) :
            Begin("import", [NoOp EXCEPT !.at = "away", !.package = p, !.media = TRUE,
                                         !.vendor = w.image])
      BY <3>1
    <3>3. PICK p \in BuildPackage(host, m, w, version) :
            Begin("import", [NoOp EXCEPT !.at = "away", !.package = p, !.media = TRUE,
                                         !.vendor = w.image])
      BY <3>2
    <3>4. p \in AllPackages /\ w.image \in Origins
      BY <3>1, <3>2, <3>3, BuiltPackage DEF Origins
    <3>5. QED
      BY <2>3, <3>3, <3>4
  <2>5. CASE ImportDirectory /\ ~Begin("import", NoOp)
    <3>1. /\ copy \in AllPackages /\ version \in Versions
          /\ copy.wim \in Images /\ copy.wim # NoWim
          /\ vendor.copy \in Origins
      BY <2>5 DEF ImportDirectory, TypesInv, AllPackages, Packages, Images
    <3>2. PICK i \in (IF copy.mark = version THEN {copy.wim}
                      ELSE InjectAgent(host, copy.wim, version)) :
            Begin("import", [NoOp EXCEPT !.at = "away",
                                         !.package = [copy EXCEPT !.wim = i, !.mark = version],
                                         !.media = FALSE, !.vendor = vendor.copy])
      BY <2>5 DEF ImportDirectory
    <3>3. i \in Images
      BY <3>1, <3>2, InjectedImages
    <3>4. [copy EXCEPT !.wim = i, !.mark = version] \in AllPackages
      BY <3>1, <3>3 DEF AllPackages, Packages, Images
    <3>5. QED
      BY <2>3, <3>1, <3>2, <3>4
  <2>6. QED
    BY <1>5, <2>2, <2>4, <2>5
<1>6. QED
  BY <1>2, <1>3, <1>4, <1>5

LEMMA IdleServe ==
  ASSUME TypesInv, ServeInv,
         ServerDies \/ StopPxe \/ CopyPackage \/ Restart \/ UNCHANGED vars
  PROVE  ServeInv'
<1>0. {"control", "pxe", "import"} \subseteq Groups
  BY DEF Groups
<1>1. CASE ServerDies \/ StopPxe \/ CopyPackage \/ UNCHANGED vars
  <2>1. /\ UNCHANGED <<version, root, op, owned, disturbed>>
        /\ lost'.root = lost.root /\ control'.session = control.session
        /\ pxe' => pxe
        /\ control'.state = "running" => control.state = "running"
    BY <1>1 DEF ServerDies, StopPxe, CopyPackage, vars, history, TypesInv
  <2>2. AloneInv'
    BY <2>1 DEF ServeInv, AloneInv
  <2>3. PhaseInv'
    BY <2>1 DEF ServeInv, PhaseInv, Phase, Carries, Whole, HasControlDispatcher
  <2>4. ServingInv'
    BY <2>1 DEF ServeInv, ServingInv, Serves, Carries, Whole, HasControlDispatcher
  <2>5. QED
    BY <2>2, <2>3, <2>4 DEF ServeInv
<1>2. CASE Restart
  <2>1. /\ pxe' = FALSE /\ \A g \in Groups : op'[g].at = "idle"
        /\ disturbed' = disturbed
    BY <1>2 DEF Restart, NoOp
  <2>2. QED
    BY <1>0, <2>1 DEF ServeInv, AloneInv, PhaseInv, Phase, ServingInv, AfterOpen
<1>3. QED
  BY <1>1, <1>2

LEMMA ServeStep ==
  ASSUME TypesInv, DigestsInv, PackageInv, ServeInv, [Next]_vars
  PROVE  ServeInv'
<1>1. CASE UNCHANGED vars
  BY <1>1, IdleServe
<1>2. CASE Next
  BY <1>2, OpenServe, WriteBootstrapServe, MountServe, PutServe, DigestsServe, IsoServe,
     ReadServe, WriteServe, FinishServe, ListenServe, StartServe, ForgetServe, ImportServe,
     BeginsServe, IdleServe DEF Next, RefreshesPackage
<1>3. QED
  BY <1>1, <1>2

\* While PXE serves and the control plane runs, machines boot the current Agent
\* with the current token, unless a synchronisation failed or two commands
\* overlapped and none went through alone since, or a crash cut a swap or a
\* dispatcher short.
THEOREM RunningServiceServesTheSession == Spec => []ServesTheSession
<1>1. Init => TypesInv /\ DigestsInv /\ PackageInv /\ ServeInv
  BY InitialTypes, InitialDigests, InitialPackage, InitialServe
<1>2. TypesInv /\ DigestsInv /\ PackageInv /\ ServeInv /\ [Next]_vars =>
        TypesInv' /\ DigestsInv' /\ PackageInv' /\ ServeInv'
  BY TypesStep, DigestsStep, PackageStep, ServeStep
<1>3. ServeInv => ServesTheSession
  BY DEF ServeInv, ServingInv, Serves, Carries, Whole, ServesTheSession, Idle, Groups
<1>4. QED
  BY <1>1, <1>2, <1>3, PTL DEF Spec
=============================================================================

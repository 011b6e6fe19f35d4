----------------------------- MODULE BootMedia ------------------------------
(***************************************************************************)
(* The commands of the desktop application that change the PXE package     *)
(* while services start, stop and crash: importing a medium or a package   *)
(* directory, starting and stopping the control plane, and starting and    *)
(* stopping the PXE service.                                               *)
(*                                                                         *)
(* A command is a process of its own that goes through its steps one file  *)
(* operation at a time. The settings page gives each of the three groups   *)
(* of buttons a loading state of its own, so at most one command of each   *)
(* group is in flight, and commands of different groups overlap.           *)
(*                                                                         *)
(* The control plane invents a token each time it starts: a session is     *)
(* that token together with the address it serves.                         *)
(***************************************************************************)
EXTENDS BootPackage

CONSTANTS
  LastVersion,    \* versions of the program, 1 .. LastVersion
  MaxSessions,    \* a bound on the control plane's starts
  \* How a behaviour may begin: the package directory an earlier version left
  \* and the vendor's image in it, the media at hand, and the bounds on calls,
  \* calls that overlap, restarts and faults.
  Scenarios

ASSUME BootMediaAssumption == LastVersion \in Nat \ {0} /\ MaxSessions \in Nat

VARIABLES
  host,       \* the operating system the application runs on
  version,    \* the version of the application, and of its Agent
  root,       \* pxe_boot_root
  copy,       \* a directory the operator copied the package to
  control,    \* the control plane: [state, session]
  pxe,        \* whether the PXE service is running
  op,         \* the command in flight of each group of buttons
  media,      \* the PE media the operator has
  budget,     \* what is left of the bounds
  vendor,     \* history: the vendor's image boot.wim comes from, by place
  disturbed,  \* history: a synchronisation failed or was overlapped
  lost,       \* history: what a crash or an overlap took, by place: for good, but
              \* for the boot configuration, which the next refresh puts back
  owned       \* history: the package was made from a medium

vars == <<host, version, root, copy, control, pxe, op, media, budget, vendor, disturbed,
          lost, owned>>
history == <<vendor, disturbed, lost, owned>>

Groups   == {"control", "pxe", "import"}
Versions == 0 .. LastVersion
Sessions == 0 .. MaxSessions

\* A package whose dispatcher, if it has one, was completed, and whose native
\* ISO, if it is one, has the boot.wim it was built from.
Sound(p) ==
  /\ p.there \/ p = Absent
  /\ p.script.kind = "dispatcher" =>
       p.dynamic /\ p.fallback.kind = "managed" /\ p.layout # "native"
  /\ p.layout = "native" => p.wim # NoWim

\* What version 0 of the program left has no Agent in it, and digests of none;
\* every image comes from a vendor.
ASSUME ScenariosAssumption ==
  \A s \in Scenarios :
    /\ s.package \in Packages(Versions, Sessions) /\ s.package.mark = 0
    /\ Sound(s.package)
    /\ s.vendor \in VendorImages \cup {NoWim} /\ s.package.wim = s.vendor
    /\ \A m \in s.media : \A w \in m.wims : w.image \in VendorImages
    /\ {s.calls, s.overlaps, s.crashes, s.faults} \subseteq Nat

Steps == {"idle", "forget", "ensure", "aside", "bcd", "loaders", "marker", "ask", "open",
          "json", "agent", "putAgent", "swapAgent", "mark", "bootstrap", "putBootstrap",
          "swapBootstrap", "iso", "script", "fallback", "dispatcher", "dynamic", "finish",
          "listen", "away", "place", "saved"}

\* "here": the directory the command keeps its working files in is still the root.
NoOp == [at |-> "idle", alone |-> TRUE, session |-> 0, image |-> NoWim, package |-> Absent,
         old |-> FALSE, media |-> FALSE, vendor |-> NoWim, script |-> NoScript,
         bcd |-> NoBcd, active |-> FALSE, ready |-> FALSE, here |-> TRUE]

Idle == \A g \in Groups : op[g].at = "idle"

Init ==
  /\ host \in Hosts
  /\ version = 1
  /\ \E s \in Scenarios :
       /\ root = s.package /\ vendor = [root |-> s.vendor, copy |-> NoWim]
       /\ media = s.media
       /\ budget = [calls |-> s.calls, overlaps |-> s.overlaps, crashes |-> s.crashes,
                    faults |-> s.faults, sessions |-> MaxSessions]
  /\ copy = Absent
  /\ control = [state |-> "stopped", session |-> 0]
  /\ pxe = FALSE
  /\ op = [g \in Groups |-> NoOp]
  /\ disturbed = FALSE
  /\ lost = [root |-> {}, copy |-> {}]
  /\ owned = FALSE

-----------------------------------------------------------------------------
(* How a command begins, goes on and ends. *)

Call == budget.calls > 0 /\ budget' = [budget EXCEPT !.calls = @ - 1]
Fault == budget.faults > 0 /\ budget' = [budget EXCEPT !.faults = @ - 1]

\* A command that begins while another is in flight disturbs both.
Begin(g, new) ==
  /\ budget.calls > 0 /\ (Idle \/ budget.overlaps > 0)
  /\ budget' = [budget EXCEPT !.calls = @ - 1, !.overlaps = IF Idle THEN @ ELSE @ - 1]
  /\ op[g].at = "idle"
  /\ op' = [h \in Groups |->
               IF h # g THEN [op[h] EXCEPT !.alone = (op[h].at = "idle")]
               ELSE [new EXCEPT !.alone = (Idle \/ new.at = "idle")]]
  /\ disturbed' = (disturbed \/ ~Idle)

Goto(g, step) == op' = [op EXCEPT ![g].at = step]

\* The end of a command that left nothing half synchronised, and an error in
\* the middle of a synchronisation.
Finish(g) == op' = [op EXCEPT ![g] = NoOp] /\ UNCHANGED disturbed
Fail(g)   == op' = [op EXCEPT ![g] = NoOp] /\ disturbed' = TRUE

-----------------------------------------------------------------------------
(* start_control_plane, stop_control_plane. *)

StartControl ==
  /\ Begin("control", [NoOp EXCEPT !.at = "open"])
  /\ UNCHANGED <<host, media, version, root, copy, control, pxe, vendor, lost, owned>>

\* ControlPlane::start: a server that died is put away, a live one refuses.
OpenSession(g) ==
  /\ op[g].at = "open"
  /\ UNCHANGED <<host, media, version, root, copy, pxe, vendor, lost, owned>>
  /\ IF control.state = "running"
     THEN Finish(g) /\ UNCHANGED <<control, budget>>
     ELSE /\ budget.sessions > 0
          /\ \/ LET session == MaxSessions + 1 - budget.sessions
                IN /\ control' = [state |-> "running", session |-> session]
                   /\ budget' = [budget EXCEPT !.sessions = @ - 1]
                   /\ op' = [op EXCEPT ![g].at = "json", ![g].session = session]
                   /\ UNCHANGED disturbed
             \/ /\ Fault      \* the address is taken: bind failed
                /\ control' = [state |-> "stopped", session |-> 0]
                /\ Finish(g)

\* ControlPlane::stop; the error of a server that died ends the command.
StopControl ==
  /\ control.state # "stopped"
  /\ Begin("control", [NoOp EXCEPT !.at = IF control.state = "running" THEN "forget" ELSE "idle"])
  /\ control' = [state |-> "stopped", session |-> 0]
  /\ UNCHANGED <<host, media, version, root, copy, pxe, vendor, lost, owned>>

ForgetBootstrap ==
  /\ op["control"].at = "forget"
  /\ root' = [root EXCEPT !.json = 0]
  /\ op' = [op EXCEPT !["control"] = NoOp]
  /\ UNCHANGED <<host, media, version, copy, control, pxe, budget, history>>

\* The task of the server ends by itself.
ServerDies ==
  /\ control.state = "running"
  /\ Fault
  /\ control' = [control EXCEPT !.state = "dead"]
  /\ UNCHANGED <<host, media, version, root, copy, pxe, op, history>>

-----------------------------------------------------------------------------
(* start_pxe_service: refresh the package, start or ask the control plane, *)
(* synchronise, listen. The page offers it only while PXE is not running.  *)

StartPxe ==
  /\ ~pxe
  /\ Begin("pxe", [NoOp EXCEPT !.at = "ensure"])
  /\ UNCHANGED <<host, media, version, root, copy, control, pxe, vendor, lost, owned>>

\* ensure_managed_network_boot, up to where it starts to replace files.
EnsureNetworkBoot ==
  /\ op["pxe"].at = "ensure"
  /\ UNCHANGED <<host, media, version, copy, control, pxe, vendor, lost, owned>>
  /\ \/ /\ root.layout \in {"oldNative", "v5"}
        /\ Finish("pxe") /\ UNCHANGED <<root, budget>>
     \/ /\ root.layout = "native"
        /\ root' = [root EXCEPT !.script = Placeholder]
        /\ Goto("pxe", "ask") /\ UNCHANGED <<budget, disturbed>>
     \/ /\ root.layout \notin {"oldNative", "v5", "native"}
        /\ UNCHANGED root
        /\ \/ /\ ~IsManaged(root)
              /\ Goto("pxe", "ask") /\ UNCHANGED <<budget, disturbed>>
           \/ /\ IsManaged(root) /\ root.wim.loader # "none"
              /\ op' = [op EXCEPT !["pxe"].at = "aside",
                                  !["pxe"].active = HasControlDispatcher(root),
                                  !["pxe"].bcd = BcdByMarker(root), !["pxe"].here = TRUE]
              /\ UNCHANGED <<budget, disturbed>>
           \/ /\ IsManaged(root) /\ root.wim.loader = "none"
              /\ Finish("pxe") /\ UNCHANGED budget
           \/ /\ IsManaged(root) /\ Fault      \* the image was not read, or no BCD written
              /\ Finish("pxe")

\* Another command may have put another directory in place of this one, which
\* took the new boot configuration along: the old one is then put back.
Refresh(step, next, new, gone) ==
  /\ op["pxe"].at = step
  /\ UNCHANGED <<host, media, version, copy, control, pxe, budget, vendor, owned>>
  /\ IF ~root.there \/ (step \in {"aside", "bcd"} /\ ~op["pxe"].here)
     THEN Finish("pxe") /\ UNCHANGED <<root, lost>>
     ELSE /\ root' = new /\ lost' = [lost EXCEPT !.root = gone]
          /\ Goto("pxe", next) /\ UNCHANGED disturbed

SetBcdAside ==
  Refresh("aside", "bcd", [root EXCEPT !.bcd = NoBcd], lost.root \cup {"bcd"})
PutBcd ==
  Refresh("bcd", "loaders", [root EXCEPT !.bcd = op["pxe"].bcd], lost.root \ {"bcd"})
WriteLoaders ==
  Refresh("loaders", "marker",
          IF op["pxe"].active THEN [root EXCEPT !.fallback = ScriptByMarker(root)]
                              ELSE [root EXCEPT !.script = ScriptByMarker(root)], lost.root)
MarkManaged == Refresh("marker", "ask", [root EXCEPT !.layout = "managed"], lost.root)

AskControl ==
  /\ op["pxe"].at = "ask"
  /\ op' = IF control.state = "running"
           THEN [op EXCEPT !["pxe"].at = "json", !["pxe"].session = control.session]
           ELSE [op EXCEPT !["pxe"].at = "open"]
  /\ UNCHANGED <<host, media, version, root, copy, control, pxe, budget, history>>

\* PxeService::start: the boot files must be there; another DHCP server or a
\* taken port makes it fail; a native ISO gets the port it is served at.
Listen ==
  /\ op["pxe"].at = "listen"
  /\ UNCHANGED <<host, media, version, copy, control, vendor, lost, owned>>
  /\ \/ root.json = 0 /\ Fail("pxe") /\ UNCHANGED <<root, pxe, budget>>
     \/ ~root.files /\ Finish("pxe") /\ UNCHANGED <<root, pxe, budget>>
     \/ root.json # 0 /\ root.files /\ Fault /\ Finish("pxe") /\ UNCHANGED <<root, pxe>>
     \/ /\ root.json # 0 /\ root.files
        /\ root' = [root EXCEPT !.script = IF root.layout = "native" THEN Sanboot ELSE @]
        /\ pxe' = TRUE
        /\ Finish("pxe") /\ UNCHANGED budget

StopPxe ==
  /\ pxe
  /\ op["pxe"].at = "idle"
  /\ Call
  /\ pxe' = FALSE
  /\ UNCHANGED <<host, media, version, root, copy, control, op, history>>

-----------------------------------------------------------------------------
(* sync_agent_bootstrap, which both starts share; an import goes through   *)
(* its last part with the bootstrap file the package itself contains.      *)

WriteBootstrap(g) ==
  /\ op[g].at = "json"
  /\ root' = [root EXCEPT !.there = TRUE, !.json = op[g].session]
  /\ Goto(g, IF root.wim # NoWim THEN "agent" ELSE "script")
  /\ UNCHANGED <<host, media, version, copy, control, pxe, budget, history>>

\* DISM mounts an image for one writer only; wimlib works on a copy.
CanMount(g) ==
  /\ root.wim # NoWim
  /\ host = "windows" => \A h \in Groups \ {g} : op[h].at \notin {"putAgent", "putBootstrap"}

Mount(g, images, next) ==
  /\ UNCHANGED <<host, media, version, root, copy, control, pxe, vendor, lost, owned>>
  /\ \/ /\ CanMount(g)
        /\ \E i \in images : op' = [op EXCEPT ![g].at = next, ![g].image = i, ![g].here = TRUE]
        /\ UNCHANGED <<budget, disturbed>>
     \/ (~CanMount(g) \/ images = {}) /\ Fail(g) /\ UNCHANGED budget
     \/ CanMount(g) /\ Fault /\ Fail(g)

\* BootPackage::ensure_agent_runtime.
MountForAgent(g) ==
  /\ op[g].at = "agent"
  /\ IF root.wim # NoWim /\ root.mark = version
     THEN Goto(g, "bootstrap")
          /\ UNCHANGED <<host, media, version, root, copy, control, pxe, budget, history>>
     ELSE Mount(g, IF root.wim = NoWim THEN {} ELSE InjectAgent(host, root.wim, version),
                "putAgent")

\* BootPackage::inject_agent_bootstrap.
MountForBootstrap(g) ==
  /\ op[g].at = "bootstrap"
  /\ Mount(g, IF root.wim = NoWim THEN {} ELSE {InjectBootstrap(root.wim, op[g].session)},
           "putBootstrap")

AfterBootstrap == IF root.layout = "native" THEN "iso" ELSE "script"

\* The end of an injection: DISM commits the mounted image; mutate_wim_with_tree
\* moves boot.wim aside and, in the next step, the copy in its place.
PutImage(g) ==
  /\ op[g].at \in {"putAgent", "putBootstrap"}
  /\ UNCHANGED <<host, media, version, copy, control, pxe, budget, vendor, lost, owned>>
  /\ LET agent == op[g].at = "putAgent"
     IN IF root.wim = NoWim \/ ~op[g].here THEN Fail(g) /\ UNCHANGED root
        ELSE /\ root' = [root EXCEPT !.wim = IF host = "macos" THEN NoWim ELSE op[g].image]
             /\ Goto(g, IF host = "macos" THEN IF agent THEN "swapAgent" ELSE "swapBootstrap"
                        ELSE IF agent THEN "mark" ELSE AfterBootstrap)
             /\ UNCHANGED disturbed

SwapImage(g) ==
  /\ op[g].at \in {"swapAgent", "swapBootstrap"}
  /\ UNCHANGED <<host, media, version, copy, control, pxe, budget, vendor, lost, owned>>
  /\ IF ~op[g].here THEN Fail(g) /\ UNCHANGED root
     ELSE /\ root' = [root EXCEPT !.wim = op[g].image]
          /\ Goto(g, IF op[g].at = "swapAgent" THEN "mark" ELSE AfterBootstrap)
          /\ UNCHANGED disturbed

WriteDigests(g) ==
  /\ op[g].at = "mark"
  /\ UNCHANGED <<host, media, version, copy, control, pxe, budget, vendor, lost, owned>>
  /\ IF ~root.there THEN Fail(g) /\ UNCHANGED root
     ELSE /\ root' = [root EXCEPT !.mark = version]
          /\ Goto(g, "bootstrap") /\ UNCHANGED disturbed

\* refresh_native_iso_bootstrap, on the one host that can, if the ISO is still there.
RefreshIso(g) ==
  /\ op[g].at = "iso"
  /\ UNCHANGED <<host, media, version, copy, control, pxe, vendor, lost, owned>>
  /\ \/ /\ host = "windows" /\ root.layout = "native"
        /\ root' = [root EXCEPT !.iso = op[g].session]
        /\ Goto(g, "script") /\ UNCHANGED <<budget, disturbed>>
     \/ ~(host = "windows" /\ root.layout = "native") /\ Fail(g) /\ UNCHANGED <<root, budget>>
     \/ host = "windows" /\ Fault /\ Fail(g) /\ UNCHANGED root

\* configure_control_dispatcher: which script to fall back to, if it is ours.
SaveRootScript(g) ==
  /\ op[g].at = "script"
  /\ LET mine == root.layout # "native" /\ root.script.kind # "none"
     IN op' = [op EXCEPT ![g].at = IF mine THEN "fallback" ELSE "finish",
                         ![g].script = IF mine THEN root.script ELSE NoScript,
                         ![g].ready = mine]
  /\ UNCHANGED <<host, media, version, root, copy, control, pxe, budget, history>>

ReadScripts(g) ==
  /\ op[g].at = "script"
  /\ LET mine == root.layout # "native" /\ FallbackScript(root).kind = "managed"
     IN op' = [op EXCEPT ![g].at = IF mine THEN "fallback" ELSE "finish",
                         ![g].script = IF mine THEN FallbackScript(root) ELSE NoScript,
                         ![g].ready = mine]
  /\ UNCHANGED <<host, media, version, root, copy, control, pxe, budget, history>>

WriteFallback(g) ==
  /\ op[g].at = "fallback"
  /\ root' = [root EXCEPT !.there = TRUE, !.fallback = op[g].script]
  /\ Goto(g, "dispatcher")
  /\ UNCHANGED <<host, media, version, copy, control, pxe, budget, history>>

WriteDispatcher(g) ==
  /\ op[g].at = "dispatcher"
  /\ UNCHANGED <<host, media, version, copy, control, pxe, budget, vendor, lost, owned>>
  /\ IF ~root.there THEN Fail(g) /\ UNCHANGED root
     ELSE /\ root' = [root EXCEPT !.script = Dispatcher(op[g].session)]
          /\ Goto(g, "dynamic") /\ UNCHANGED disturbed

MarkDynamic(g) ==
  /\ op[g].at = "dynamic"
  /\ UNCHANGED <<host, media, version, copy, control, pxe, budget, vendor, lost, owned>>
  /\ IF ~root.there THEN Fail(g) /\ UNCHANGED root
     ELSE /\ root' = [root EXCEPT !.dynamic = TRUE]
          /\ Goto(g, "finish") /\ UNCHANGED disturbed

\* A synchronisation no other command overlapped puts right what an earlier one
\* left wrong, but for the script of a native ISO, which only a start of PXE writes.
PutsRight(g) ==
  op[g].alone /\ g # "import" /\ (g = "pxe" \/ root.layout # "native")

\* A Linux job that waits or runs needs the dispatcher.
FinishSync(g) ==
  /\ op[g].at = "finish"
  /\ UNCHANGED <<host, media, version, root, copy, control, pxe, budget, vendor, lost, owned>>
  /\ \/ g # "import" /\ ~op[g].ready /\ Fail(g)
     \/ /\ IF g = "pxe" THEN Goto(g, "listen") ELSE op' = [op EXCEPT ![g] = NoOp]
        /\ disturbed' = (disturbed /\ ~PutsRight(g))

-----------------------------------------------------------------------------
(* import_pxe_media and import_pxe_boot_package, offered while PXE is not  *)
(* running. The package is complete before the old one is moved away.      *)

ImportMedia ==
  /\ ~pxe
  /\ UNCHANGED <<host, media, version, root, copy, control, pxe, vendor, lost, owned>>
  /\ \E m \in media :
       \/ \E w \in Selected(m) : \E p \in BuildPackage(host, m, w, version) :
            Begin("import", [NoOp EXCEPT !.at = "away", !.package = p, !.media = TRUE,
                                         !.vendor = w.image])
       \/ /\ \A w \in Selected(m) : BuildPackage(host, m, w, version) = {}
          /\ Begin("import", NoOp)

\* A directory: its boot.wim gets the Agent unless its digests say it has it.
ImportDirectory ==
  /\ ~pxe
  /\ copy.wim # NoWim
  /\ UNCHANGED <<host, media, version, root, copy, control, pxe, vendor, lost, owned>>
  /\ LET images == IF copy.mark = version THEN {copy.wim}
                   ELSE InjectAgent(host, copy.wim, version)
     IN \/ \E i \in images :
             Begin("import", [NoOp EXCEPT !.at = "away",
                                          !.package = [copy EXCEPT !.wim = i, !.mark = version],
                                          !.media = FALSE, !.vendor = vendor.copy])
        \/ images = {} /\ Begin("import", NoOp)

\* The operator copies the package directory, for instance to another disk.
CopyPackage ==
  /\ root.wim # NoWim /\ copy # root /\ Idle
  /\ Call
  /\ copy' = root
  /\ vendor' = [vendor EXCEPT !.copy = vendor.root]
  /\ lost' = [lost EXCEPT !.copy = lost.root]
  /\ UNCHANGED <<host, media, version, root, control, pxe, op, disturbed, owned>>

\* Windows moves no directory an image is mounted from.
MoveAside ==
  /\ op["import"].at = "away"
  /\ UNCHANGED <<host, media, version, copy, control, pxe, budget, vendor, lost, owned>>
  /\ IF host = "windows" /\ \E g \in Groups : op[g].at \in {"putAgent", "putBootstrap"}
     THEN Finish("import") /\ UNCHANGED root
     ELSE /\ root' = Absent
          /\ op' = [g \in Groups |->
                       IF g # "import" THEN [op[g] EXCEPT !.here = (op[g].at = "idle")]
                       ELSE [op[g] EXCEPT !.at = "place", !.old = root.there]]
          /\ UNCHANGED disturbed

\* A directory another command made meanwhile is in the way of both renames.
PlacePackage ==
  /\ op["import"].at = "place"
  /\ UNCHANGED <<host, media, version, copy, control, pxe, budget>>
  /\ IF root.there
     THEN /\ Finish("import")
          /\ lost' = [lost EXCEPT !.root = @ \cup (IF op["import"].old THEN {"root"} ELSE {})]
          /\ UNCHANGED <<root, vendor, owned>>
     ELSE /\ root' = op["import"].package
          /\ vendor' = [vendor EXCEPT !.root = op["import"].vendor]
          /\ owned' = op["import"].media
          /\ lost' = [lost EXCEPT !.root =
                        (IF op["import"].media THEN {} ELSE lost.copy)
                        \cup (IF \E g \in Groups : op[g].at \in {"fallback", "dispatcher"}
                              THEN {"dispatcher"} ELSE {})]
          /\ Goto("import", "saved")
          /\ UNCHANGED disturbed

\* inject_saved_agent_bootstrap reads the file in the package that is in place.
InjectSaved ==
  /\ op["import"].at = "saved"
  /\ op' = IF root.json = 0 THEN [op EXCEPT !["import"] = NoOp]
           ELSE [op EXCEPT !["import"].at = "bootstrap", !["import"].session = root.json]
  /\ UNCHANGED <<host, media, version, root, copy, control, pxe, budget, history>>

-----------------------------------------------------------------------------
(* The program ends, with or without a crash, and is started again, perhaps *)
(* as its next version.                                                    *)

Interrupted ==
  (IF \E g \in Groups : op[g].at \in {"swapAgent", "swapBootstrap"} THEN {"image"} ELSE {})
  \cup (IF op["import"].at = "place" /\ op["import"].old THEN {"root"} ELSE {})
  \cup (IF \E g \in Groups : op[g].at = "dynamic" /\ ~root.dynamic THEN {"dispatcher"} ELSE {})

Restart ==
  /\ budget.crashes > 0
  /\ budget' = [budget EXCEPT !.crashes = @ - 1]
  /\ version' \in {version, version + 1} \cap Versions
  /\ control' = [state |-> "stopped", session |-> 0]
  /\ pxe' = FALSE
  /\ op' = [g \in Groups |-> NoOp]
  /\ lost' = [lost EXCEPT !.root = @ \cup Interrupted]
  /\ UNCHANGED <<host, media, root, copy, vendor, disturbed, owned>>

Next ==
  \/ StartControl \/ StopControl \/ ForgetBootstrap \/ ServerDies
  \/ StartPxe \/ EnsureNetworkBoot \/ SetBcdAside \/ PutBcd \/ WriteLoaders
  \/ MarkManaged \/ AskControl \/ Listen \/ StopPxe
  \/ ImportMedia \/ ImportDirectory \/ CopyPackage \/ MoveAside \/ PlacePackage
  \/ InjectSaved \/ Restart
  \/ \E g \in Groups :
       \/ OpenSession(g) \/ WriteBootstrap(g)
       \/ MountForAgent(g) \/ MountForBootstrap(g) \/ PutImage(g) \/ SwapImage(g)
       \/ WriteDigests(g) \/ RefreshIso(g)
       \/ ReadScripts(g) \/ WriteFallback(g) \/ WriteDispatcher(g) \/ MarkDynamic(g)
       \/ FinishSync(g)

Spec == Init /\ [][Next]_vars

-----------------------------------------------------------------------------
(* Type invariant. *)
Commands ==
  [at : Steps, alone : BOOLEAN, session : Sessions,
   image : WinpeImages(Versions, Sessions) \cup {NoWim},
   package : Packages(Versions, Sessions), old : BOOLEAN, media : BOOLEAN,
   vendor : VendorImages \cup {NoWim}, script : Scripts(Sessions), bcd : Bcds,
   active : BOOLEAN, ready : BOOLEAN, here : BOOLEAN]

Losses == {"image", "root", "dispatcher", "bcd"}

\* Every variable keeps its type, and a command waits for a package to be put
\* in place only while it holds one that is complete: a wim with this or an
\* earlier version's Agent, and the digests that say which.
BootTypeOK ==
  /\ host \in Hosts /\ version \in Versions \ {0}
  /\ {root, copy} \subseteq Packages(Versions, Sessions)
  /\ control \in [state : {"stopped", "running", "dead"}, session : Sessions]
  /\ pxe \in BOOLEAN /\ disturbed \in BOOLEAN /\ owned \in BOOLEAN
  /\ lost \in [root : SUBSET Losses, copy : SUBSET Losses]
  /\ op \in [Groups -> Commands]
  /\ op["import"].at \in {"away", "place"} =>
       op["import"].package.wim # NoWim /\ op["import"].package.wim.agent = op["import"].package.mark

(* Safety. *)
\* However often an image is injected again - a new version, a lost digest, a
\* package imported from a copy, an injection a crash cut short - a machine
\* that boots it runs one Agent and what the vendor's image ran. The
\* Windows host, and an image that has a startnet.cmd if it starts one: it is
\* the project's own that the second injection would put aside otherwise.
StartsEverythingOnce ==
  /\ host = "windows" /\ root.wim # NoWim /\ root.wim.agent # 0
  /\ ReachesStartnet(vendor.root) => vendor.root.startnet # "none"
  => Boot(root.wim) = AsBefore(vendor.root)

\* The same of every host.
VendorStartupSurvives ==
  root.wim # NoWim /\ root.wim.agent # 0 => Boot(root.wim) = AsBefore(vendor.root)

\* While PXE serves and the control plane runs, machines boot the current
\* Agent with the current token, and a dispatcher that asks the current
\* address - unless a synchronisation failed or two commands overlapped, and
\* none went through alone since (for a native ISO: no start of PXE did), or a
\* crash took boot.wim or cut the dispatcher short.
ServesTheSession ==
  pxe /\ control.state = "running" /\ Idle /\ ~disturbed /\ lost.root \subseteq {"bcd"} =>
    /\ root.json = control.session
    /\ root.wim # NoWim => root.wim.session = control.session /\ root.wim.agent = version
    /\ root.layout = "native" => root.iso = control.session /\ root.script = Sanboot
    /\ root.script.kind = "dispatcher" => root.script.session = control.session
    /\ owned => HasControlDispatcher(root)

\* A package made from a medium stays one the next start refreshes, with the
\* medium's own boot manager policy and script for machines without a Linux
\* assignment, through failures, overlaps and restarts that did not fall
\* between two renames or the three writes of a dispatcher. (An Edgeless medium
\* with a USM manager is imported with the USM policy, and refreshed without.)
StaysManageable ==
  owned /\ lost.root \subseteq {"bcd"} /\ Idle =>
    /\ IsManaged(root) /\ root.layout = "managed"
    /\ WindowsScript(root) = ScriptByMarker(root)
    /\ root.script.kind = "dispatcher" => root.fallback = ScriptByMarker(root)
    /\ root.bcd = NoBcd \/ root.bcd.loader = root.wim.loader
    /\ root.flavour # "edgeless" => root.bcd \in {NoBcd, BcdByMarker(root)}
    /\ root.bcd = NoBcd => "bcd" \in lost.root
=============================================================================

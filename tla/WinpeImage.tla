----------------------------- MODULE WinpeImage -----------------------------
(***************************************************************************)
(* The boot.wim of a WinPE package: the four places from which a WinPE     *)
(* image starts programs, what injecting the Agent does to them, and what  *)
(* a machine that boots the image then runs.                               *)
(*                                                                         *)
(* An image is a record                                                    *)
(*   startnet  Windows/System32/startnet.cmd                               *)
(*   kept      startnet.easydeploymesh-original.cmd, which the project's   *)
(*             startnet.cmd calls when it is there                         *)
(*   ini       winpeshl.ini: its section ("none" when the file is absent)  *)
(*             and whether the launcher was put into it                    *)
(*   cmdline   Setup\CmdLine of the SYSTEM hive: no hive, no value, the    *)
(*             stock winpeshl.exe, a vendor's shell, or the launcher       *)
(*   loader    where its winload.exe is, in System32 or in System32/Boot   *)
(*   shell     the command easydeploymesh-original-shell.cmd holds         *)
(*   hook      shell-hook.enabled exists                                   *)
(*   agent     the version of the Agent in it, 0 for none                  *)
(*   session   the control-plane session of its bootstrap file, 0 for none *)
(*                                                                         *)
(* How Windows PE itself reads these files is external; it is modelled     *)
(* from how the injection and its tests count on it.                       *)
(***************************************************************************)
EXTENDS Naturals

CONSTANT Hosts      \* the operating systems the desktop application runs on

ASSUME HostsAssumption == Hosts \subseteq {"windows", "macos"}

Startnets == {"none", "vendor", "edm"}
Sections  == {"none", "apps", "app", "unknown"}
CmdLines  == {"nohive", "none", "winpeshl", "vendor", "agent"}
Shells    == {"none", "app", "winpeshl", "vendor"}
Loaders   == {"none", "system32", "system32 boot"}

WinpeImages(Versions, Sessions) ==
  [startnet : Startnets, kept : Startnets,
   ini : [section : Sections, hooked : BOOLEAN], cmdline : CmdLines,
   shell : Shells, loader : Loaders, hook : BOOLEAN, agent : Versions, session : Sessions]

\* A vendor's image, before anything was injected. Its winpeshl.ini is one that
\* winpeshl.exe reads: with a shell of the vendor's in CmdLine nothing would.
VendorImages ==
  {i \in [startnet : {"none", "vendor"}, kept : {"none"},
          ini : [section : Sections, hooked : {FALSE}], cmdline : CmdLines \ {"agent"},
          shell : {"none"}, loader : Loaders, hook : {FALSE}, agent : {0}, session : {0}] :
     i.ini.section # "none" => i.cmdline # "vendor"}

VendorImage(startnet, section, cmdline, loader) ==
  [startnet |-> startnet, kept |-> "none",
   ini |-> [section |-> section, hooked |-> FALSE], cmdline |-> cmdline,
   shell |-> "none", loader |-> loader, hook |-> FALSE, agent |-> 0, session |-> 0]

-----------------------------------------------------------------------------
(* Injection. An operator returns the set of images it can give: empty     *)
(* when the code fails, and then the mounted image is discarded.           *)

\* patch_winpeshl_for_agent: [LaunchApps] gets the launcher as its first
\* application; [LaunchApp] starts the launcher instead of the vendor's
\* program, whose command is kept in a script, once.
HookWinpeshl(i) ==
  IF i.ini.section = "unknown" THEN {}
  ELSE {[i EXCEPT !.ini.hooked = TRUE, !.hook = TRUE,
                  !.shell = IF i.ini.section = "app" /\ ~i.ini.hooked THEN "app" ELSE @]}

\* patch_setup_cmdline_for_agent and, on macOS, replace_setup_cmdline, which
\* fails where the registry tool finds no value to replace.
HookCmdLine(host, i) ==
  CASE i.cmdline = "nohive" -> {i}
    [] i.cmdline = "none"   -> IF host = "macos" THEN {} ELSE {i}
    [] i.cmdline = "agent"  -> {[i EXCEPT !.hook = TRUE]}
    [] OTHER -> {[i EXCEPT !.hook = TRUE, !.cmdline = "agent", !.shell = i.cmdline]}

HookBoth(host, i) ==
  IF i.ini.section # "none"
  THEN UNION {HookCmdLine(host, j) : j \in HookWinpeshl(i)}
  ELSE HookCmdLine(host, i)

\* Both are never hooked: an image with a winpeshl.ini keeps its CmdLine.
HookShell(host, i) ==
  IF i.ini.section # "none" THEN HookWinpeshl(i) ELSE HookCmdLine(host, i)

\* On Windows a startnet.cmd is put aside only when none was; on macOS
\* whatever startnet.cmd the image has is copied over the one put aside.
KeepStartnet(host, i) ==
  IF i.startnet # "none" /\ (host = "macos" \/ i.kept = "none")
  THEN [i EXCEPT !.kept = i.startnet, !.startnet = "edm"]
  ELSE [i EXCEPT !.startnet = "edm"]

KeepOlderAgent(host, i, version) ==
  {KeepStartnet(host, [j EXCEPT !.agent = IF @ = 0 THEN version ELSE @]) : j \in HookShell(host, i)}

InjectAgent(host, i, version) ==
  {KeepStartnet(host, [j EXCEPT !.agent = version]) : j \in HookShell(host, i)}

InjectBootstrap(i, session) == [i EXCEPT !.session = session]

-----------------------------------------------------------------------------
(* What a machine runs when it boots the image: how many Agents, and which  *)
(* of the vendor's own programs, or a script that calls itself for ever.   *)

Runs(programs) == [agents |-> 0, programs |-> programs]
Nothing == Runs({})
Forever == Runs({"itself"})
AnAgent == [agents |-> 1, programs |-> {}]

Then(a, b) == [agents |-> a.agents + b.agents, programs |-> a.programs \cup b.programs]

\* EASYDEPLOYMESH_STARTNET: the Agent unless a shell hook starts it, then the
\* startnet.cmd that was put aside.
RunStartnet(i) ==
  CASE i.startnet = "none"   -> Nothing
    [] i.startnet = "vendor" -> Runs({"startnet"})
    [] i.startnet = "edm"    ->
         Then(IF i.hook THEN Nothing ELSE AnAgent,
              CASE i.kept = "none"   -> Nothing
                [] i.kept = "vendor" -> Runs({"startnet"})
                [] i.kept = "edm"    -> Forever)

\* winpeshl.exe: the programs of winpeshl.ini, or startnet.cmd without one.
\* The launcher put into it runs the kept command, which would start
\* winpeshl.exe again were it the one kept from CmdLine.
RunWinpeshl(i) ==
  IF i.ini.section = "none" THEN RunStartnet(i)
  ELSE IF ~i.ini.hooked THEN Runs({"ini"})
  ELSE Then(AnAgent, CASE i.ini.section = "apps" -> Runs({"ini"})
                       [] i.shell = "app"        -> Runs({"ini"})
                       [] i.shell = "winpeshl"   -> Forever
                       [] OTHER                  -> Nothing)

\* run_shell_launcher: the Agent, then the kept shell command if there is one.
RunLauncher(i) ==
  Then(AnAgent, CASE i.shell = "winpeshl" -> RunWinpeshl(i)
                  [] i.shell = "vendor"   -> Runs({"shell"})
                  [] OTHER                -> Nothing)

Boot(i) ==
  CASE i.cmdline = "agent"  -> RunLauncher(i)
    [] i.cmdline = "vendor" -> Runs({"shell"})
    [] OTHER                -> RunWinpeshl(i)

\* Without a winpeshl.ini, and with no shell of the vendor's in CmdLine, the
\* image starts startnet.cmd.
ReachesStartnet(i) == i.ini.section = "none" /\ i.cmdline # "vendor"

\* What the vendor's image ran, and one Agent beside it.
AsBefore(vendor) == [Boot(vendor) EXCEPT !.agents = 1]
=============================================================================

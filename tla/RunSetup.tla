------------------------------ MODULE RunSetup ------------------------------
(***************************************************************************)
(* From what the operator asks for to which test bodies run, and against   *)
(* what.                                                                   *)
(*                                                                         *)
(* Two front ends, the command line (src/cli/main.py) and the window       *)
(* (src/gui/main_window.py), resolve the same settings by the rules of     *)
(* src/config.py, check them (src/packet_engine/preflight.py) and turn     *)
(* them into pytest arguments (src/runner.py).  The subprocess             *)
(* (conftest.py) parses the arguments, resolves them a second time, skips  *)
(* the tests that do not apply (src/collection_policy.py) and sets up the  *)
(* fixtures of the rest, the gate of the vuln tests (src/utils/safety.py)  *)
(* among them.  The window keeps its test tree and its random port from    *)
(* one run to the next.                                                    *)
(***************************************************************************)
EXTENDS Integers, Sequences, SequencesExt, FiniteSets

CONSTANTS Forms,    \* the settings an operator may give
          Tests,    \* test function |-> its roles, its markers vuln and proxy, its fixtures
                    \* (those that carry a skip mark of their own are left out)
          Parent,   \* tree node |-> its parent, Root for a module
          MaxRuns   \* bound on the runs of one window

Root  == "tests"
Nodes == DOMAIN Parent
Leaves == DOMAIN Tests

Unset     == -1   \* a port that is None
Malformed == -2   \* the text of a port that is not a number
Ephemeral == {49152, 49153}            \* random_ephemeral_port()
BackendPort == 9099                    \* DEFAULT_BACKEND_PORT
Blank == ""                            \* a text left empty
Name  == "dut.example"                 \* a target that is not an IP address
BadCidr == {"10.0.0.0/99"}             \* any other range is the set it covers

\* What the host and the DUT can do to a fixture, whatever was asked for: there is
\* no RST guard, no event log or no address to be had on the interface, once for
\* the session; or a test's handshake or tunnel is refused, or no port is left.
SessionFaults == {"network_interface", "local_ip"}
TestFaults    == {"established_tcp_connection", "proxy_client", "closed_origin_port"}

\* What both surfaces offer for the options they share.
SharedChoices(f) ==
    /\ f.faults \subseteq SessionFaults \cup TestFaults
    /\ f.role \in {"client", "server"} /\ f.leg \in {"none", "front", "back"}
    /\ f.mode \in {"off", "transparent", "http-connect", "socks5"}
    /\ f.payload \in {"zeros", "ones", "random", "custom"}

\* What can be typed as `netstack-cli run`: a slice of the tests (a directory
\* and what -k and -m match), any text for a port.
CliForm(f) ==
    /\ SharedChoices(f) /\ f.match \subseteq Leaves
    /\ f.module \in Nodes \cup {Blank} /\ f.submodule \in Nodes \cup {Blank}

\* What the window's fields can hold: 0 on a spin box is 'auto' or 'random', and
\* there is no field for the payload, for a slice or to skip the preflight.
GuiForm(f) ==
    /\ SharedChoices(f) /\ 0 \notin {f.port, f.source} /\ Malformed \notin {f.port, f.source}
    /\ f.payload = "random" /\ ~f.skipPreflight
    /\ f.module = Blank /\ f.submodule = Blank /\ f.match = Leaves

ASSUME SetupAssumption ==
    /\ \A f \in Forms : IF f.front = "gui" THEN GuiForm(f) ELSE CliForm(f)
    /\ "none" \notin Leaves   \* what Nothing is made of is not a test
    /\ \A t \in Leaves : \A x \in {"socks5_config", "http_connect_config"} :
          x \in Tests[t].fixtures => Tests[t].proxy   \* nothing else is about a tunnel
    /\ Leaves \subseteq Nodes /\ \A n \in Nodes : Parent[n] \in Nodes \cup {Root}
    /\ MaxRuns \in Nat \ {0}

VARIABLES form,         \* the settings of the run, as given
          admin,        \* the process has the privileges
          check,        \* the check state of every tree node
          sessionPort,  \* MainWindow._session_random_dst_port
          randoms,      \* history: the ports the window used for 'random'
          stage,        \* how far the run has got
          config,       \* the front end's DUTConfig
          warned,       \* the tests the window said will be skipped
          header,       \* what the run's results say of it
          args,         \* the flags given to the subprocess
          child,        \* the subprocess's DUTConfig
          result,       \* what became of every test collected
          causes,       \* for every test collected, why its fixtures raised
          told,         \* how the operator learns that the run did not start
          runs

window == <<admin, check, sessionPort, randoms>>
launch == <<warned, header, args>>
outcome == <<child, result, causes>>
vars == <<form, window, stage, config, launch, outcome, told, runs>>

Nothing == [none |-> TRUE]

Init ==
    /\ form \in Forms /\ admin = form.admin
    /\ check = [n \in Nodes |-> "unchecked"] /\ sessionPort = Unset /\ randoms = {}
    /\ stage = (IF form.front = "gui" THEN "boot" ELSE "form") /\ runs = 0
    /\ config = Nothing /\ warned = {} /\ header = Nothing /\ args = Nothing
    /\ child = Nothing /\ result = Nothing /\ causes = Nothing /\ told = Blank

-----------------------------------------------------------------------------
(***************************************************************************)
(* src/config.py: the proxy-leg rule.                                      *)
(***************************************************************************)
ResolveRole_Configured(leg, configured) == configured
ResolveRole(leg, configured) ==
    CASE leg = "front" -> "client" [] leg = "back" -> "server" [] OTHER -> configured

\* resolve_leg_target: the front leg is probed at the proxy's front address,
\* and at its port when none was given.
ResolveIp(leg, ip, proxyHost) == IF leg = "front" /\ proxyHost # Blank THEN proxyHost ELSE ip
ResolvePort(leg, port, proxyPort) == IF leg = "front" /\ port = Unset THEN proxyPort ELSE port

\* back_leg_requirement_error.
BackLegBlocked(leg, mode, backendHost) ==
    leg = "back" /\ (mode = "off" \/ backendHost = Blank)

\* missing_required (the interface and the stack are as the IP is).
MissingRequired(c) == c.ip = Blank

\* target_in_allowed_range: the ranges in order, up to the first that matches;
\* an address or a range that does not parse raises.
InAllowedRange_Listed(c) == c.allowed # <<>>
InAllowedRange(c) ==
    /\ c.ip # Name
    /\ \E i \in DOMAIN c.allowed : /\ c.ip \in c.allowed[i]
                                   /\ \A j \in 1..i : c.allowed[j] # BadCidr

-----------------------------------------------------------------------------
(***************************************************************************)
(* The window: its test tree.                                              *)
(***************************************************************************)
Children(n) == {m \in Nodes : Parent[m] = n}
Ancestors[n \in Nodes] == IF Parent[n] = Root THEN <<>>
                          ELSE <<Parent[n]>> \o Ancestors[Parent[n]]
Below(n) == {m \in Nodes : n \in ToSet(Ancestors[m])}

\* _refresh_ancestors for one ancestor.
Rollup_AnyChild(c, p) == IF \E m \in Children(p) : c[m] = "checked" THEN "checked" ELSE "unchecked"
Rollup(c, p) ==
    LET states == {c[m] : m \in Children(p)}
    IN  IF states = {"checked"} THEN "checked"
        ELSE IF states = {"unchecked"} THEN "unchecked" ELSE "partial"

\* A click on a check box, and _on_item_changed: down, then up.
ToggleTest(n) ==
    LET state == IF check[n] = "checked" THEN "unchecked" ELSE "checked"
        down  == [m \in Nodes |-> IF m = n \/ m \in Below(n) THEN state ELSE check[m]]
    IN  /\ stage = "form" /\ form.front = "gui"
        /\ check' = FoldLeft(LAMBDA c, p : [c EXCEPT ![p] = Rollup(c, p)], down, Ancestors[n])
        /\ UNCHANGED <<form, admin, sessionPort, randoms, stage, config, launch, outcome, told, runs>>

\* checked_targets: a checked node whose parent is not fully checked.
CheckedTargets ==
    {n \in Nodes : check[n] = "checked"
                   /\ (Parent[n] # Root => check[Parent[n]] # "checked")}

\* checked_specs: the test functions that are checked.
CheckedSpecs == {n \in Leaves : check[n] = "checked"}

-----------------------------------------------------------------------------
(***************************************************************************)
(* The front ends.                                                         *)
(***************************************************************************)
\* is_elevated: it raises on a host that is neither Linux nor Windows.
Supported(f) == f.host \in {"Linux", "Windows"}
IsElevated == Supported(form) /\ admin

\* relaunch_module_as_admin, UAC granted: this process ends and its elevated copy
\* starts over.
Relaunch ==
    /\ stage = "boot" /\ form.host = "Windows" /\ ~admin /\ admin' = TRUE
    /\ UNCHANGED <<form, check, sessionPort, randoms, stage, config, launch, outcome, told, runs>>

\* gui.app.main goes on: elevated already, not on Windows, or UAC declined.
OpenWindow ==
    /\ stage = "boot" /\ stage' = "form"
    /\ UNCHANGED <<form, window, config, launch, outcome, told, runs>>

\* Where a refusal goes: the command line prints it and exits 2 (UsageError, the
\* exit_code of a NetstackError, a failed preflight), the window logs what it
\* expects, and excepthook shows a dialog for the rest.
Told(expected) == IF form.front = "cli" THEN "exit 2" ELSE IF expected THEN "log" ELSE "dialog"

Refuse(expected) == stage' = "ended" /\ told' = Told(expected) /\ config' = Nothing

\* resolve_role and resolve_leg_target, and the port used when none is given.
Resolved(f, port) ==
    [ip |-> ResolveIp(f.leg, f.ip, f.proxyHost), port |-> port, source |-> f.source,
     role |-> ResolveRole(f.leg, f.role), leg |-> f.leg, allowed |-> f.allowed]
GivenPort(f) == ResolvePort(f.leg, f.port, f.proxyPort)

\* click's own checks: integers and CIDRs.
ClickRefuses(f) ==
    \/ Malformed \in {f.port, f.source, f.proxyPort, f.backendPort}
    \/ BadCidr \in ToSet(f.allowed)

\* _resolve_topology: no port given means a random one for this run.
ResolveTopology ==
    IF BackLegBlocked(form.leg, form.mode, form.backendHost) THEN Refuse(TRUE)
    ELSE /\ \E p \in (IF GivenPort(form) = Unset THEN Ephemeral ELSE {GivenPort(form)}) :
               config' = Resolved(form, p)
         /\ stage' = "resolved" /\ told' = told

\* cli.main.run up to the preflight.
RunCommand ==
    /\ stage = "form" /\ form.front = "cli" /\ runs' = runs + 1
    /\ IF ClickRefuses(form) THEN Refuse(TRUE) ELSE ResolveTopology
    /\ UNCHANGED <<form, window, launch, outcome>>

\* _resolved_dst_port for a field left on 'random'.
RandomPorts == IF sessionPort = Unset THEN Ephemeral ELSE {sessionPort}

\* _split_host_port of the two addresses; a port that does not parse raises.
PortRaises(port) == port = Malformed

\* _current_dut_config: a front that does not parse raises before a random port
\* is drawn for the session.
CurrentConfig ==
    \E p \in (IF GivenPort(form) = Unset THEN RandomPorts ELSE {GivenPort(form)}) :
        /\ config' = Resolved(form, p)
        /\ IF GivenPort(form) = Unset
           THEN sessionPort' = p /\ randoms' = randoms \cup {p}
           ELSE UNCHANGED <<sessionPort, randoms>>

\* _on_run_clicked up to the preflight.
RunClicked ==
    /\ stage = "form" /\ form.front = "gui" /\ runs' = runs + 1
    /\ IF PortRaises(form.proxyPort) THEN Refuse(TRUE) /\ UNCHANGED <<sessionPort, randoms>>
       ELSE /\ CurrentConfig
            /\ IF PortRaises(form.backendPort) \/ BackLegBlocked(form.leg, form.mode, form.backendHost)
               THEN stage' = "ended" /\ told' = Told(TRUE)
               ELSE stage' = "resolved" /\ told' = told
    /\ UNCHANGED <<form, admin, check, launch, outcome>>

\* require_elevation, and the ARP probe.
Blocks_OnProbeOnly(probe) == probe = "raises"
Blocks(probe) == ~admin \/ probe = "raises"

\* run_preflight.  What is missing, or the privileges, or whatever the ARP probe
\* raises (\E probe) blocks the run; no reply to it does not.  An unsupported host
\* raises through it.
Preflight ==
    /\ stage = "resolved"
    /\ \E probe \in {"reply", "silence", "raises"} :
         IF form.skipPreflight THEN stage' = "checked" /\ told' = told
         ELSE IF MissingRequired(config) THEN stage' = "ended" /\ told' = Told(TRUE)
         ELSE IF ~Supported(form) THEN stage' = "ended" /\ told' = Told(FALSE)
         ELSE IF Blocks(probe) THEN stage' = "ended" /\ told' = Told(TRUE)
         ELSE stage' = "checked" /\ told' = told
    /\ UNCHANGED <<form, window, config, launch, outcome, runs>>

\* _test_targets: the checked nodes, or tests/<module>/<submodule> with the parts
\* that are given, which may be no directory; {} is nothing on the command line.
NoSuchPath == "no such path"
CliTarget ==
    CASE form.submodule = Blank -> IF form.module = Blank THEN Root ELSE form.module
      [] form.submodule \in Nodes /\ Parent[form.submodule] = form.module -> form.submodule
      [] OTHER -> NoSuchPath
Targets == IF form.front = "cli" THEN {CliTarget}
           ELSE IF CheckedTargets = {} THEN {Root} ELSE CheckedTargets

\* _warn_role_mismatches.
RoleMismatch(t, role) == role \notin Tests[t].roles

\* _optional_flags: None is not passed, a port of 0 is.
Emitted_Truthy(port) == IF port = 0 THEN Unset ELSE port
Emitted(port) == port

\* RunRequest, new_run_result and build_pytest_args; the proxy addresses go along
\* only when a mode or a leg is set.  (A run directory that cannot be made, or a
\* process that does not start, is in StreamRun and RunController.)
Launch ==
    LET proxied == form.mode # "off" \/ config.leg # "none"
    IN  /\ stage = "checked" /\ stage' = "launched"
        /\ warned' = IF form.front = "gui"
                     THEN {t \in CheckedSpecs : RoleMismatch(t, config.role)} ELSE {}
        /\ header' = [ip |-> config.ip, role |-> config.role, leg |-> config.leg,
                      payload |-> form.payload]
        /\ args' = [ip |-> config.ip, port |-> Emitted(config.port),
                    source |-> Emitted(config.source), role |-> config.role,
                    leg |-> config.leg, mode |-> form.mode, allowed |-> config.allowed,
                    confirm |-> form.confirm, payload |-> form.payload,
                    targets |-> Targets, match |-> form.match,
                    proxyHost   |-> IF proxied THEN form.proxyHost ELSE Blank,
                    proxyPort   |-> IF proxied THEN form.proxyPort ELSE Unset,
                    backendHost |-> IF proxied THEN form.backendHost ELSE Blank,
                    backendPort |-> IF proxied /\ form.backendPort # Unset
                                    THEN form.backendPort ELSE BackendPort]
        /\ UNCHANGED <<form, window, config, outcome, told, runs>>

-----------------------------------------------------------------------------
(***************************************************************************)
(* The subprocess.                                                         *)
(***************************************************************************)
\* The tests collected under the targets; none when a path does not exist.
Collected ==
    {t \in args.match : \E n \in args.targets : n = Root \/ n = t \/ n \in ToSet(Ancestors[t])}

\* skip_reason: the topology decides for a proxy test, the role for any other.
Skipped(t, role) ==
    IF Tests[t].proxy THEN args.mode = "off" ELSE role \notin Tests[t].roles

\* ProxyConfig: an explicit mode needs the proxy's address and a port but 0.
ProxyConfigValid == args.mode = "transparent"
                    \/ (args.proxyHost # Blank /\ args.proxyPort \notin {Unset, 0})

\* enforce_vuln_authorization.
Unauthorized(c) == ~InAllowedRange(c) \/ ~args.confirm

\* Why fixtures of test t raise, those its fixtures request and the autouse ones
\* included; faults are those it meets.  (--payload-text and its like are never
\* given.)
Requests(t, x) == x \in Tests[t].fixtures
Causes(t, c, faults) ==
    {x \in {"back leg"}    : args.leg = "back" /\ BackLegBlocked(args.leg, args.mode, args.backendHost)}
    \cup {x \in {"target"} : (Requests(t, "dut_config") \/ Tests[t].vuln) /\ MissingRequired(c)}
    \cup {x \in {"rights"} : Requests(t, "network_interface") /\ ~IsElevated}
    \cup {x \in {"proxy"}  : \/ args.leg = "back" /\ ~ProxyConfigValid
                             \/ Requests(t, "proxy_config")
                                /\ (args.backendHost = Blank \/ ~ProxyConfigValid)}
    \cup {x \in {"payload"} : Requests(t, "payload") /\ args.payload = "custom"}
    \cup {x \in {"gate"}   : Tests[t].vuln /\ Unauthorized(c)}
    \cup (faults \cap Tests[t].fixtures)

SetupFails(why) == why # {}

\* _require_mode: a test of one tunnelling protocol skips itself in another mode.
OtherMode(t) ==
    \/ Requests(t, "socks5_config") /\ args.mode # "socks5"
    \/ Requests(t, "http_connect_config") /\ args.mode # "http-connect"

\* pytest sets the fixtures up in their order: those of the session and the gate,
\* the mode of the tunnel, and what the test itself opens.
Outcome(t, c, why) ==
    IF Skipped(t, c.role) THEN "skipped"
    ELSE IF SetupFails(why \ TestFaults) THEN "error"
    ELSE IF OtherMode(t) THEN "skipped"
    ELSE IF SetupFails(why) THEN "error" ELSE "ran"

\* Collection, and the items: dut_config resolves the arguments again.  A fixture
\* of the session fails for each of its tests, one that is set up for every test
\* for any of them.
RunChild ==
    /\ stage = "launched" /\ stage' = "ended"
    /\ \E p \in (IF GivenPort(args) = Unset THEN Ephemeral ELSE {GivenPort(args)}),
          unlucky \in SUBSET {t \in Collected : form.faults \cap Tests[t].fixtures \cap TestFaults # {}} :
         LET c == Resolved(args, p)
             faults(t) == IF t \in unlucky THEN form.faults ELSE form.faults \cap SessionFaults
         IN  /\ child' = c
             /\ causes' = [t \in Collected |-> Causes(t, c, faults(t))]
             /\ result' = [t \in Collected |-> Outcome(t, c, Causes(t, c, faults(t)))]
    /\ UNCHANGED <<form, window, config, launch, told, runs>>

\* The operator goes on in the same window.
Again ==
    /\ stage = "ended" /\ form.front = "gui" /\ runs < MaxRuns /\ stage' = "form"
    /\ form' \in {f \in Forms : f.front = "gui" /\ f.host = form.host}
    /\ config' = Nothing /\ warned' = {} /\ header' = Nothing /\ args' = Nothing
    /\ child' = Nothing /\ result' = Nothing /\ causes' = Nothing /\ told' = Blank
    /\ UNCHANGED <<window, runs>>

Next ==
    \/ Relaunch \/ OpenWindow \/ \E n \in Nodes : ToggleTest(n)
    \/ RunCommand \/ RunClicked \/ Preflight \/ Launch \/ RunChild \/ Again

Spec == Init /\ [][Next]_vars

-----------------------------------------------------------------------------
(***************************************************************************)
(* Properties.                                                             *)
(***************************************************************************)
Ended == stage = "ended" /\ result # Nothing
Ran == {t \in Leaves : Ended /\ t \in DOMAIN result /\ result[t] = "ran"}

\* Every variable has its type.
TypeOK ==
    /\ form \in Forms /\ check \in [Nodes -> {"checked", "unchecked", "partial"}]
    /\ stage \in {"boot", "form", "resolved", "checked", "launched", "ended"}
    /\ sessionPort \in Ephemeral \cup {Unset} /\ randoms \subseteq Ephemeral
    /\ admin \in BOOLEAN /\ told \in {Blank, "exit 2", "log", "dialog"}
    /\ config # Nothing => config.port \in Nat /\ config.role \in {"client", "server"}
    /\ child # Nothing => child.port \in Nat /\ child.role \in {"client", "server"}
    /\ warned \subseteq Leaves /\ runs \in 0..MaxRuns

\* The subprocess arrives at the configuration the front end resolved, probed and
\* wrote into the run's header ("a run configured one way can never be aimed
\* somewhere else by another", src/config.py), and a window left on 'random' uses
\* one port for the whole session.
ChildAgrees ==
    /\ Ended => child = config /\ \A k \in {"ip", "role", "leg"} : header[k] = child[k]
    /\ Cardinality(randoms) <= 1

\* No vuln test's body runs unless the operator ticked the confirmation and gave
\* a range that holds the address the traffic really goes to, the proxy's own
\* one included.
VulnIsAuthorized ==
    \A t \in Ran : Tests[t].vuln =>
        form.confirm /\ \E i \in DOMAIN form.allowed : child.ip \in form.allowed[i]

\* Bodies run in the direction the operator asked for: a front leg is only
\* probed, a back leg only observed, and a proxy test needs a proxy.
DirectionIsRight ==
    \A t \in Ran : IF Tests[t].proxy THEN form.mode # "off"
                   ELSE CASE form.leg = "front" -> "client" \in Tests[t].roles
                          [] form.leg = "back"  -> "server" \in Tests[t].roles
                          [] OTHER               -> form.role \in Tests[t].roles

\* After any clicks, the targets are what is checked and no target lies below
\* another; what is then collected is what is checked, or everything.  The command
\* line collects the matching tests of the module and submodule named, if the
\* submodule is one of the module's.
SelectionIsExact ==
    LET covered == {t \in Leaves : t \in CheckedTargets
                                   \/ CheckedTargets \cap ToSet(Ancestors[t]) # {}}
        named(t) == \A d \in {form.module, form.submodule} \ {Blank} : d \in ToSet(Ancestors[t])
    IN  /\ TypeOK /\ covered = CheckedSpecs
        /\ \A n \in CheckedTargets : CheckedTargets \cap Below(n) = {}
        /\ \A n \in Nodes \ Leaves : check[n] = Rollup(check, n)
        /\ Ended /\ form.front = "gui" =>
             DOMAIN result = IF CheckedSpecs = {} THEN Leaves ELSE CheckedSpecs
        /\ Ended /\ form.front = "cli" /\ CliTarget # NoSuchPath =>
             DOMAIN result = {t \in form.match : named(t)}

\* What passed the front end's checks is not turned away for what they are about:
\* a missing target, missing privileges or a back leg without its topology.  What
\* is left to the fixtures is what they do not look at: the gate, a custom payload,
\* the proxy's address, and what the host and the DUT do once the run is on.  The
\* window warned of exactly the checked endpoint tests that are skipped.
PreflightIsEnough ==
    /\ Ended => \A t \in DOMAIN result : result[t] = "error" =>
          /\ "back leg" \notin causes[t]
          /\ ~form.skipPreflight => causes[t] \cap {"target", "rights"} = {}
    /\ Ended /\ form.front = "gui" =>
         \A t \in CheckedSpecs \cap DOMAIN result :
            ~Tests[t].proxy => (t \in warned <=> result[t] = "skipped")
    /\ stage = "ended" => (told = Blank <=> result # Nothing)
=============================================================================

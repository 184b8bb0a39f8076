--------------------------- MODULE RunSetupProofs ---------------------------
(***************************************************************************)
(* Proofs about RunSetup, for every set of settings, every catalog and     *)
(* tree of tests and any number of runs of one window.                     *)
(***************************************************************************)
EXTENDS RunSetup, FiniteSetTheorems, TLAPS

-----------------------------------------------------------------------------
(***************************************************************************)
(* The inductive invariant.                                                *)
(***************************************************************************)
\* A run that is on its way, or has ended with results.
UnderWay == stage \in {"resolved", "checked", "launched"} \/ Ended
Launched == stage = "launched" \/ Ended

\* What is left over from the run before is never taken for this run's results.
FreshOK == stage # "ended" => result = Nothing

\* The configuration is the form, resolved once, and its port is a number.
ConfigOK == UnderWay => config.port # Unset /\ config = Resolved(form, config.port)

\* The arguments carry all of the form and of the configuration that the
\* subprocess resolves again; the proxy's address if the leg needs it.
LaunchOK ==
    Launched =>
       /\ args.ip = config.ip /\ args.port = config.port /\ args.source = config.source
       /\ args.role = config.role /\ args.leg = config.leg /\ args.allowed = config.allowed
       /\ args.mode = form.mode /\ args.confirm = form.confirm
       /\ args.payload = form.payload /\ args.match = form.match
       /\ args.leg = "front" => args.proxyHost = form.proxyHost
       /\ args.leg = "back" => args.backendHost = form.backendHost
       /\ header.ip = config.ip /\ header.role = config.role /\ header.leg = config.leg

\* A window draws its random port once.
PortsOK ==
    /\ sessionPort = Unset => randoms = {}
    /\ randoms \subseteq {sessionPort}

\* What the front end has checked by the time it goes on.
CheckedOK ==
    /\ UnderWay => ~ BackLegBlocked(form.leg, form.mode, form.backendHost)
    /\ (stage = "checked" \/ Launched) /\ ~ form.skipPreflight
          => ~ MissingRequired(config) /\ IsElevated
    /\ Launched /\ form.front = "gui"
          => warned = {t \in CheckedSpecs : RoleMismatch(t, config.role)}

\* The operator is told of a run that ends before its subprocess, and only then.
ToldOK == form \in Forms /\ (stage # "ended" => told = Blank)

\* What the subprocess arrives at is what the front end resolved.
AgreedOK == Ended => child = config

\* The invariant every step of a front end and of the subprocess preserves.
SetupInv ==
    /\ FreshOK
    /\ ConfigOK
    /\ LaunchOK
    /\ CheckedOK
    /\ ToldOK
    /\ PortsOK
    /\ AgreedOK
    /\ VulnIsAuthorized
    /\ DirectionIsRight
    /\ PreflightIsEnough

-----------------------------------------------------------------------------
(***************************************************************************)
(* The rules of src/config.py.                                             *)
(***************************************************************************)

\* A port that was drawn or given is a number, and is the one resolved again.
LEMMA PortChosen ==
    ASSUME NEW f, NEW p \in (IF GivenPort(f) = Unset THEN Ephemeral ELSE {GivenPort(f)})
    PROVE  p # Unset
BY DEF Ephemeral, Unset

\* Resolving is idempotent: the arguments of a resolved configuration resolve to
\* that configuration, whatever the leg.
LEMMA ResolvedAgain ==
    ASSUME NEW f, NEW a, NEW p, NEW q, p # Unset,
           a.ip = Resolved(f, p).ip, a.port = p, a.source = f.source,
           a.role = Resolved(f, p).role, a.leg = f.leg, a.allowed = f.allowed,
           a.leg = "front" => a.proxyHost = f.proxyHost,
           q \in (IF GivenPort(a) = Unset THEN Ephemeral ELSE {GivenPort(a)})
    PROVE  Resolved(a, q) = Resolved(f, p)
<1>1. GivenPort(a) = p
  BY DEF GivenPort, ResolvePort
<1>2. q = p
  BY <1>1
<1>3. ResolveIp(a.leg, a.ip, a.proxyHost) = ResolveIp(f.leg, f.ip, f.proxyHost)
  BY DEF Resolved, ResolveIp
<1>4. ResolveRole(a.leg, a.role) = ResolveRole(f.leg, f.role)
  <2>1. a.role = ResolveRole(f.leg, f.role)
    BY DEF Resolved
  <2>2. CASE f.leg = "front"
    BY <2>1, <2>2 DEF ResolveRole
  <2>3. CASE f.leg = "back"
    BY <2>1, <2>3 DEF ResolveRole
  <2>4. CASE f.leg # "front" /\ f.leg # "back"
    BY <2>1, <2>4 DEF ResolveRole
  <2> QED
    BY <2>2, <2>3, <2>4
<1> QED
  BY <1>2, <1>3, <1>4 DEF Resolved

-----------------------------------------------------------------------------
(***************************************************************************)
(* Every step preserves the invariant.                                     *)
(***************************************************************************)

\* Nothing about a run holds before its results are there.
LEMMA NotEnded ==
    /\ ~ Ended => AgreedOK /\ VulnIsAuthorized /\ DirectionIsRight
    /\ ~ Ended /\ stage # "ended" => PreflightIsEnough
BY DEF AgreedOK, VulnIsAuthorized, DirectionIsRight, Ran, PreflightIsEnough

LEMMA InitSetupInv == Init => SetupInv
<1> SUFFICES ASSUME Init PROVE SetupInv
  OBVIOUS
<1>1. ~ Ended /\ ~ UnderWay /\ ~ Launched
  BY DEF Init, Ended, UnderWay, Launched
<1>2. FreshOK /\ ConfigOK /\ LaunchOK /\ PortsOK /\ CheckedOK /\ ToldOK
  BY <1>1 DEF Init, FreshOK, ConfigOK, LaunchOK, PortsOK, CheckedOK, ToldOK
<1> QED
  BY <1>1, <1>2, NotEnded DEF SetupInv, Init

\* The steps that leave the run where it is, or start the next one: no run is
\* under way after them.
LEMMA IdleSteps ==
    ASSUME SetupInv,
           Relaunch \/ OpenWindow \/ (\E n \in Nodes : ToggleTest(n)) \/ Again
    PROVE  SetupInv'
<1>1. /\ stage' \in {"boot", "form"} /\ UNCHANGED <<sessionPort, randoms>>
      /\ result' = Nothing /\ told' = Blank /\ form' \in Forms
  BY DEF SetupInv, FreshOK, ToldOK, Relaunch, OpenWindow, ToggleTest, Again, window, outcome
<1>2. (~ Ended /\ ~ UnderWay /\ ~ Launched)'
  BY <1>1 DEF Ended, UnderWay, Launched
<1>3. FreshOK' /\ ConfigOK' /\ LaunchOK' /\ PortsOK' /\ CheckedOK' /\ ToldOK'
  BY <1>1, <1>2 DEF SetupInv, FreshOK, ConfigOK, LaunchOK, PortsOK, CheckedOK, ToldOK
<1>4. AgreedOK' /\ VulnIsAuthorized' /\ DirectionIsRight' /\ PreflightIsEnough'
  BY <1>1, <1>2 DEF AgreedOK, VulnIsAuthorized, DirectionIsRight, Ran, PreflightIsEnough
<1> QED
  BY <1>3, <1>4 DEF SetupInv

\* A front end resolves the settings, and goes on or refuses.
LEMMA ResolveSteps ==
    ASSUME SetupInv, RunCommand \/ RunClicked
    PROVE  SetupInv'
<1> USE DEF SetupInv
<1>1. /\ stage = "form" /\ stage' \in {"resolved", "ended"}
      /\ UNCHANGED <<form, result>>
      /\ stage' = "resolved" => told' = told
      /\ stage' = "resolved" => ~ BackLegBlocked(form.leg, form.mode, form.backendHost)
      /\ stage' = "ended" => told' = Told(TRUE)
  BY DEF RunCommand, RunClicked, Refuse, ResolveTopology, outcome
<1>2. result' = Nothing
  BY <1>1 DEF FreshOK
<1>3. (~ Ended /\ ~ Launched)'
  BY <1>1, <1>2 DEF Ended, Launched
<1>4. ConfigOK'
  <2> SUFFICES ASSUME stage' = "resolved" PROVE \E p : p # Unset /\ config' = Resolved(form, p)
    BY <1>1, <1>3 DEF ConfigOK, UnderWay, Resolved
  <2>1. CASE RunCommand
    BY <2>1, PortChosen DEF RunCommand, Refuse, ResolveTopology
  <2>2. CASE RunClicked
    <3>1. PICK p \in (IF GivenPort(form) = Unset THEN RandomPorts ELSE {GivenPort(form)}) :
             config' = Resolved(form, p)
      BY <2>2 DEF RunClicked, Refuse, CurrentConfig
    <3>2. p # Unset
      BY <3>1 DEF RandomPorts, Ephemeral, Unset
    <3> QED
      BY <3>1, <3>2
  <2> QED
    BY <2>1, <2>2
<1>5. PortsOK'
  <2>1. CASE UNCHANGED <<sessionPort, randoms>>
    BY <2>1 DEF PortsOK
  <2>2. CASE RunClicked /\ CurrentConfig
    <3>1. CASE GivenPort(form) = Unset
      <4>1. PICK p \in RandomPorts : sessionPort' = p /\ randoms' = randoms \cup {p}
        BY <2>2, <3>1 DEF CurrentConfig
      <4>2. p # Unset /\ (sessionPort # Unset => p = sessionPort)
        BY <4>1 DEF RandomPorts, Ephemeral, Unset
      <4> QED
        BY <4>1, <4>2 DEF PortsOK
    <3>2. CASE GivenPort(form) # Unset
      BY <2>2, <3>2 DEF CurrentConfig, PortsOK
    <3> QED
      BY <3>1, <3>2
  <2> QED
    BY <2>1, <2>2 DEF RunCommand, RunClicked, window
<1>6. FreshOK' /\ LaunchOK' /\ AgreedOK' /\ VulnIsAuthorized' /\ DirectionIsRight'
  BY <1>2, <1>3 DEF FreshOK, LaunchOK, AgreedOK, VulnIsAuthorized, DirectionIsRight, Ran
<1>7. CheckedOK' /\ ToldOK'
  BY <1>1, <1>3 DEF CheckedOK, ToldOK, UnderWay
<1>8. PreflightIsEnough'
  BY <1>1, <1>2, <1>3 DEF PreflightIsEnough, Told, Blank
<1> QED
  BY <1>4, <1>5, <1>6, <1>7, <1>8

\* The preflight lets the run go on as it is, or ends it.
LEMMA PreflightStep ==
    ASSUME SetupInv, Preflight
    PROVE  SetupInv'
<1> USE DEF SetupInv
<1>1. /\ stage = "resolved" /\ stage' \in {"checked", "ended"}
      /\ UNCHANGED <<form, config, admin, result, sessionPort, randoms>>
      /\ stage' = "checked" => told' = told
      /\ stage' = "ended" => told' = Told(TRUE) \/ told' = Told(FALSE)
  BY DEF Preflight, outcome, window
<1>2. result' = Nothing
  BY <1>1 DEF FreshOK
<1>3. (~ Ended /\ ~ Launched)'
  BY <1>1, <1>2 DEF Ended, Launched
<1>4. ConfigOK' /\ PortsOK'
  BY <1>1, <1>3 DEF ConfigOK, PortsOK, UnderWay, Resolved
<1>5. FreshOK' /\ LaunchOK' /\ AgreedOK' /\ VulnIsAuthorized' /\ DirectionIsRight'
  BY <1>2, <1>3 DEF FreshOK, LaunchOK, AgreedOK, VulnIsAuthorized, DirectionIsRight, Ran
<1>6. stage' = "checked" /\ ~ form.skipPreflight => ~ MissingRequired(config) /\ IsElevated
  BY DEF Preflight, Blocks, IsElevated
<1>7. CheckedOK' /\ ToldOK'
  BY <1>1, <1>3, <1>6 DEF CheckedOK, ToldOK, UnderWay, IsElevated, Supported, MissingRequired
<1>8. PreflightIsEnough'
  BY <1>1, <1>2, <1>3 DEF PreflightIsEnough, Told, Blank
<1> QED
  BY <1>4, <1>5, <1>7, <1>8

\* The arguments of the subprocess.
LEMMA LaunchStep ==
    ASSUME SetupInv, Launch
    PROVE  SetupInv'
<1> USE DEF SetupInv
<1>1. /\ stage = "checked" /\ stage' = "launched"
      /\ UNCHANGED <<form, config, admin, check, result, sessionPort, randoms, told>>
  BY DEF Launch, outcome, window
<1>2. result' = Nothing
  BY <1>1 DEF FreshOK
<1>3. ~ Ended'
  BY <1>1 DEF Ended
<1>4. PICK p : p # Unset /\ config = Resolved(form, p)
  BY <1>1 DEF ConfigOK, UnderWay
<1>5. config.leg = form.leg
  BY <1>4 DEF Resolved
<1>6. ConfigOK' /\ PortsOK'
  BY <1>1 DEF ConfigOK, PortsOK, UnderWay, Resolved
<1>7. LaunchOK'
  <2>1. /\ args'.ip = config.ip /\ args'.port = config.port /\ args'.source = config.source
        /\ args'.role = config.role /\ args'.leg = config.leg /\ args'.allowed = config.allowed
        /\ args'.mode = form.mode /\ args'.confirm = form.confirm
        /\ args'.payload = form.payload /\ args'.match = form.match
    BY DEF Launch, Emitted
  <2>2. /\ args'.leg = "front" => args'.proxyHost = form.proxyHost
        /\ args'.leg = "back" => args'.backendHost = form.backendHost
    BY <2>1 DEF Launch
  <2>3. header'.ip = config.ip /\ header'.role = config.role /\ header'.leg = config.leg
    BY DEF Launch
  <2> QED
    BY <1>1, <2>1, <2>2, <2>3 DEF LaunchOK
<1>8. FreshOK' /\ AgreedOK' /\ VulnIsAuthorized' /\ DirectionIsRight'
  BY <1>2, <1>3 DEF FreshOK, AgreedOK, VulnIsAuthorized, DirectionIsRight, Ran
<1>9. CheckedOK'
  <2>1. form.front = "gui" => warned' = {t \in CheckedSpecs : RoleMismatch(t, config.role)}
    BY DEF Launch
  <2> QED
    BY <1>1, <2>1 DEF CheckedOK, UnderWay, IsElevated, CheckedSpecs
<1>10. ToldOK' /\ PreflightIsEnough'
  BY <1>1, <1>3 DEF ToldOK, PreflightIsEnough
<1> QED
  BY <1>6, <1>7, <1>8, <1>9, <1>10

\* The subprocess resolves the arguments and runs the tests that apply.
LEMMA ChildStep ==
    ASSUME SetupInv, RunChild
    PROVE  SetupInv'
<1> USE DEF SetupInv
<1>1. /\ stage = "launched" /\ stage' = "ended"
      /\ UNCHANGED <<form, config, args, header, warned, sessionPort, randoms, admin, check,
                     told>>
  BY DEF RunChild, launch, window
<1>2. UnderWay /\ Launched
  BY <1>1 DEF UnderWay, Launched
<1>3. PICK p : p # Unset /\ config = Resolved(form, p)
  BY <1>2 DEF ConfigOK
<1>4. PICK q \in (IF GivenPort(args) = Unset THEN Ephemeral ELSE {GivenPort(args)}),
           unlucky \in SUBSET Collected :
         LET c == Resolved(args, q)
             faults(t) == IF t \in unlucky THEN form.faults
                          ELSE form.faults \cap SessionFaults
         IN  /\ child' = c
             /\ causes' = [t \in Collected |-> Causes(t, c, faults(t))]
             /\ result' = [t \in Collected |-> Outcome(t, c, Causes(t, c, faults(t)))]
  BY DEF RunChild
<1>5. /\ args.ip = Resolved(form, p).ip /\ args.port = p /\ args.source = form.source
      /\ args.role = Resolved(form, p).role /\ args.leg = form.leg
      /\ args.allowed = form.allowed /\ args.confirm = form.confirm /\ args.mode = form.mode
      /\ args.leg = "front" => args.proxyHost = form.proxyHost
  BY <1>2, <1>3 DEF LaunchOK, Resolved
<1>6. Resolved(args, q) = Resolved(form, p)
  BY <1>3, <1>4, <1>5, ResolvedAgain
<1>7. child' = config /\ child'.allowed = form.allowed
      /\ child'.role = ResolveRole(form.leg, form.role)
  BY <1>3, <1>4, <1>6 DEF Resolved
<1>8. /\ DOMAIN result' = Collected /\ child' = Resolved(args, q)
      /\ \A t \in Collected :
            /\ result'[t] = Outcome(t, child', causes'[t])
            /\ \E faults \in SUBSET form.faults : causes'[t] = Causes(t, child', faults)
  <2> DEFINE faults(t) == IF t \in unlucky THEN form.faults ELSE form.faults \cap SessionFaults
  <2>1. \A t : faults(t) \in SUBSET form.faults
    OBVIOUS
  <2>2. /\ child' = Resolved(args, q)
        /\ causes' = [t \in Collected |-> Causes(t, Resolved(args, q), faults(t))]
        /\ result' = [t \in Collected |->
                      Outcome(t, Resolved(args, q), Causes(t, Resolved(args, q), faults(t)))]
    BY <1>4, Zenon
  <2> HIDE DEF faults
  <2> QED
    BY <2>1, <2>2
<1>15. \A t \in Ran' : t \in Collected /\ ~ Skipped(t, child'.role) /\ causes'[t] = {}
  <2> SUFFICES ASSUME NEW t \in Ran'
               PROVE  t \in Collected /\ ~ Skipped(t, child'.role) /\ causes'[t] = {}
    OBVIOUS
  <2>1. t \in Collected /\ Outcome(t, child', causes'[t]) = "ran"
    BY <1>8 DEF Ran
  <2> QED
    BY <2>1 DEF Outcome, SetupFails
<1>9. FreshOK' /\ ConfigOK' /\ LaunchOK' /\ PortsOK' /\ AgreedOK'
  BY <1>1, <1>2, <1>3, <1>7 DEF FreshOK, ConfigOK, LaunchOK, PortsOK, AgreedOK
<1>10. VulnIsAuthorized'
  <2> SUFFICES ASSUME NEW t \in Ran', Tests[t].vuln
               PROVE  /\ form.confirm
                      /\ \E i \in DOMAIN form.allowed : child'.ip \in form.allowed[i]
    BY <1>1 DEF VulnIsAuthorized
  <2>1. ~ Unauthorized(child')
    BY <1>8, <1>15, Zenon DEF Causes
  <2> QED
    BY <1>5, <1>7, <2>1 DEF Unauthorized, InAllowedRange
<1>11. DirectionIsRight'
  <2> SUFFICES ASSUME NEW t \in Ran'
               PROVE  IF Tests[t].proxy THEN form.mode # "off"
                      ELSE CASE form.leg = "front" -> "client" \in Tests[t].roles
                             [] form.leg = "back"  -> "server" \in Tests[t].roles
                             [] OTHER              -> form.role \in Tests[t].roles
    BY <1>1 DEF DirectionIsRight
  <2>1. IF Tests[t].proxy THEN form.mode # "off"
        ELSE ResolveRole(form.leg, form.role) \in Tests[t].roles
    BY <1>5, <1>7, <1>15 DEF Skipped
  <2>2. CASE form.leg = "front"
    BY <2>1, <2>2 DEF ResolveRole
  <2>3. CASE form.leg = "back"
    BY <2>1, <2>3 DEF ResolveRole
  <2>4. CASE form.leg # "front" /\ form.leg # "back"
    BY <2>1, <2>4 DEF ResolveRole
  <2> QED
    BY <2>2, <2>3, <2>4
<1>12. CheckedOK' /\ ToldOK'
  BY <1>1, <1>2 DEF CheckedOK, ToldOK, IsElevated, CheckedSpecs
<1>13. DOMAIN result' = Collected /\ Collected \subseteq Leaves /\ result' # Nothing
  <2>1. DOMAIN result' = Collected
    BY <1>8
  <2>2. Collected \subseteq form.match
    BY <1>2 DEF Collected, LaunchOK
  <2>3. form.match \subseteq Leaves
    BY SetupAssumption DEF ToldOK, GuiForm, CliForm
  <2>4. "none" \notin DOMAIN result'
    BY <2>1, <2>2, <2>3, SetupAssumption
  <2>5. "none" \in DOMAIN Nothing
    BY DEF Nothing
  <2> QED
    BY <2>1, <2>2, <2>3, <2>4, <2>5
<1>14. PreflightIsEnough'
  <2>1. ASSUME NEW t \in DOMAIN result'
        PROVE  /\ "back leg" \notin causes'[t]
               /\ ~ form.skipPreflight => causes'[t] \cap {"target", "rights"} = {}
    <3>1. PICK faults \in SUBSET form.faults : causes'[t] = Causes(t, child', faults)
      BY <1>8, <1>13, <2>1
    <3>2. ~ BackLegBlocked(args.leg, args.mode, args.backendHost)
      BY <1>2, <1>5 DEF CheckedOK, LaunchOK, BackLegBlocked
    <3>3. ~ form.skipPreflight => ~ MissingRequired(child') /\ IsElevated
      BY <1>2, <1>7 DEF CheckedOK
    <3>4. /\ "back leg" \notin faults /\ "target" \notin faults /\ "rights" \notin faults
      BY <1>1, SetupAssumption
         DEF ToldOK, GuiForm, CliForm, SharedChoices, SessionFaults, TestFaults
    <3> QED
      BY <3>1, <3>2, <3>3, <3>4 DEF Causes
  <2>2. ASSUME form.front = "gui", NEW t \in CheckedSpecs \cap DOMAIN result', ~ Tests[t].proxy
        PROVE  t \in warned <=> result'[t] = "skipped"
    <3>1. t \in warned <=> Skipped(t, config.role)
      BY <1>2, <2>2 DEF CheckedOK, RoleMismatch, Skipped
    <3>2. ~ OtherMode(t)
      BY <2>2, SetupAssumption DEF OtherMode, Requests, CheckedSpecs
    <3>3. result'[t] = Outcome(t, config, causes'[t])
      BY <1>7, <1>8, <2>2
    <3>4. result'[t] = "skipped" <=> Skipped(t, config.role)
      BY <3>2, <3>3 DEF Outcome
    <3> QED
      BY <3>1, <3>4
  <2>3. told' = Blank
    BY <1>1 DEF ToldOK
  <2>5. CheckedSpecs' = CheckedSpecs
    BY <1>1 DEF CheckedSpecs
  <2> QED
    BY <1>1, <1>13, <2>1, <2>2, <2>3, <2>5 DEF PreflightIsEnough
<1> QED
  BY <1>9, <1>10, <1>11, <1>12, <1>14

LEMMA NextSetupInv == SetupInv /\ [Next]_vars => SetupInv'
<1> SUFFICES ASSUME SetupInv, [Next]_vars PROVE SetupInv'
  OBVIOUS
<1>1. CASE Next
  BY <1>1, IdleSteps, ResolveSteps, PreflightStep, LaunchStep, ChildStep DEF Next
<1>2. CASE UNCHANGED vars
  <2>1. /\ UNCHANGED <<form, admin, check, sessionPort, randoms, stage, config, told>>
        /\ UNCHANGED <<warned, header, args, child, result, causes>>
    BY <1>2 DEF vars, window, launch, outcome
  <2>2. FreshOK' /\ ConfigOK' /\ LaunchOK' /\ PortsOK' /\ AgreedOK'
    BY <2>1 DEF SetupInv, FreshOK, ConfigOK, LaunchOK, PortsOK, AgreedOK, UnderWay, Launched,
                Ended, Resolved
  <2>4. CheckedOK' /\ ToldOK'
    BY <2>1 DEF SetupInv, CheckedOK, ToldOK, UnderWay, Launched, Ended, IsElevated,
                CheckedSpecs
  <2>5. PreflightIsEnough'
    BY <2>1 DEF SetupInv, PreflightIsEnough, Ended, CheckedSpecs
  <2>3. VulnIsAuthorized' /\ DirectionIsRight'
    BY <2>1 DEF SetupInv, VulnIsAuthorized, DirectionIsRight, Ran, Ended
  <2> QED
    BY <2>2, <2>3, <2>4, <2>5 DEF SetupInv
<1> QED
  BY <1>1, <1>2

-----------------------------------------------------------------------------
(***************************************************************************)
(* The theorems.                                                           *)
(***************************************************************************)

\* The inductive invariant holds in every reachable state of a run's set-up.
THEOREM InvariantHolds == Spec => []SetupInv
BY InitSetupInv, NextSetupInv, PTL DEF Spec

\* The subprocess is aimed where the front end resolved and recorded, and a
\* window draws at most one random port.
THEOREM ChildAlwaysAgrees == Spec => []ChildAgrees
<1>1. SetupInv => ChildAgrees
  <2> SUFFICES ASSUME SetupInv PROVE ChildAgrees
    OBVIOUS
  <2> USE DEF SetupInv
  <2>1. Ended => child = config /\ \A k \in {"ip", "role", "leg"} : header[k] = child[k]
    BY DEF AgreedOK, LaunchOK, Launched
  <2>2. Cardinality(randoms) <= 1
    <3>1. randoms = {} \/ randoms = {sessionPort}
      BY DEF PortsOK
    <3>2. Cardinality({}) = 0 /\ Cardinality({sessionPort}) = 1
      BY FS_EmptySet, FS_Singleton
    <3> QED
      BY <3>1, <3>2
  <2> QED
    BY <2>1, <2>2 DEF ChildAgrees
<1> QED
  BY <1>1, InvariantHolds, PTL

\* No vuln test's body runs without the operator's confirmation and a range that
\* holds the address the traffic goes to.
THEOREM VulnAlwaysAuthorized == Spec => []VulnIsAuthorized
<1>1. SetupInv => VulnIsAuthorized
  BY DEF SetupInv
<1> QED
  BY <1>1, InvariantHolds, PTL

\* Bodies only run in the direction the leg or the role asks for, proxy tests
\* only with a proxy.
THEOREM DirectionAlwaysRight == Spec => []DirectionIsRight
<1>1. SetupInv => DirectionIsRight
  BY DEF SetupInv
<1> QED
  BY <1>1, InvariantHolds, PTL

\* No fixture turns a test away for want of a target, of privileges or of a back
\* leg's topology once the front end has checked them, whatever else its host, its
\* DUT and its other settings do to the fixtures; the window's warning names the
\* tests that are skipped, and a run that did not start is told to the operator.
THEOREM PreflightSuffices == Spec => []PreflightIsEnough
<1>1. SetupInv => PreflightIsEnough
  BY DEF SetupInv
<1> QED
  BY <1>1, InvariantHolds, PTL
=============================================================================

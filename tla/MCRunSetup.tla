----------------------------- MODULE MCRunSetup -----------------------------
(***************************************************************************)
(* A tree of three modules and five tests: one of each kind the policy and *)
(* the fixtures tell apart.  The settings vary along the questions asked   *)
(* of a run.                                                               *)
(***************************************************************************)
EXTENDS RunSetup

Kind(roles, vuln, proxy, fixtures) ==
    [roles |-> roles, vuln |-> vuln, proxy |-> proxy, fixtures |-> fixtures]

Endpoint == {"dut_config", "network_interface", "local_ip"}

Catalog == [data   |-> Kind({"client"}, FALSE, FALSE,
                            Endpoint \cup {"payload", "established_tcp_connection"}),
            flood  |-> Kind({"client"}, TRUE, FALSE, Endpoint),
            serve  |-> Kind({"server"}, FALSE, FALSE, Endpoint),
            relay  |-> Kind({"client"}, FALSE, TRUE, {"proxy_config", "proxy_client"}),
            refuse |-> Kind({"client"}, FALSE, TRUE,
                            {"proxy_config", "socks5_config", "closed_origin_port"})]

Tree == [ip |-> Root, ip_a |-> "ip", data |-> "ip_a", flood |-> "ip_a",
         tcp |-> Root, syn |-> "tcp", syn_a |-> "syn", serve |-> "syn_a",
         proxy |-> Root, proxy_a |-> "proxy", relay |-> "proxy_a", refuse |-> "proxy_a"]

Plain == [front |-> "cli", ip |-> "dut", port |-> Unset, source |-> Unset, role |-> "client",
          leg |-> "none", mode |-> "off", proxyHost |-> Blank, proxyPort |-> Unset,
          backendHost |-> Blank, backendPort |-> Unset, allowed |-> <<>>, confirm |-> FALSE,
          payload |-> "random", module |-> Blank, submodule |-> Blank, match |-> Leaves,
          skipPreflight |-> FALSE, host |-> "Linux", admin |-> TRUE, faults |-> {}]

\* Where a run is aimed: in the window along the same lines, but fewer.
AtProxy == {<<Blank, Unset>>, <<"proxy", Unset>>, <<"proxy", 1080>>, <<"proxy", Malformed>>}
Aimed == {[Plain EXCEPT !.port = p, !.role = r, !.leg = l, !.mode = m,
                        !.proxyHost = h[1], !.proxyPort = h[2], !.backendHost = b] :
            p \in {Unset, 80}, r \in {"client", "server"}, l \in {"none", "front", "back"},
            m \in {"off", "socks5"}, h \in AtProxy, b \in {Blank, "origin"}}
    \cup {[Plain EXCEPT !.front = "gui", !.role = r, !.leg = l, !.mode = m,
                        !.proxyHost = h[1], !.proxyPort = h[2], !.backendHost = "origin"] :
            r \in {"client", "server"}, l \in {"none", "front", "back"},
            m \in {"off", "socks5"}, h \in AtProxy}
    \cup {[Plain EXCEPT !.front = "gui", !.port = 80, !.leg = l, !.mode = m] :
            l \in {"front", "back"}, m \in {"off", "socks5"}}

\* Whether it is authorized.
Authorized == {[Plain EXCEPT !.front = f, !.leg = l, !.ip = i, !.proxyHost = "proxy",
                             !.proxyPort = 1080, !.allowed = a, !.confirm = c] :
            f \in {"cli", "gui"}, l \in {"none", "front"}, i \in {"dut", Name}, c \in BOOLEAN,
            a \in {<<{"dut"}>>, <<{"proxy"}>>, <<BadCidr, {"dut"}>>, <<{"dut"}, BadCidr>>}}

\* Whether it can start.
Started == {[Plain EXCEPT !.ip = i, !.port = p, !.source = p, !.payload = y, !.skipPreflight = s,
                          !.host = h, !.admin = a] :
            i \in {"dut", Blank}, p \in {0, 80, Malformed}, y \in {"random", "custom"}, s \in BOOLEAN,
            h \in {"Linux", "Darwin"}, a \in BOOLEAN}
    \cup {[Plain EXCEPT !.front = "gui", !.ip = i, !.backendPort = b, !.host = h, !.admin = a] :
            i \in {"dut", Blank}, b \in {Unset, Malformed}, h \in {"Windows", "Darwin"}, a \in BOOLEAN}

\* Which tests it is for.
Sliced == {[Plain EXCEPT !.module = m, !.submodule = s, !.match = k] :
            m \in {Blank, "ip", "tcp", "proxy"}, s \in {Blank, "syn"},
            k \in {Leaves, {"serve"}, {"data", "serve"}}}

\* What it meets.
Unlucky == {[Plain EXCEPT !.front = f, !.mode = m, !.proxyHost = "proxy", !.proxyPort = 1080,
                          !.backendHost = "origin", !.faults = x] :
            f \in {"cli", "gui"}, m \in {"off", "socks5", "http-connect"},
            x \in {{y} : y \in SessionFaults} \cup {TestFaults}}

Settings == Aimed \cup Unlucky \cup Authorized \cup Started \cup Sliced
=============================================================================

---------------------------- MODULE ProxyTunnel ----------------------------
(***************************************************************************)
(* The proxy client (src/proxy/client.py), its handshakes (handshakes.py)  *)
(* and the wire formats they read (tunnel.py), against a DUT that answers  *)
(* in pieces, late, wrongly, or not at all.                                *)
(*                                                                         *)
(* The stream from the DUT is a sequence of bytes that recv() hands over   *)
(* in pieces of any size.  SOCKS5 messages have their real bytes; of an    *)
(* HTTP head only CR and LF are bytes of their own, a whole status line    *)
(* "HTTP/1.1 nnn reason" is the symbol StatusLine(nnn), any other text is  *)
(* a symbol of its own.                                                    *)
(*                                                                         *)
(* The DUT is external.  It answers a request with one of Replies, a       *)
(* record of the bytes and of what they mean to the DUT: "grant" (go on,   *)
(* or the tunnel is open), "refuse" or "bad".  Once it has granted the     *)
(* last request it relays the origin's bytes right behind the reply.       *)
(***************************************************************************)
EXTENDS Naturals, Sequences, SequencesExt

CONSTANTS Configs,      \* ProxyConfigs: [mode, front, user, password, host]
          Replies,      \* what the DUT may answer, for each kind of request
          RelayBytes,   \* the bytes an origin sends
          MaxRelay,     \* bound on the bytes relayed
          MaxHead,      \* 64 KiB in the code
          ReadLimit,    \* limit of read_until_eof
          Chunk         \* RECV_CHUNK

ASSUME TunnelAssumption ==
    /\ MaxRelay \in Nat /\ MaxHead \in Nat
    /\ ReadLimit \in Nat \ {0} /\ Chunk \in Nat \ {0}

VARIABLES cfg,          \* the configuration
          stage,        \* where the client is
          want,         \* bytes the read in progress asks for
          buf,          \* bytes it has
          method, code, \* the SOCKS5 method and reply code read so far
          sock,         \* _sock is not None
          details,      \* ProxyClient.details
          raised,       \* the exception the last call ended with
          got,          \* relayed bytes handed to the caller
          answer,       \* what the last read_until_eof returned, <<>> for nothing yet
          half,         \* half_close() was called
          wire,         \* bytes sent by the DUT and not read
          owed,         \* rest of the reply the DUT is sending
          asked,        \* the request the DUT has not answered
          verdict,      \* what the DUT has decided
          peer,         \* its side of the connection: "open", "fin", "rst"
          relayed       \* history: all bytes relayed

clientVars == <<stage, want, buf, method, code, sock, details, raised,
                got, answer, half>>
dutVars    == <<wire, owed, asked, verdict, peer, relayed>>
vars       == <<cfg, clientVars, dutVars>>

None   == "none"
NoByte == 256        \* not read yet
Nothing == <<>>      \* the details of an exception that has none
Explicit(c) == c.mode # "transparent"

\* ProxyConfig.__post_init__: an explicit mode needs the DUT's front.
ConfigAccepted(c) == Explicit(c) => c.front

Init ==
    /\ cfg \in Configs
    /\ stage = IF ConfigAccepted(cfg) THEN "start" ELSE "failed"
    /\ raised = IF ConfigAccepted(cfg) THEN None ELSE "ConfigurationError"
    /\ want = 0 /\ buf = <<>> /\ method = NoByte /\ code = NoByte
    /\ sock = FALSE /\ details = Nothing /\ got = <<>> /\ answer = <<>>
    /\ half = FALSE
    /\ wire = <<>> /\ owed = <<>> /\ asked = None
    /\ verdict = None /\ peer = "open" /\ relayed = <<>>

-----------------------------------------------------------------------------
(***************************************************************************)
(* The wire formats.                                                       *)
(***************************************************************************)
CR == 13
LF == 10
HeaderTerminator == <<CR, LF, CR, LF>>
StatusLine(n) == 1000 + n

\* read_http_response_head stops as soon as the terminator is in the buffer.
HeadComplete_Early(b) == Len(b) >= 2 /\ IsSuffix(<<CR, LF>>, b)
HeadComplete(b) == Len(b) >= 4 /\ IsSuffix(HeaderTerminator, b)

\* parse_http_connect_response: an empty first line, or one that is not a
\* status line, is a protocol violation.
HasStatus(b) == b[1] >= 1000
Status(b)    == b[1] - 1000

\* HttpConnectResponse.tunnel_established: any 2xx.
TunnelEstablished_UpTo300(status) == 200 <= status /\ status <= 300
TunnelEstablished(status) == 200 <= status /\ status < 300

Socks5Version   == 5
AuthNone        == 0
AuthUserPass    == 2
AuthNoAcceptable == 255
AtypIPv4   == 1
AtypDomain == 3
AtypIPv6   == 4

-----------------------------------------------------------------------------
(***************************************************************************)
(* What a DUT means by a reply: the reading the RFCs give of its bytes,    *)
(* against which the client's own reading is held.                         *)
(***************************************************************************)
Bytes  == 0..1999
Octets == 0..255

\* RFC 9110: a status line, header lines, an empty line; any 2xx opens the tunnel.
EndsHead(b, k) == b[k-3] = CR /\ b[k-2] = LF /\ b[k-1] = CR /\ b[k] = LF
WholeHead(b)   == /\ Len(b) \in 4..MaxHead
                  /\ EndsHead(b, Len(b)) /\ b[1] >= StatusLine(0)
HeadMeans(b)   == IF ~ WholeHead(b) THEN "bad"
                  ELSE IF b[1] \in StatusLine(200)..StatusLine(299) THEN "grant" ELSE "refuse"

\* RFC 1928: the method selected, or none acceptable.
GreetingMeans(b) ==
    IF Len(b) # 2 \/ b[1] # Socks5Version THEN "bad"
    ELSE IF b[2] \in {AuthNone, AuthUserPass} THEN "grant"
    ELSE IF b[2] = AuthNoAcceptable THEN "refuse" ELSE "bad"

\* RFC 1929: a status other than 0 refuses the credentials.
UserPassMeans(b) == IF Len(b) # 2 THEN "bad" ELSE IF b[2] = 0 THEN "grant" ELSE "refuse"

\* RFC 1928: version, code, reserved, type; the bound address; two bytes of port.
HasHeader(b)   == /\ Len(b) >= 4 /\ b[1] = Socks5Version
                  /\ b[4] \in {AtypIPv4, AtypDomain, AtypIPv6}
                  /\ b[4] = AtypDomain => Len(b) >= 5
PortAt(b)      == 4 + (IF b[4] = AtypIPv4 THEN 4 ELSE IF b[4] = AtypIPv6 THEN 16 ELSE 1 + b[5])
WholeReply(b)  == HasHeader(b) /\ Len(b) = PortAt(b) + 2
RequestMeans(b) == IF ~ WholeReply(b) THEN "bad" ELSE IF b[2] = 0 THEN "grant" ELSE "refuse"

\* The DUT answers one request at a time: nothing comes behind a whole message but
\* what it relays.
ConnectReply(r)  == /\ r.bytes \in Seq(Bytes) /\ r.means = HeadMeans(r.bytes)
                    /\ \A k \in 4..Len(r.bytes)-1 : ~ EndsHead(r.bytes, k)
GreetingReply(r) == /\ r.bytes \in Seq(Octets) /\ r.means = GreetingMeans(r.bytes)
                    /\ Len(r.bytes) <= 2
UserPassReply(r) == /\ r.bytes \in Seq(Octets) /\ r.means = UserPassMeans(r.bytes)
                    /\ Len(r.bytes) <= 2
RequestReply(r)  == /\ r.bytes \in Seq(Octets) /\ r.means = RequestMeans(r.bytes)
                    /\ HasHeader(r.bytes) => Len(r.bytes) <= PortAt(r.bytes) + 2

ASSUME DutAssumption ==
    /\ \A r \in Replies["connect"]  : ConnectReply(r)
    /\ \A r \in Replies["greeting"] : GreetingReply(r)
    /\ \A r \in Replies["userpass"] : UserPassReply(r)
    /\ \A r \in Replies["request"]  : RequestReply(r)
    /\ RelayBytes \subseteq Bytes

-----------------------------------------------------------------------------
(***************************************************************************)
(* Steps of the client.                                                    *)
(***************************************************************************)
\* Start reading n bytes, as stage s.
Read(s, n) == stage' = s /\ want' = n /\ buf' = <<>>

\* The except clause of connect(): keep what the exception tells, close the
\* socket, raise.
AbortedSocket_Leaked == sock
AbortedSocket == FALSE

Abort(kind, told) ==
    /\ stage' = "failed" /\ raised' = kind /\ details' = told
    /\ sock' = AbortedSocket
    /\ want' = 0 /\ buf' = <<>>
    /\ asked' = None /\ owed' = <<>> /\ wire' = <<>>
    /\ UNCHANGED <<cfg, method, code, got, answer, half, verdict, peer, relayed>>

\* The request of a stage; its answer is read from an empty buffer.
Request(kind, s, n) ==
    /\ Read(s, n) /\ asked' = kind
    /\ method' = IF stage = "method" THEN buf[2] ELSE method
    /\ UNCHANGED <<cfg, code, sock, details, raised, got, answer, half, wire, owed,
                   verdict, peer, relayed>>

\* build_socks5_request, build_socks5_userpass_auth: a name or a credential
\* whose length does not fit a byte, or is zero, raises before anything is sent.
FitsLengthByte(text) == text \notin {"empty", "overlong"}

AskRequest ==
    IF FitsLengthByte(cfg.host) THEN Request("request", "reply", 4)
    ELSE Abort("ConfigurationError", Nothing)

AskUserPass ==
    IF FitsLengthByte(cfg.user) /\ FitsLengthByte(cfg.password)
    THEN Request("userpass", "userpass", 2)
    ELSE Abort("ConfigurationError", Nothing)

\* build_http_connect_request, build_socks5_greeting: sent on a new connection.
AskConnect  == Read("head", 1) /\ asked' = "connect" /\ UNCHANGED verdict
AskGreeting == Read("method", 2) /\ asked' = "greeting" /\ UNCHANGED verdict

\* The tunnel is up: establish() returned what the DUT told.
Established(told) ==
    /\ stage' = "open" /\ want' = 0 /\ buf' = <<>>
    /\ details' = told
    /\ UNCHANGED <<cfg, method, code, sock, raised, got, answer, half, dutVars>>

Continue(s, n) ==
    /\ Read(s, n)
    /\ UNCHANGED <<cfg, method, sock, details, raised, got, answer, half, dutVars>>

\* for_config: the handshake the mode requires.  An inline DUT has nothing to
\* grant.
FirstMessage ==
    \/ /\ cfg.mode = "transparent" /\ Read("transparent", 0)
       /\ verdict' = "grant" /\ UNCHANGED asked
    \/ cfg.mode = "http-connect" /\ AskConnect
    \/ cfg.mode = "socks5" /\ AskGreeting

\* connect(): create_connection to the front or to the origin, then the first
\* message of the mode's handshake.
Dial ==
    /\ stage = "start"
    /\ \/ /\ sock' = TRUE
          /\ FirstMessage
          /\ UNCHANGED <<cfg, method, code, details, raised, got, answer, half, wire,
                         owed, peer, relayed>>
       \/ /\ stage' = "failed" /\ raised' = "OSError"
          /\ UNCHANGED <<cfg, want, buf, method, code, sock, details, got, answer, half,
                         dutVars>>

HandshakeStages == {"transparent", "head", "method", "userpass", "reply", "address",
                    "length", "domain", "port"}
Handshaking == stage \in HandshakeStages
Waiting     == want > Len(buf)

\* One recv() of _recv_exact: any piece of what has arrived.
Recv ==
    /\ Handshaking \/ stage = "exact"
    /\ Waiting
    /\ \E k \in 1..(want - Len(buf)) :
          /\ k <= Len(wire)
          /\ buf' = buf \o SubSeq(wire, 1, k)
          /\ wire' = SubSeq(wire, k + 1, Len(wire))
    /\ UNCHANGED <<cfg, stage, want, method, code, sock, details, raised, got,
                   answer, half, owed, asked, verdict, peer, relayed>>

\* TransparentHandshake.establish: nothing is negotiated.
DecideTransparent == stage = "transparent" /\ Established(Nothing)

\* read_http_response_head, one byte at a time, and what follows it.
DecideHead ==
    /\ stage = "head" /\ ~ Waiting
    /\ IF Len(buf) > MaxHead THEN Abort("ProtocolViolation", Nothing)
       ELSE IF ~ HeadComplete(buf)
       THEN /\ want' = want + 1
            /\ UNCHANGED <<cfg, stage, buf, method, code, sock, details, raised,
                           got, answer, half, dutVars>>
       ELSE IF ~ HasStatus(buf) THEN Abort("ProtocolViolation", Nothing)
       ELSE IF ~ TunnelEstablished(Status(buf))
       THEN Abort("ProxyTunnelError", <<"response", Status(buf)>>)
       ELSE Established(<<"response", Status(buf)>>)

\* Socks5AuthFailure: what the DUT said before there was a reply.
AuthFailure(where, m) == <<where, m>>

\* _negotiate: the method the DUT selects.
DecideMethod ==
    /\ stage = "method" /\ ~ Waiting
    /\ IF buf[1] # Socks5Version THEN Abort("ProtocolViolation", Nothing)
       ELSE IF buf[2] = AuthNone
       THEN AskRequest
       ELSE IF buf[2] = AuthUserPass /\ cfg.user # None /\ cfg.password # None
       THEN AskUserPass
       ELSE Abort("ProxyTunnelError", AuthFailure("method-selection", buf[2]))

\* _negotiate: the result of RFC 1929; its version byte is not looked at.
DecideUserPass ==
    /\ stage = "userpass" /\ ~ Waiting
    /\ IF buf[2] # 0 THEN Abort("ProxyTunnelError", AuthFailure("userpass", method))
       ELSE AskRequest

\* read_socks5_reply: the header, the bound address, the port.
DecideReply ==
    /\ stage = "reply" /\ ~ Waiting
    /\ IF buf[1] # Socks5Version \/ buf[4] \notin {AtypIPv4, AtypDomain, AtypIPv6}
       THEN Abort("ProtocolViolation", Nothing)
       ELSE /\ code' = buf[2]
            /\ CASE buf[4] = AtypIPv4   -> Continue("address", 4)
                 [] buf[4] = AtypIPv6   -> Continue("address", 16)
                 [] buf[4] = AtypDomain -> Continue("length", 1)

\* The length byte of a domain name counts the name only.
DomainLength(b) == b[1]

DecideAddress ==
    /\ ~ Waiting
    /\ \/ stage = "length" /\ Continue("domain", DomainLength(buf))
       \/ stage \in {"address", "domain"} /\ Continue("port", 2)
    /\ UNCHANGED code

\* Socks5Handshake.establish judges the reply once all of it has been read.
Succeeded(c) == c = 0

DecidePort ==
    /\ stage = "port" /\ ~ Waiting
    /\ IF Succeeded(code) THEN Established(<<"result", method, code>>)
       ELSE Abort("ProxyTunnelError", <<"result", method, code>>)

Decide == DecideTransparent \/ DecideHead \/ DecideMethod \/ DecideUserPass \/ DecideReply
          \/ DecideAddress \/ DecidePort

\* settimeout(): no recv() blocks for ever.
TimesOut_Never == FALSE
TimesOut == wire = <<>> /\ peer = "open"

\* What recv() can end with instead of data.
RecvFailures ==
    {kind \in {"TimeoutError", "PeerClosedEarly", "OSError"} :
        \/ kind = "TimeoutError" /\ TimesOut
        \/ kind = "PeerClosedEarly" /\ wire = <<>> /\ peer = "fin"
        \/ kind = "OSError" /\ peer = "rst"}

HandshakeFails ==
    /\ Handshaking /\ Waiting
    /\ \E kind \in RecvFailures : Abort(kind, Nothing)

\* Ctrl+C anywhere in the handshake.
HandshakeInterrupted ==
    /\ Handshaking
    /\ Abort("KeyboardInterrupt", Nothing)

-----------------------------------------------------------------------------
(***************************************************************************)
(* The tunnel in use.                                                      *)
(***************************************************************************)
\* An operation ends: by raising, or with what it returns.
Ends(kind) ==
    /\ stage' = "open" /\ want' = 0 /\ buf' = <<>> /\ raised' = kind
    /\ got' = got \o buf
    /\ UNCHANGED <<cfg, method, code, sock, details, half, dutVars>>

\* roundtrip(): sendall, then as many bytes back as were sent.  sendall fails
\* on a connection that was reset, or whose write side is shut.
Roundtrip ==
    /\ stage = "open" /\ raised = None
    /\ \E n \in 1..MaxRelay :
          IF peer = "rst" \/ half THEN Ends("OSError") /\ UNCHANGED answer
          ELSE /\ Read("exact", n)
               /\ UNCHANGED <<cfg, method, code, sock, details, raised, got,
                              answer, half, dutVars>>

RoundtripEnds ==
    /\ stage = "exact"
    /\ \/ ~ Waiting /\ Ends(None)
       \/ Waiting /\ \E kind \in RecvFailures : Ends(kind)
    /\ UNCHANGED answer

\* half_close(): FIN, the reading side stays.
HalfClose ==
    /\ stage = "open" /\ raised = None /\ ~ half
    /\ IF peer = "rst" THEN raised' = "OSError" /\ UNCHANGED half
       ELSE half' = TRUE /\ UNCHANGED raised
    /\ UNCHANGED <<cfg, stage, want, buf, method, code, sock, details, got, answer,
                   dutVars>>

\* read_until_eof(): pieces of up to RECV_CHUNK until the limit is passed ...
ReadUntilEof ==
    /\ stage = "open" /\ raised = None
    /\ Read("eof", 0) /\ answer' = <<>>
    /\ UNCHANGED <<cfg, method, code, sock, details, raised, got, half, dutVars>>

EofRecv ==
    /\ stage = "eof" /\ Len(buf) < ReadLimit
    /\ \E k \in 1..Chunk :
          /\ k <= Len(wire)
          /\ buf' = buf \o SubSeq(wire, 1, k)
          /\ wire' = SubSeq(wire, k + 1, Len(wire))
    /\ UNCHANGED <<cfg, stage, want, method, code, sock, details, raised, got,
                   answer, half, owed, asked, verdict, peer, relayed>>

\* ... or the peer closes.  A timeout is not the end of the stream.
EofTimeout == UNCHANGED answer /\ Ends("ProtocolViolation")

EofEnds ==
    /\ stage = "eof"
    /\ \/ /\ Len(buf) >= ReadLimit \/ (wire = <<>> /\ peer = "fin")
          /\ answer' = <<buf>> /\ Ends(None)
       \/ Len(buf) < ReadLimit /\ TimesOut /\ EofTimeout
       \/ Len(buf) < ReadLimit /\ peer = "rst" /\ Ends("OSError") /\ UNCHANGED answer

\* __exit__: after the body, or when an operation of it raised.
Close ==
    /\ stage = "open"
    /\ stage' = "closed" /\ sock' = FALSE /\ wire' = <<>>
    /\ UNCHANGED <<cfg, want, buf, method, code, details, raised, got, answer, half,
                   owed, asked, verdict, peer, relayed>>

Client == Dial \/ Recv \/ Decide \/ HandshakeFails \/ Roundtrip \/ RoundtripEnds
          \/ HalfClose \/ ReadUntilEof \/ EofRecv \/ EofEnds \/ Close

-----------------------------------------------------------------------------
(***************************************************************************)
(* The DUT.                                                                *)
(***************************************************************************)
Connected == sock /\ peer = "open"

DutAnswers ==
    /\ Connected /\ asked # None
    /\ \E r \in Replies[asked] :
          /\ owed' = r.bytes
          /\ verdict' = IF r.means = "grant" /\ asked \notin {"connect", "request"}
                        THEN "more" ELSE r.means
    /\ asked' = None
    /\ UNCHANGED <<cfg, clientVars, wire, peer, relayed>>

DutSends ==
    /\ Connected /\ owed # <<>>
    /\ \E k \in 1..Len(owed) :
          /\ wire' = wire \o SubSeq(owed, 1, k)
          /\ owed' = SubSeq(owed, k + 1, Len(owed))
    /\ UNCHANGED <<cfg, clientVars, asked, verdict, peer, relayed>>

DutRelays ==
    /\ Connected /\ verdict = "grant" /\ owed = <<>>
    /\ Len(relayed) < MaxRelay
    /\ \E b \in RelayBytes : wire' = Append(wire, b) /\ relayed' = Append(relayed, b)
    /\ UNCHANGED <<cfg, clientVars, owed, asked, verdict, peer>>

\* FIN after what was sent, or a reset that takes it away.
DutCloses ==
    /\ Connected
    /\ \/ peer' = "fin" /\ UNCHANGED wire
       \/ peer' = "rst" /\ wire' = <<>>
    /\ UNCHANGED <<cfg, clientVars, owed, asked, verdict, relayed>>

Dut == DutAnswers \/ DutSends \/ DutRelays \/ DutCloses

Over == stage \in {"failed", "closed"} /\ UNCHANGED vars

Next == Client \/ HandshakeInterrupted \/ Dut \/ Over

\* The client goes on: every recv() returns, fails or times out.  Nothing is
\* asked of the DUT.
Spec == Init /\ [][Next]_vars /\ WF_vars(Client)

-----------------------------------------------------------------------------
(***************************************************************************)
(* Properties.                                                             *)
(***************************************************************************)
\* The type of the client's and the DUT's state.
TypeOK ==
    /\ cfg \in Configs
    /\ stage \in HandshakeStages \cup {"start", "open", "exact", "eof", "failed", "closed"}
    /\ want \in Nat /\ buf \in Seq(Bytes)
    /\ method \in 0..NoByte /\ code \in 0..NoByte
    /\ sock \in BOOLEAN /\ half \in BOOLEAN
    /\ raised \in {None, "ConfigurationError", "OSError", "TimeoutError",
                   "PeerClosedEarly", "ProtocolViolation", "ProxyTunnelError",
                   "KeyboardInterrupt"}
    /\ got \in Seq(Bytes) /\ wire \in Seq(Bytes) /\ relayed \in Seq(Bytes)
    /\ owed \in Seq(Bytes)
    /\ asked \in {None, "connect", "greeting", "userpass", "request"}
    /\ verdict \in {None, "more", "grant", "refuse", "bad"}
    /\ peer \in {"open", "fin", "rst"}

\* connect() leaves no socket behind, whatever the handshake ends with, and
\* an open tunnel has one: the client is a TunnelClient.
Tunnel == INSTANCE TunnelClient WITH
    phase <- IF stage \in {"start", "failed", "closed"} THEN "closed"
             ELSE IF Handshaking THEN "connecting" ELSE "open",
    held  <- sock
ImplementsTunnelClient == Tunnel!Spec

\* The handshake reads exactly the DUT's reply, not one byte of the relayed
\* stream and none less, whatever pieces they come in and however soon the
\* origin speaks: what callers got, what they are reading and what is still
\* on the wire is the origin's stream.  And an empty read_until_eof() means that
\* the peer has closed: the lifecycle tests read it as "the DUT relayed the
\* origin's FIN".
StreamIntact ==
    /\ TypeOK
    /\ stage \in {"open", "exact", "eof"} /\ peer # "rst"
       => got \o buf \o wire = relayed
    /\ answer = << <<>> >> => peer = "fin"

\* connect() returns only after the DUT has granted the tunnel, all of it; and a
\* refusal the client has read ends it with a ProxyTunnelError whose details say
\* what the DUT answered: it is never taken for a grant, for a protocol
\* violation, or for the None of a transparent success.
OutcomeIsTrue ==
    /\ stage \in {"open", "exact", "eof", "closed"} => verdict = "grant" /\ owed = <<>>
    /\ raised = "ProxyTunnelError" => details # Nothing
    /\ verdict = "refuse" /\ stage = "failed" => raised \notin {"ProtocolViolation",
                                                               "ConfigurationError"}
    /\ verdict = "refuse" => stage # "open"

\* connect() ends: a DUT that says nothing, or too little, or never ends its
\* header block, costs a timeout or the head's limit, not the run.
ConnectEnds == Handshaking ~> ~ Handshaking
=============================================================================

--------------------------- MODULE MCProxyTunnel ---------------------------
(***************************************************************************)
(* An instance of ProxyTunnel for TLC: every mode with and without a front *)
(* and credentials; replies of every length the formats know, refusals,    *)
(* and replies that are wrong in one place.                                *)
(***************************************************************************)
EXTENDS ProxyTunnel

Config(m, f, u, p, h) == [mode |-> m, front |-> f, user |-> u, password |-> p, host |-> h]

MCConfigs ==
    {Config(m, f, None, None, "fits") : m \in {"transparent", "http-connect"}, f \in BOOLEAN}
    \cup {Config("socks5", TRUE, u, p, "fits") :
             u \in {None, "empty", "fits"}, p \in {None, "fits"}}
    \cup {Config("socks5", TRUE, "fits", "fits", "overlong")}

Text == 500
Blank == HeaderTerminator
Reply(b, m) == [bytes |-> b, means |-> m]
Bound(atyp) == CASE atyp = AtypIPv4 -> <<10, 0, 0, 1>>
                 [] atyp = AtypIPv6 -> [i \in 1..16 |-> 0]
                 [] atyp = AtypDomain -> <<2, 97, 98>>
Port == <<0, 80>>

MCReplies == [
    connect |-> {Reply(<<StatusLine(200)>> \o Blank, "grant"),
                 Reply(<<StatusLine(299), CR, LF, Text, LF, CR, LF>> \o <<CR, LF>>, "grant"),
                 Reply(<<StatusLine(199)>> \o Blank, "refuse"),
                 Reply(<<StatusLine(300), CR, LF, Text>> \o Blank, "refuse"),
                 Reply(Blank, "bad"),
                 Reply(<<Text>> \o Blank, "bad"),
                 Reply(<<StatusLine(200)>> \o [i \in 1..10 |-> LF], "bad")},
    greeting |-> {Reply(<<5, m>>, "grant") : m \in {AuthNone, AuthUserPass}}
                 \cup {Reply(<<5, AuthNoAcceptable>>, "refuse"),
                       Reply(<<5, 1>>, "bad"), Reply(<<4, 0>>, "bad")},
    userpass |-> {Reply(<<1, 0>>, "grant"), Reply(<<1, 1>>, "refuse")},
    request |-> {Reply(<<5, 0, 0, a>> \o Bound(a) \o Port, "grant") :
                    a \in {AtypIPv4, AtypIPv6, AtypDomain}}
                \cup {Reply(<<5, 0, 0, AtypDomain, 0>> \o Port, "grant"),
                      Reply(<<5, 9, 0, AtypIPv4>> \o Bound(AtypIPv4) \o Port, "refuse"),
                      Reply(<<4, 0, 0, AtypIPv4>>, "bad"),
                      Reply(<<5, 0, 0, 9>>, "bad")}]
=============================================================================

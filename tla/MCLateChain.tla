---------------------------- MODULE MCLateChain -----------------------------
EXTENDS LateChain

tcp == <<"ip", "tcp">>
other == <<"ip6", "tcp">>
quic == <<"ip", "udp", "quic">>
relay == <<"ip", "udp", "quic", "p2p-circuit">>

MCNames ==
  {"ip", "ip6", "tcp", "udp", "quic", "quic-v1", "webtransport", "webrtc-direct", "p2p-circuit",
   "other", "#", "/ipfs tcp", "/ipfs quic", "/ipfs other"}

MCRespelled ==
  [n \in MCNames |->
     CASE n = "/ipfs tcp" -> "tcp" [] n = "/ipfs quic" -> "quic" [] n = "/ipfs other" -> "other"
       [] OTHER -> n]

\* In the old spelling, in both, and one of them twice.
Bootstraps ==
  {<<"/ipfs tcp", "/ipfs other">>, <<"tcp", "/ipfs quic">>, <<"other", "tcp", "/ipfs other">>}

Pairs(S) == {<<>>} \cup {<<a>> : a \in S} \cup {p \in S \X S : p[1] # p[2]}

Keys(a, b) == [one |-> a, two |-> b]
Sections == {Keys("legacy", "legacy"), Keys("legacy", "custom"), Keys("absent", "legacy")}

Plainest ==
  [swarm |-> <<tcp>>, noAnnounce |-> <<>>, filters |-> <<>>, bootstrap |-> <<"tcp", "other">>,
   connMgr |-> Keys("legacy", "legacy"), reprovider |-> Keys("legacy", "legacy"),
   routing |-> [type |-> "legacy", routers |-> "none", dht |-> "absent"],
   experimental |-> "absent", headers |-> Keys("legacy", "legacy")]

\* The lists vary, and for one list the settings do.
MCConfigs ==
  {[Plainest EXCEPT !.swarm = l, !.noAnnounce = n, !.filters = l] :
     l \in Pairs({tcp, quic, relay}) \cup {<<tcp, other>>}, n \in {<<>>, <<quic, other>>}}
  \cup {[Plainest EXCEPT !.swarm = l, !.noAnnounce = l, !.bootstrap = <<"other", "quic", "tcp">>] :
           l \in Pairs({tcp, quic}) \cup {<<tcp, Junk>>}}
  \cup {[Plainest EXCEPT !.bootstrap = b] : b \in Bootstraps}
  \cup {[Plainest EXCEPT !.connMgr = s, !.reprovider = s, !.experimental = e, !.routing.dht = d,
                         !.routing.routers = r, !.headers = s] :
           s \in Sections, e \in {"absent", "true"}, d \in {"absent", "true"}, r \in {"none", "some"}}

MCExtras == {<<"ip", "udp", "quic", "webtransport">>, <<"ip6", "udp", "quic-v1">>, Junk}

=============================================================================

---------------------------- MODULE AddressRules ----------------------------
(***************************************************************************)
(* What the migrations 9-to-10 and 12-to-13 to 15-to-16 make of a config.  *)
(*                                                                         *)
(* A multiaddr is the sequence of its protocols; addresses and ports are   *)
(* left out.  A field of addresses is a list of them, in which an entry    *)
(* that is no string is Junk; a field that is missing, null or empty is    *)
(* the empty list.  The other settings are abstracted to what the rules    *)
(* look at: a key is absent, has the value that used to be the default     *)
(* ("legacy"), or a value of the owner's.                                  *)
(***************************************************************************)
EXTENDS Integers, Sequences, SequencesExt

CONSTANTS
  Names,        \* of protocols, and of bootstrappers in each of their spellings
  Respelled     \* /ipfs before a peer becomes /p2p

\* Those that the rules write or look for; the bootstrappers among them are spelled by
\* /p2p.
ASSUME NamesAssumption ==
  {"tcp", "udp", "quic", "quic-v1", "webtransport", "webrtc-direct"} \subseteq Names
ASSUME SpellingAssumption ==
  /\ Respelled \in [Names -> Names]
  /\ \A n \in Names : Respelled[Respelled[n]] = Respelled[n]
  /\ \A n \in {"tcp", "quic", "quic-v1"} : Respelled[n] = n

Junk == <<"#">>

\* The parts of a config that the rules look at.
IsConfig(c) ==
  /\ c = [f \in {"swarm", "noAnnounce", "filters", "bootstrap", "connMgr", "reprovider",
                 "routing", "experimental", "headers"} |-> c[f]]
  /\ c.routing = [f \in {"type", "routers", "dht"} |-> c.routing[f]]

IsLists(c) ==
  /\ \A f \in {"swarm", "noAnnounce", "filters"} : c[f] \in Seq(Seq(Names))
  /\ c.bootstrap \in Seq(Names)

Ends(a, protocol) == a # <<>> /\ a[Len(a)] = protocol
Has(a, protocol) == \E i \in DOMAIN a : a[i] = protocol

\* The protocol at each position of S is replaced by the sequence new.
Subst(a, S, new) == FlattenSeq([i \in DOMAIN a |-> IF i \in S THEN new ELSE <<a[i]>>])

\* A list without the strings that have occurred before.
Uniq(list) ==
  LET Before(k) == list[k] # Junk /\ \E j \in 1 .. (k - 1) : list[j] = list[k]
  IN FlattenSeq([k \in DOMAIN list |-> IF Before(k) THEN <<>> ELSE <<list[k]>>])

MapSeq(F(_), list) == FlattenSeq([k \in DOMAIN list |-> F(list[k])])

-----------------------------------------------------------------------------
(* 9-to-10                                                                 *)

\* Each address that ends in /tcp/<port> gets a companion for QUIC, at the
\* end of the list.
AddQuic(list) ==
  LET Companion(a) == IF Ends(a, "tcp") THEN <<Subst(a, {Len(a)}, <<"udp", "quic">>)>> ELSE <<>>
  IN list \o MapSeq(Companion, list)

\* One address that ends in /quic, in any of the lists, and all are left alone.
Ver9to10Addresses(c) ==
  LET all == c.swarm \o c.noAnnounce
  IN IF \E k \in DOMAIN all : Ends(all[k], "quic") THEN c
     ELSE [c EXCEPT !.swarm = AddQuic(@), !.noAnnounce = AddQuic(@)]

P2p(list) == [k \in DOMAIN list |-> Respelled[list[k]]]

\* The entries are the one default bootstrapper over TCP ("tcp"), over QUIC
\* and over QUIC v1, and others.
AddBootstrapper(list) ==
  IF Contains(list, "tcp") /\ ~Contains(list, "quic") THEN Append(list, "quic") ELSE list

\* Mistake: the entries are looked at before they are spelled by /p2p.
Ver9to10BootstrapEarly(list) ==
  IF Contains(list, "tcp") /\ ~Contains(list, "quic") THEN Append(P2p(list), "quic") ELSE P2p(list)

\* Every entry is spelled by /p2p, and then compared.
Ver9to10Bootstrap(list) == AddBootstrapper(P2p(list))

\* toStringArray panics on an entry that is no string.
Converts9(c) == ~Contains(c.swarm, Junk) /\ ~Contains(c.noAnnounce, Junk)
Convert9(c) == Ver9to10Addresses([c EXCEPT !.bootstrap = Ver9to10Bootstrap(@)])

-----------------------------------------------------------------------------
(* 12-to-13                                                                *)

\* The positions at which the scan from the end of a, which ends at the
\* first protocol of notBefore, finds a protocol.
Scan(a, protocol, notBefore) ==
  {i \in DOMAIN a : a[i] = protocol /\ \A j \in (i + 1) .. Len(a) : a[j] \notin notBefore}

\* multiaddrPatternReplace with add: each entry, followed by what becomes of
\* it.
PatternAdd(list, protocol, new, notBefore) ==
  LET Both(a) == <<a, Subst(a, Scan(a, protocol, notBefore), new)>> IN Uniq(MapSeq(Both, list))

\* Without add it drops what is not a string.
ReplaceWebtransport(list) ==
  LET At(a) == {i \in DOMAIN a : a[i] = "quic" /\ i < Len(a) /\ a[i + 1] = "webtransport"}
      New(a) == IF a = Junk THEN <<>> ELSE <<Subst(a, At(a), <<"quic-v1">>)>>
  IN Uniq(MapSeq(New, list))

\* Mistake: the second pass comes after the third.
ConvertQuicAddrsSwapped(list) ==
  PatternAdd(PatternAdd(ReplaceWebtransport(list), "quic-v1", <<"quic-v1", "webtransport">>,
                        {"p2p-circuit", "webtransport"}),
             "quic", <<"quic-v1">>, {"p2p-circuit"})

ConvertQuicAddrs(list) ==
  LET first == ReplaceWebtransport(list)
      second == PatternAdd(first, "quic", <<"quic-v1">>, {"p2p-circuit"})
  IN PatternAdd(second, "quic-v1", <<"quic-v1", "webtransport">>, {"p2p-circuit", "webtransport"})

\* Mistake: each key that has its old default is removed.
ImplicitEach(keys) == [k \in DOMAIN keys |-> IF keys[k] = "legacy" THEN "absent" ELSE keys[k]]

\* convertReprovider and convertConnMgr: the keys of a section are removed
\* if all of them have the old defaults.
Implicit(keys) ==
  IF \A k \in DOMAIN keys : keys[k] = "legacy" THEN [k \in DOMAIN keys |-> "absent"] ELSE keys

\* convertRouting: Type is removed, unless there are custom Routers or Methods.
ConvertRouting(r) ==
  IF r.type = "legacy" /\ r.routers = "none" THEN [r EXCEPT !.type = "absent"] ELSE r

\* Mistake: what is not to be announced is forgotten.
Convert12SwarmOnly(c) ==
  [c EXCEPT !.swarm = ConvertQuicAddrs(@), !.filters = ConvertQuicAddrs(@),
            !.connMgr = Implicit(@), !.reprovider = Implicit(@), !.routing = ConvertRouting(@)]

Convert12(c) ==
  [c EXCEPT !.swarm = ConvertQuicAddrs(@), !.noAnnounce = ConvertQuicAddrs(@),
            !.filters = ConvertQuicAddrs(@), !.connMgr = Implicit(@),
            !.reprovider = Implicit(@), !.routing = ConvertRouting(@)]

-----------------------------------------------------------------------------
(* 13-to-14                                                                *)

\* AcceleratedDHTClient moves from Experimental to Routing, unless it is
\* there.
Convert13(c) ==
  [c EXCEPT !.experimental = "absent",
            !.routing.dht = IF @ # "absent" THEN @
                            ELSE IF c.experimental = "absent" THEN "false" ELSE c.experimental]

-----------------------------------------------------------------------------
(* 14-to-15 and 15-to-16                                                   *)

QuicV1(a) == Subst(a, {i \in DOMAIN a : a[i] = "quic"}, <<"quic-v1">>)

\* Mistake: an address without /quic is passed over.
ReplaceQuicOnly(list) ==
  LET New(a) == IF Has(a, "quic") THEN <<QuicV1(a)>> ELSE <<>> IN Uniq(MapSeq(New, list))

\* Mistake: only an address that ends in /quic is rewritten.
ReplaceQuicEnd(list) ==
  LET New(a) == IF Ends(a, "quic") THEN <<QuicV1(a)>> ELSE <<a>> IN Uniq(MapSeq(New, list))

\* Mistake: what has become the same is not merged.
ReplaceQuicDoubling(list) == [k \in DOMAIN list |-> QuicV1(list[k])]

ReplaceQuic(list) ==
  LET New(a) == <<QuicV1(a)>> IN Uniq(MapSeq(New, list))

\* The bootstrapper's entry is replaced, whatever else is in the list.
ReplaceBootstrap(list) == [k \in DOMAIN list |-> IF list[k] = "quic" THEN "quic-v1" ELSE list[k]]

Convert14(c) ==
  [c EXCEPT !.swarm = ReplaceQuic(@), !.noAnnounce = ReplaceQuic(@),
            !.bootstrap = ReplaceBootstrap(@),
            !.headers = [h \in DOMAIN @ |-> IF @[h] = "legacy" THEN "absent" ELSE @[h]]]

\* Before each address that ends in /quic-v1 comes one for WebRTC.
AddWebrtc(list) ==
  LET Both(a) == IF Ends(a, "quic-v1") THEN <<Subst(a, {Len(a)}, <<"webrtc-direct">>), a>> ELSE <<a>>
  IN Uniq(MapSeq(Both, list))

Convert15(c) == [c EXCEPT !.swarm = AddWebrtc(@), !.noAnnounce = AddWebrtc(@)]

-----------------------------------------------------------------------------

Convert(n, c) ==
  CASE n = 9 -> Convert9(c) [] n = 12 -> Convert12(c) [] n = 13 -> Convert13(c)
    [] n = 14 -> Convert14(c) [] n = 15 -> Convert15(c)

=============================================================================

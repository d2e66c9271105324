------------------------------ MODULE LateChain ------------------------------
(***************************************************************************)
(* The migrations 9-to-10 to 15-to-16, up and down, on one repository: its *)
(* config (AddressRules), its backups and its pins (PinConversion).  All   *)
(* of them take repo.lock, so that they run one after the other, in any    *)
(* order the version allows.  A run of a config migration is one step, as  *)
(* in VersionedConfig, or a step of what a kill leaves of it; 11-to-12     *)
(* only moves the version here (CidSwapper has its blocks).                *)
(***************************************************************************)
EXTENDS AddressRules, PinConversion

CONSTANTS
  Configs,      \* what the owner of version 9 may have configured
  Extras,       \* what an edit may add to the listeners
  NoFile,       \* there is no such backup
  MaxEdits      \* bound on the owner's edits

ASSUME EditAssumption == MaxEdits \in Nat
ASSUME ConfigsAssumption == \A c \in Configs : IsConfig(c) /\ IsLists(c)
ASSUME ExtrasAssumption == Extras \subseteq Seq(Names)

VARIABLES
  cfg,
  backup,       \* config.<n>-to-<n+1>.bak
  \* observation only
  first,        \* the config the owner wrote
  lost,         \* the migrations that raised the version and left no converted config
  edits

configVars == <<cfg, backup, first, lost, edits>>
vars == <<version, faults, pinVars, configVars>>

BackedUp == 12 .. 15

Init ==
  /\ version = 9 /\ faults = 0
  /\ PinInit
  /\ cfg \in Configs
  /\ backup = [n \in BackedUp |-> NoFile]
  /\ first = cfg /\ lost = {} /\ edits = 0

-----------------------------------------------------------------------------
(* Mistakes the properties must catch                                      *)

\* The backup is taken of what has been converted.
ApplyBackupLate(n) ==
  /\ pc = "idle" /\ version = n
  /\ cfg' = Convert(n, cfg)
  /\ backup' = [backup EXCEPT ![n] = Convert(n, cfg)]
  /\ version' = n + 1
  /\ lost' = lost \ {n}
  /\ UNCHANGED <<pinVars, faults, first, edits>>

\* Revert of 9-to-10 without the lock.
Revert9Unlocked ==
  /\ version = 10
  /\ version' = 9
  /\ UNCHANGED <<pinVars, faults, configVars>>

-----------------------------------------------------------------------------
(* 9-to-10 has no backup, and its Revert leaves the config as it is        *)

\* A config that cannot be converted ends the program before the version.
Apply9 ==
  /\ pc = "idle" /\ version = 9 /\ Converts9(cfg)
  /\ cfg' = Convert9(cfg)
  /\ version' = 10
  /\ lost' = lost \ {9}
  /\ UNCHANGED <<pinVars, faults, backup, first, edits>>

\* The error of out.Close, which renames the file into place, is dropped.
Apply9Unsaved ==
  /\ pc = "idle" /\ version = 9 /\ Converts9(cfg)
  /\ Fault
  /\ version' = 10
  /\ lost' = lost \cup {9}
  /\ UNCHANGED <<pinVars, cfg, backup, first, edits>>

\* Killed between the rename of the config and the version.
Apply9Killed ==
  /\ pc = "idle" /\ version = 9 /\ Converts9(cfg)
  /\ Fault
  /\ cfg' = Convert9(cfg)
  /\ UNCHANGED <<version, pinVars, backup, first, lost, edits>>

Revert9 ==
  /\ pc = "idle" /\ version = 10
  /\ version' = 9
  /\ UNCHANGED <<pinVars, faults, configVars>>

-----------------------------------------------------------------------------
(* 11-to-12                                                                *)

SwapCids ==
  /\ pc = "idle" /\ version \in {11, 12}
  /\ version' = 23 - version
  /\ UNCHANGED <<pinVars, faults, configVars>>

-----------------------------------------------------------------------------
(* 12-to-13 to 15-to-16                                                    *)

Apply(n) ==
  /\ pc = "idle" /\ version = n
  /\ cfg' = Convert(n, cfg)
  /\ backup' = [backup EXCEPT ![n] = cfg]
  /\ version' = n + 1
  /\ lost' = lost \ {n}
  /\ UNCHANGED <<pinVars, faults, first, edits>>

\* Killed after WriteVersion and before out.Close, or between that and
\* backup.Close.
ApplyKilled(n) ==
  /\ pc = "idle" /\ version = n
  /\ Fault
  /\ version' = n + 1
  /\ \/ UNCHANGED cfg /\ lost' = lost \cup {n}
     \/ cfg' = Convert(n, cfg) /\ lost' = lost \ {n}
  /\ UNCHANGED <<pinVars, backup, first, edits>>

\* Without a backup it is an error.
Revert(n) ==
  /\ pc = "idle" /\ version = n + 1
  /\ backup[n] # NoFile
  /\ cfg' = backup[n]
  /\ backup' = [backup EXCEPT ![n] = NoFile]
  /\ version' = n
  /\ UNCHANGED <<pinVars, faults, first, lost, edits>>

\* Killed between the rename and WriteVersion.
RevertKilled(n) ==
  /\ pc = "idle" /\ version = n + 1
  /\ backup[n] # NoFile
  /\ Fault
  /\ cfg' = backup[n]
  /\ backup' = [backup EXCEPT ![n] = NoFile]
  /\ lost' = lost \cup {n}
  /\ UNCHANGED <<version, pinVars, first, edits>>

\* The owner of version 12 adds a listener, or denies all that is listened
\* to.
Edit ==
  /\ pc = "idle" /\ version = 12 /\ edits < MaxEdits
  /\ edits' = edits + 1
  /\ \/ \E a \in Extras : ~Contains(cfg.swarm, a) /\ cfg' = [cfg EXCEPT !.swarm = Append(@, a)]
     \/ cfg' = [cfg EXCEPT !.noAnnounce = cfg.swarm]
  /\ UNCHANGED <<version, pinVars, faults, backup, first, lost>>

Next ==
  \/ PinStep /\ UNCHANGED configVars
  \/ Apply9 \/ Apply9Unsaved \/ Apply9Killed \/ Revert9 \/ SwapCids \/ Edit
  \/ \E n \in BackedUp : Apply(n) \/ ApplyKilled(n) \/ Revert(n) \/ RevertKilled(n)

Spec == Init /\ [][Next]_vars

-----------------------------------------------------------------------------
(* Properties                                                              *)

TypeOK ==
  /\ version \in 9 .. 16 /\ faults \in 0 .. MaxFaults /\ edits \in 0 .. MaxEdits
  /\ pc \in {"idle", "convert", "raise", "unpin", "lower"}
  /\ ds \subseteq Pins /\ Root \subseteq Pins /\ rest \subseteq Pins /\ mem \subseteq Pins
  /\ \A n \in BackedUp : version <= n => backup[n] = NoFile

Denied == \A k \in DOMAIN cfg.swarm : Contains(cfg.noAnnounce, cfg.swarm[k])

\* The rules give the listeners and what is denied the same counterparts: an
\* owner who announces none of the listeners does not announce, after an
\* upgrade, one that a migration has added.
DeniedStaysDenied == [][version' > version /\ Denied => Denied']_vars

\* a is in the list before the first b, if there is one.
Ahead(list, a, b) == \E i \in DOMAIN list : list[i] = a /\ \A j \in 1 .. i : list[j] # b

\* No rule looks for a protocol of it, or writes one.
Untouched(a) ==
  a # Junk /\ \A p \in {"quic", "quic-v1", "webtransport", "webrtc-direct"} : ~Has(a, p)

\* The owner's addresses without /quic are in the config at every version,
\* and those that no rule is about are in their order, whatever was reverted
\* or killed.
KeepsAddresses ==
  \A f \in {"swarm", "filters"} : \A k \in DOMAIN first[f] :
    LET a == first[f][k]
    IN /\ a # Junk /\ ~Has(a, "quic") => Contains(cfg[f], a)
       /\ \A j \in DOMAIN first[f] :
            LET b == first[f][j]
            IN Untouched(a) /\ Untouched(b) /\ Ahead(first[f], a, b) => Ahead(cfg[f], a, b)

\* It has one protocol of QUIC, at its end.
Bare(a) ==
  /\ Ends(a, "quic") \/ Ends(a, "quic-v1")
  /\ \A i \in 1 .. (Len(a) - 1) : a[i] \notin {"quic", "quic-v1"}

\* None of the addresses 9-to-10 looks at ends in /quic.
QuicFree(c) ==
  \A f \in {"swarm", "noAnnounce"} : \A k \in DOMAIN c[f] : ~Ends(c[f][k], "quic")

\* None of e edits can have kept 9-to-10 from adding anything.
NoQuicEdit(e) == e = 0 \/ \A a \in Extras : ~Ends(a, "quic")

\* A conversion that has reached the file has done its work: from version 10
\* on the bootstrappers are spelled by /p2p; from version 13 on there is a
\* listener for WebTransport beside each for QUIC; from version 15 on no /quic
\* is left, each address that had it has a successor, and of an owner who had
\* no listener for QUIC each for TCP has a companion; and at version 16 there
\* is one for WebRTC beside each for QUIC.
NewListeners ==
  /\ (version >= 10 /\ 9 \notin lost) => P2p(cfg.bootstrap) = cfg.bootstrap
  /\ (version >= 13 /\ 12 \notin lost) =>
       \A k \in DOMAIN cfg.swarm :
         LET a == cfg.swarm[k]
         IN Bare(a) => Contains(cfg.swarm, Front(a) \o <<"quic-v1", "webtransport">>)
  /\ (version >= 15 /\ 14 \notin lost) =>
    /\ \A f \in {"swarm", "noAnnounce"} : \A k \in DOMAIN cfg[f] : ~Has(cfg[f][k], "quic")
    /\ \A k \in DOMAIN first.swarm :
         first.swarm[k] # Junk => Contains(cfg.swarm, QuicV1(first.swarm[k]))
    /\ \A k \in DOMAIN first.swarm :
         Ends(first.swarm[k], "tcp") /\ 9 \notin lost /\ QuicFree(first) /\ NoQuicEdit(edits) =>
           Contains(cfg.swarm, QuicV1(Front(first.swarm[k]) \o <<"udp", "quic">>))
  /\ (version = 16 /\ 15 \notin lost) =>
       \A k \in DOMAIN cfg.swarm :
         LET a == cfg.swarm[k]
         IN Ends(a, "quic-v1") => Contains(cfg.swarm, Front(a) \o <<"webrtc-direct">>)

\* What is no address may come again.
Once(list) == \A j, k \in DOMAIN list : list[j] = list[k] => j = k \/ list[j] = Junk

\* No bootstrapper is entered twice, be it in two spellings.
OnceEach(list) == IsInjective(P2p(list))

\* An owner who has entered no address and no bootstrapper twice, be it in
\* two spellings, finds none entered twice by an upgrade, or by an upgrade
\* after a downgrade.  The bootstrapper over QUIC v1 is of version 15.
NoDuplicates ==
  /\ (\A f \in {"swarm", "noAnnounce", "filters"} : Once(first[f])) =>
       \A f \in {"swarm", "noAnnounce", "filters"} : Once(cfg[f])
  /\ OnceEach(first.bootstrap) /\ ~Contains(P2p(first.bootstrap), "quic-v1") =>
       OnceEach(cfg.bootstrap)

\* Where the daemon of a version looks for the accelerated client.
Accelerated(c, v) ==
  LET key == IF v <= 13 THEN c.experimental ELSE c.routing.dht
  IN IF key = "absent" THEN "false" ELSE key

\* What the owner has set is what the daemon of each version reads, and a
\* section in which the owner has changed one old default keeps the others.
SettingsKept ==
  /\ (13 \notin lost /\ first.routing.dht = "absent") =>
       Accelerated(cfg, version) = Accelerated(first, 9)
  /\ \A s \in {"connMgr", "reprovider"} :
       IF \A k \in DOMAIN first[s] : first[s][k] = "legacy"
       THEN (version >= 13 /\ 12 \notin lost) => \A k \in DOMAIN cfg[s] : cfg[s][k] = "absent"
       ELSE cfg[s] = first[s]
  /\ \A h \in DOMAIN first.headers : first.headers[h] = "custom" => cfg.headers[h] = "custom"

Upgraded(v) ==
  LET c10 == Convert(9, first)
      c13 == Convert(12, c10)
      c14 == Convert(13, c13)
      c15 == Convert(14, c14)
  IN CASE v = 9 -> first [] v \in 10 .. 12 -> c10 [] v = 13 -> c13 [] v = 14 -> c14
       [] v = 15 -> c15 [] v = 16 -> Convert(15, c15)

\* Without an edit, and when every conversion has reached the file, the
\* config depends on the version alone and not on the ups and downs that led
\* to it; only version 9 keeps the config of version 10.
PathIndependent ==
  (lost = {} /\ edits = 0 /\ Converts9(first)) =>
    \/ cfg = Upgraded(version)
    \/ version = 9 /\ cfg = Upgraded(10)

\* For the pins, the whole chain is what PinSpec, about which
\* LateChainProofs is, takes it to be: the other migrations and their
\* faults leave a conversion of the pins, under the lock, alone.
ChainImplementsPinSpec == PinSpec

-----------------------------------------------------------------------------
(* The inductive invariants behind SettingsKept, PathIndependent and what  *)
(* is said about the lists of addresses                                    *)

\* A migration that left no converted config and no backup: the version never
\* goes below it again.
LostForGood ==
  /\ lost \subseteq {9} \cup BackedUp
  /\ \A n \in BackedUp : n \in lost => version > n /\ backup[n] = NoFile
  /\ \A n \in BackedUp : version <= n => backup[n] = NoFile

\* What a config of version v has of the first one's settings.
KeptIn(c, v) ==
  /\ (13 \notin lost /\ first.routing.dht = "absent") =>
       IF v <= 13 THEN c.experimental = first.experimental /\ c.routing.dht = "absent"
       ELSE c.routing.dht = Accelerated(first, 9)
  /\ \A s \in {"connMgr", "reprovider"} :
       IF (v >= 13 /\ \A k \in DOMAIN first[s] : first[s][k] = "legacy")
       THEN 12 \notin lost => c[s] = [k \in DOMAIN first[s] |-> "absent"]
       ELSE c[s] = first[s]
  /\ DOMAIN c.headers = DOMAIN first.headers
  /\ \A h \in DOMAIN first.headers : first.headers[h] = "custom" => c.headers[h] = "custom"

SettingsInv ==
  /\ first \in Configs /\ IsConfig(cfg) /\ KeptIn(cfg, version)
  /\ \A n \in BackedUp : backup[n] # NoFile => IsConfig(backup[n]) /\ KeptIn(backup[n], n)

\* What a config c of version v has of the lists of f, the first one, when
\* the migrations of l have left no converted config, and after e edits.
OnceIn(f, c, v) ==
  /\ (\A g \in {"swarm", "noAnnounce", "filters"} : Once(f[g])) =>
       \A g \in {"swarm", "noAnnounce", "filters"} : Once(c[g])
  /\ OnceEach(f.bootstrap) /\ ~Contains(P2p(f.bootstrap), "quic-v1") =>
       OnceEach(c.bootstrap) /\ (v <= 14 => ~Contains(P2p(c.bootstrap), "quic-v1"))

KeepsIn(f, c) ==
  \A g \in {"swarm", "filters"} : \A k \in DOMAIN f[g] :
    LET a == f[g][k]
    IN /\ a # Junk /\ ~Has(a, "quic") => Contains(c[g], a)
       /\ \A j \in DOMAIN f[g] :
            LET b == f[g][j]
            IN Untouched(a) /\ Untouched(b) /\ Ahead(f[g], a, b) => Ahead(c[g], a, b)

\* The list has an address that 14-to-15 takes to what it takes a to.
HasLike(list, a) == \E k \in DOMAIN list : QuicV1(list[k]) = QuicV1(a)

Companions(f, c) ==
  \A k \in DOMAIN f.swarm :
    Ends(f.swarm[k], "tcp") => HasLike(c.swarm, Front(f.swarm[k]) \o <<"udp", "quic">>)

CompanionsIn(f, l, c, v) ==
  QuicFree(f) =>
    /\ v <= 12 => Companions(f, c) \/ QuicFree(c)
    /\ v >= 10 /\ 9 \notin l => Companions(f, c)

SuccessorsIn(f, c, v) ==
  /\ v <= 12 => \A k \in DOMAIN f.swarm : Contains(c.swarm, f.swarm[k])
  /\ \A k \in DOMAIN f.swarm : f.swarm[k] # Junk => HasLike(c.swarm, f.swarm[k])

NewIn(l, c, v) ==
  /\ v >= 10 /\ 9 \notin l => P2p(c.bootstrap) = c.bootstrap
  /\ v >= 13 /\ 12 \notin l =>
       \A k \in DOMAIN c.swarm :
         Bare(c.swarm[k]) => Contains(c.swarm, Front(c.swarm[k]) \o <<"quic-v1", "webtransport">>)
  /\ v >= 15 /\ 14 \notin l =>
       \A g \in {"swarm", "noAnnounce"} : \A k \in DOMAIN c[g] : ~Has(c[g][k], "quic")
  /\ v = 16 /\ 15 \notin l =>
       \A k \in DOMAIN c.swarm :
         Ends(c.swarm[k], "quic-v1") => Contains(c.swarm, Front(c.swarm[k]) \o <<"webrtc-direct">>)

ListsIn(f, l, e, c, v) ==
  /\ IsLists(c)
  /\ OnceIn(f, c, v) /\ KeepsIn(f, c) /\ SuccessorsIn(f, c, v) /\ NewIn(l, c, v)
  /\ NoQuicEdit(e) => CompanionsIn(f, l, c, v)

ListsInv ==
  /\ ListsIn(first, lost, edits, cfg, version)
  /\ \A n \in BackedUp : backup[n] # NoFile => ListsIn(first, lost, edits, backup[n], n)

\* Up to version 12 the config is one of two; above, if every conversion has
\* reached the file, it and the backups are what the version says.
PathInv ==
  edits = 0 /\ Converts9(first) =>
    /\ version <= 12 => cfg \in {first, Upgraded(10)}
    /\ version \in 10 .. 12 /\ 9 \notin lost => cfg = Upgraded(10)
    /\ backup[12] # NoFile => backup[12] \in {first, Upgraded(10)}
    /\ lost = {} =>
         /\ version >= 10 => cfg = Upgraded(version)
         /\ \A n \in BackedUp : backup[n] # NoFile => backup[n] = Upgraded(n)

=============================================================================

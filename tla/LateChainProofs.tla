-------------------------- MODULE LateChainProofs --------------------------
(***************************************************************************)
(* Proofs about the migrations 9-to-10 to 15-to-16, for any pins, configs, *)
(* kills and failing operations.  10-to-11 keeps the owner's pins: first   *)
(* for PinSpec, in which the other migrations run in between, and then for *)
(* the chain, which implements it.  The configs keep the owner's settings, *)
(* and depend on the version alone.  What the rules do to lists of         *)
(* addresses, which they build with folds, is proved of lists of any       *)
(* length, and with it what the chain keeps of them and adds to them.      *)
(***************************************************************************)
EXTENDS LateChain, WellFoundedInduction, TLAPS

-----------------------------------------------------------------------------
(* The pins                                                                *)

PinTypes ==
  /\ version \in 9 .. 16
  /\ pc \in {"idle", "convert", "raise", "unpin", "lower"}
  /\ ipld \in {NoRoot} \cup SUBSET Pins
  /\ ds \in SUBSET Pins /\ rest \in SUBSET Pins /\ mem \in SUBSET Pins /\ wanted \in SUBSET Pins
  /\ dropped \in {"yes", "no"}

\* At which version each step is, and what Revert has in memory.
Control ==
  /\ pc \in {"convert", "raise"} => version = 10
  /\ pc \in {"unpin", "lower"} => version = 11
  /\ pc = "idle" => mem = {}

\* Where the pins are while they are moved: Apply has yet to come to what is
\* not stored, and Revert has in memory what is not stored.
Underway ==
  dropped = "no" =>
    /\ pc = "convert" => Root \subseteq ds \cup rest
    /\ pc = "raise" => wanted \subseteq ds
    /\ pc = "unpin" => ds = rest
    /\ pc = "lower" => wanted \subseteq Root

PinInv == PinTypes /\ Control /\ Underway /\ PinsKept

\* The invariant holds at first, at whatever version.
LEMMA PinsInit == version \in 9 .. 16 /\ faults = 0 /\ PinInit => PinInv
  BY RootAssumption DEF PinInit, PinInv, PinTypes, Control, Underway, PinsKept, Root

\* Every step of the migration, of a daemon and of the other migrations
\* preserves it.
LEMMA PinsStep == PinInv /\ [PinStep \/ OthersRun]_<<version, faults, pinVars>> => PinInv'
<1> SUFFICES ASSUME PinInv, [PinStep \/ OthersRun]_<<version, faults, pinVars>>
             PROVE  PinInv'
  OBVIOUS
<1> USE RootAssumption DEF PinInv, PinTypes, Control, Underway, PinsKept, Root
<1>1. CASE StartApply
  BY <1>1 DEF StartApply
<1>2. ASSUME NEW x \in Pins, StorePin(x)
      PROVE  PinInv'
  BY <1>2 DEF StorePin
<1>3. ASSUME NEW x \in Pins, StorePinFails(x)
      PROVE  PinInv'
  BY <1>3 DEF StorePinFails
<1>4. CASE Unlink
  BY <1>4 DEF Unlink
<1>5. CASE StartRevert
  BY <1>5 DEF StartRevert
<1>6. ASSUME NEW x \in Pins, MovePin(x)
      PROVE  PinInv'
  BY <1>6 DEF MovePin
<1>7. CASE FlushIpld
  BY <1>7 DEF FlushIpld
<1>8. CASE WriteRepoVersion
  BY <1>8 DEF WriteRepoVersion
<1>9. CASE Interrupt
  BY <1>9 DEF Interrupt
<1>10. ASSUME NEW x \in Pins, DaemonPin(x)
       PROVE  PinInv'
  BY <1>10 DEF DaemonPin
<1>11. ASSUME NEW x \in Pins, DaemonUnpin(x)
       PROVE  PinInv'
  BY <1>11 DEF DaemonUnpin
<1>12. CASE OthersRun
  BY <1>12 DEF OthersRun, pinVars
<1>13. CASE UNCHANGED <<version, faults, pinVars>>
  BY <1>13 DEF pinVars
<1> QED
  BY <1>1, <1>2, <1>3, <1>4, <1>5, <1>6, <1>7, <1>8, <1>9, <1>10, <1>11, <1>12, <1>13 DEF PinStep

\* Unless a Revert ends early or an error of a pin is not seen, 10-to-11
\* loses no pin of the owner's, whatever is killed, repeated and reverted.
THEOREM NoPinIsLost == PinSpec => []PinsKept
<1>1. PinInv => PinsKept
  BY DEF PinInv
<1> QED
  BY <1>1, PinsInit, PinsStep, PTL DEF PinSpec

-----------------------------------------------------------------------------
(* The chain implements PinSpec                                            *)

FaultType == faults \in 0 .. MaxFaults /\ version \in 9 .. 16

\* The steps of 10-to-11 and of its daemon are those of PinSpec.
LEMMA FaultTypeOfPins == FaultType /\ PinStep => FaultType'
BY FaultAssumption DEF FaultType, PinStep, StartApply, StorePin, StorePinFails, Unlink, StartRevert, MovePin,
       FlushIpld, WriteRepoVersion, Interrupt, DaemonPin, DaemonUnpin, Fault

\* All others keep to their side of 10-to-11, and leave the pins alone.
LEMMA ChainStep ==
  FaultType /\ [Next]_vars => FaultType' /\ [PinStep \/ OthersRun]_<<version, faults, pinVars>>
<1> SUFFICES ASSUME FaultType, [Next]_vars
             PROVE  FaultType' /\ [PinStep \/ OthersRun]_<<version, faults, pinVars>>
  OBVIOUS
<1>1. CASE PinStep
  BY <1>1, FaultTypeOfPins
<1> USE FaultAssumption DEF FaultType, OthersRun
<1>2. CASE Apply9 \/ Apply9Unsaved \/ Apply9Killed \/ Revert9
  BY <1>2 DEF Apply9, Apply9Unsaved, Apply9Killed, Revert9, Fault
<1>3. CASE SwapCids
  BY <1>3 DEF SwapCids
<1>4. CASE Edit
  BY <1>4 DEF Edit
<1>5. ASSUME NEW n \in BackedUp, Apply(n) \/ ApplyKilled(n) PROVE FaultType' /\ OthersRun
  BY <1>5 DEF Apply, ApplyKilled, Fault, BackedUp
<1>6. ASSUME NEW n \in BackedUp, Revert(n) \/ RevertKilled(n) PROVE FaultType' /\ OthersRun
  BY <1>6 DEF Revert, RevertKilled, Fault, BackedUp
<1>7. CASE UNCHANGED vars
  BY <1>7 DEF vars
<1> QED BY <1>1, <1>2, <1>3, <1>4, <1>5, <1>6, <1>7 DEF Next

\* For the pins, the migrations 9-to-10 to 15-to-16 are what PinSpec takes
\* them to be: none of their steps, killed or failing, touches a conversion of
\* the pins that is under way, or changes the side of 10 and 11.
THEOREM ImplementsPinSpec == Spec => ChainImplementsPinSpec
<1>1. Init => FaultType /\ version \in 9 .. 16 /\ faults = 0 /\ PinInit
  BY FaultAssumption DEF Init, FaultType
<1> QED BY <1>1, ChainStep, PTL DEF Spec, ChainImplementsPinSpec, PinSpec

\* The whole chain loses no pin of the owner's, with the same exceptions.
THEOREM ChainKeepsPins == Spec => []PinsKept
BY ImplementsPinSpec, NoPinIsLost, PTL DEF ChainImplementsPinSpec

-----------------------------------------------------------------------------
(* What the conversions do to the settings                                 *)

\* 9-to-10 and 15-to-16 are about addresses only.
SameSettings(c, d) ==
  /\ d.connMgr = c.connMgr /\ d.reprovider = c.reprovider
  /\ d.routing = c.routing /\ d.experimental = c.experimental /\ d.headers = c.headers

\* So it is for 9-to-10 ...
LEMMA Converted9 ==
  ASSUME NEW c, IsConfig(c) PROVE IsConfig(Convert9(c)) /\ SameSettings(c, Convert9(c))
BY DEF IsConfig, Convert9, Ver9to10Addresses, SameSettings

\* ... and 15-to-16.
LEMMA Converted15 ==
  ASSUME NEW c, IsConfig(c) PROVE IsConfig(Convert15(c)) /\ SameSettings(c, Convert15(c))
BY DEF IsConfig, Convert15, SameSettings

\* 12-to-13 removes what has the old defaults ...
LEMMA Converted12 ==
  ASSUME NEW c, IsConfig(c)
  PROVE  /\ IsConfig(Convert12(c))
         /\ Convert12(c).connMgr = Implicit(c.connMgr)
         /\ Convert12(c).reprovider = Implicit(c.reprovider)
         /\ Convert12(c).routing.dht = c.routing.dht
         /\ Convert12(c).experimental = c.experimental
         /\ Convert12(c).headers = c.headers
<1>1. IsConfig(Convert12(c))
  BY DEF IsConfig, Convert12, ConvertRouting
<1>2. /\ Convert12(c).connMgr = Implicit(c.connMgr)
      /\ Convert12(c).reprovider = Implicit(c.reprovider)
      /\ Convert12(c).routing = ConvertRouting(c.routing)
      /\ Convert12(c).experimental = c.experimental
      /\ Convert12(c).headers = c.headers
  BY DEF IsConfig, Convert12
<1>3. ConvertRouting(c.routing).dht = c.routing.dht
  BY DEF IsConfig, ConvertRouting
<1> QED BY <1>1, <1>2, <1>3

\* ... 13-to-14 moves one setting ...
LEMMA Converted13 ==
  ASSUME NEW c, IsConfig(c)
  PROVE  /\ IsConfig(Convert13(c))
         /\ Convert13(c).connMgr = c.connMgr
         /\ Convert13(c).reprovider = c.reprovider
         /\ Convert13(c).routing.dht =
              IF c.routing.dht # "absent" THEN c.routing.dht
              ELSE IF c.experimental = "absent" THEN "false" ELSE c.experimental
         /\ Convert13(c).headers = c.headers
BY DEF IsConfig, Convert13

\* ... and 14-to-15 removes headers that have the old defaults.
LEMMA Converted14 ==
  ASSUME NEW c, IsConfig(c)
  PROVE  /\ IsConfig(Convert14(c))
         /\ Convert14(c).connMgr = c.connMgr
         /\ Convert14(c).reprovider = c.reprovider
         /\ Convert14(c).routing = c.routing
         /\ Convert14(c).experimental = c.experimental
         /\ Convert14(c).headers =
              [h \in DOMAIN c.headers |-> IF c.headers[h] = "legacy" THEN "absent" ELSE c.headers[h]]
BY DEF IsConfig, Convert14

\* Each of them takes a config that has what the owner set, as of its version,
\* to one that has it as of the next.
LEMMA ConvertKeeps ==
  ASSUME NEW c, NEW n \in BackedUp, IsConfig(c), KeptIn(c, n)
  PROVE  IsConfig(Convert(n, c)) /\ KeptIn(Convert(n, c), n + 1)
<1>1. CASE n = 12
  <2>1. Convert(n, c) = Convert12(c)
    BY <1>1 DEF Convert
  <2>2. \A s \in {"connMgr", "reprovider"} : Convert12(c)[s] = Implicit(first[s])
    BY <1>1, Converted12 DEF KeptIn
  <2>3. \A s \in {"connMgr", "reprovider"} :
          IF (\A k \in DOMAIN first[s] : first[s][k] = "legacy")
          THEN Convert12(c)[s] = [k \in DOMAIN first[s] |-> "absent"]
          ELSE Convert12(c)[s] = first[s]
    BY <2>2 DEF Implicit
  <2> QED BY <1>1, <2>1, <2>3, Converted12 DEF KeptIn
<1>2. CASE n = 13
  <2>1. Convert(n, c) = Convert13(c)
    BY <1>2 DEF Convert
  <2> QED BY <1>2, <2>1, Converted13 DEF KeptIn, Accelerated
<1>3. CASE n = 14
  <2>1. Convert(n, c) = Convert14(c)
    BY <1>3 DEF Convert
  <2>2. /\ IsConfig(Convert14(c))
        /\ Convert14(c).connMgr = c.connMgr /\ Convert14(c).reprovider = c.reprovider
        /\ Convert14(c).routing = c.routing
    BY Converted14
  <2>3. Convert14(c).headers =
          [h \in DOMAIN c.headers |-> IF c.headers[h] = "legacy" THEN "absent" ELSE c.headers[h]]
    BY Converted14
  <2>4. /\ DOMAIN Convert14(c).headers = DOMAIN first.headers
        /\ \A h \in DOMAIN first.headers :
             first.headers[h] = "custom" => Convert14(c).headers[h] = "custom"
    BY <2>3 DEF KeptIn
  <2>5. \A s \in {"connMgr", "reprovider"} : Convert14(c)[s] = c[s]
    BY <2>2
  <2>6. KeptIn(Convert14(c), 15)
    BY <1>3, <2>2, <2>4, <2>5 DEF KeptIn
  <2> QED BY <1>3, <2>1, <2>2, <2>6
<1>4. CASE n = 15
  <2>1. Convert(n, c) = Convert15(c)
    BY <1>4 DEF Convert
  <2> QED BY <1>4, <2>1, Converted15 DEF KeptIn, SameSettings
<1> QED BY <1>1, <1>2, <1>3, <1>4 DEF BackedUp

-----------------------------------------------------------------------------
(* The settings are kept                                                   *)

ConfigTypes == PinInv /\ FaultType /\ backup = [n \in BackedUp |-> backup[n]] /\ edits \in Nat

\* 10-to-11 and its daemon move between two versions only.
LEMMA PinVersions ==
  PinInv /\ PinStep => version' = version \/ (version \in 10 .. 11 /\ version' \in 10 .. 11)
BY DEF PinInv, Control, PinStep, StartApply, StorePin, StorePinFails, Unlink, StartRevert, MovePin,
       FlushIpld, WriteRepoVersion, Interrupt, DaemonPin, DaemonUnpin

\* Types, and that a migration whose config is lost is never reverted.
LEMMA LostStep ==
  ConfigTypes /\ LostForGood /\ [Next]_vars => ConfigTypes' /\ LostForGood'
<1> SUFFICES ASSUME ConfigTypes, LostForGood, [Next]_vars PROVE ConfigTypes' /\ LostForGood'
  OBVIOUS
<1>0. FaultType' /\ PinInv'
  BY ChainStep, PinsStep DEF ConfigTypes
<1> USE <1>0 DEF ConfigTypes, LostForGood, BackedUp
<1>1. CASE PinStep /\ UNCHANGED configVars
  <2>1. version' = version \/ (version \in 10 .. 11 /\ version' \in 10 .. 11)
    BY <1>1, PinVersions DEF ConfigTypes
  <2> QED BY <1>1, <2>1 DEF configVars, FaultType
<1> USE DEF FaultType
<1>2. CASE Apply9 \/ Apply9Unsaved \/ Apply9Killed
  BY <1>2 DEF Apply9, Apply9Unsaved, Apply9Killed
<1>3. CASE Revert9
  BY <1>3 DEF Revert9, configVars
<1>4. CASE SwapCids
  BY <1>4 DEF SwapCids, configVars
<1>5. CASE Edit
  BY <1>5, EditAssumption DEF Edit
<1>6. ASSUME NEW n \in BackedUp, Apply(n) PROVE ConfigTypes' /\ LostForGood'
  <2>1. backup' = [m \in BackedUp |-> IF m = n THEN cfg ELSE backup[m]]
    BY <1>6 DEF Apply
  <2> QED BY <1>6, <2>1 DEF Apply
<1>7. ASSUME NEW n \in BackedUp, ApplyKilled(n) PROVE ConfigTypes' /\ LostForGood'
  BY <1>7 DEF ApplyKilled
<1>8. ASSUME NEW n \in BackedUp, Revert(n) PROVE ConfigTypes' /\ LostForGood'
  <2>1. backup' = [m \in BackedUp |-> IF m = n THEN NoFile ELSE backup[m]]
    BY <1>8 DEF Revert
  <2> QED BY <1>8, <2>1 DEF Revert
<1>9. ASSUME NEW n \in BackedUp, RevertKilled(n) PROVE ConfigTypes' /\ LostForGood'
  <2>1. backup' = [m \in BackedUp |-> IF m = n THEN NoFile ELSE backup[m]]
    BY <1>9 DEF RevertKilled
  <2> QED BY <1>9, <2>1 DEF RevertKilled
<1>10. CASE UNCHANGED vars
  BY <1>10 DEF vars, configVars
<1> QED BY <1>1, <1>2, <1>3, <1>4, <1>5, <1>6, <1>7, <1>8, <1>9, <1>10 DEF Next

\* Steps that leave the settings alone, and keep within the versions 9 to 12
\* unless they leave the version alone.
LEMMA SettingsStay ==
  ASSUME SettingsInv, ConfigTypes, first' = first, backup' = backup,
         lost' = lost \/ (version <= 12 /\ lost' \in {lost \ {9}, lost \cup {9}}),
         version' = version \/ (version \in 9 .. 12 /\ version' \in 9 .. 12),
         IsConfig(cfg') /\ SameSettings(cfg, cfg')
  PROVE  SettingsInv'
<1>1. (12 \in lost' <=> 12 \in lost) /\ (13 \in lost' <=> 13 \in lost)
  OBVIOUS
<1>2. KeptIn(cfg, version)'
  BY <1>1 DEF SettingsInv, KeptIn, SameSettings, Accelerated, ConfigTypes, FaultType
<1>3. \A n \in BackedUp : backup[n] # NoFile => KeptIn(backup[n], n)'
  BY <1>1 DEF SettingsInv, KeptIn, Accelerated
<1> QED BY <1>2, <1>3 DEF SettingsInv

\* Every step keeps the owner's settings in the config and in the backups.
LEMMA SettingsStep ==
  SettingsInv /\ LostForGood /\ ConfigTypes /\ [Next]_vars => SettingsInv'
<1> SUFFICES ASSUME SettingsInv, LostForGood, ConfigTypes, [Next]_vars PROVE SettingsInv'
  OBVIOUS
<1>0. SameSettings(cfg, cfg) /\ IsConfig(cfg) /\ version \in 9 .. 16
  BY DEF SameSettings, SettingsInv, ConfigTypes, FaultType
<1>1. CASE PinStep /\ UNCHANGED configVars
  <2>1. version' = version \/ (version \in 10 .. 11 /\ version' \in 10 .. 11)
    BY <1>1, PinVersions DEF ConfigTypes
  <2> QED BY <1>0, <1>1, <2>1, SettingsStay DEF configVars
<1>2. CASE Apply9 \/ Apply9Unsaved \/ Apply9Killed
  <2>1. IsConfig(cfg') /\ SameSettings(cfg, cfg')
    BY <1>0, <1>2, Converted9 DEF Apply9, Apply9Unsaved, Apply9Killed
  <2> QED BY <1>2, <2>1, SettingsStay DEF Apply9, Apply9Unsaved, Apply9Killed
<1>3. CASE Revert9
  BY <1>0, <1>3, SettingsStay DEF Revert9, configVars
<1>4. CASE SwapCids
  BY <1>0, <1>4, SettingsStay DEF SwapCids, configVars
<1>5. CASE Edit
  <2>1. IsConfig(cfg') /\ SameSettings(cfg, cfg')
    BY <1>0, <1>5 DEF Edit, IsConfig, SameSettings
  <2> QED BY <1>5, <2>1, SettingsStay DEF Edit
<1>6. ASSUME NEW n \in BackedUp, Apply(n) PROVE SettingsInv'
  <2>1. lost' = lost /\ first' = first /\ version' = n + 1
    BY <1>6 DEF Apply, LostForGood, BackedUp
  <2>2. IsConfig(Convert(n, cfg)) /\ KeptIn(Convert(n, cfg), n + 1)
    BY <1>6, ConvertKeeps DEF Apply, SettingsInv
  <2>3. IsConfig(cfg') /\ KeptIn(cfg, version)'
    BY <1>6, <2>1, <2>2 DEF Apply, KeptIn, Accelerated
  <2>4. \A m \in BackedUp : backup'[m] # NoFile => IsConfig(backup'[m]) /\ KeptIn(backup[m], m)'
    <3> SUFFICES ASSUME NEW m \in BackedUp, backup'[m] # NoFile
                 PROVE  IsConfig(backup'[m]) /\ KeptIn(backup[m], m)'
      OBVIOUS
    <3>1. IsConfig(backup'[m]) /\ KeptIn(backup'[m], m)
      BY <1>6 DEF Apply, SettingsInv, ConfigTypes
    <3> QED BY <2>1, <3>1 DEF KeptIn, Accelerated
  <2> QED BY <2>1, <2>3, <2>4 DEF SettingsInv
<1>7. ASSUME NEW n \in BackedUp, ApplyKilled(n) PROVE SettingsInv'
  <2>1. /\ first' = first /\ version' = n + 1 /\ backup' = backup
        /\ \/ cfg' = cfg /\ lost' = lost \cup {n}
           \/ cfg' = Convert(n, cfg) /\ lost' = lost
    BY <1>7 DEF ApplyKilled, LostForGood, BackedUp
  <2>2. IsConfig(Convert(n, cfg)) /\ KeptIn(Convert(n, cfg), n + 1)
    BY <1>7, ConvertKeeps DEF ApplyKilled, SettingsInv
  <2>3. IsConfig(cfg') /\ KeptIn(cfg, version)'
    <3>1. CASE cfg' = cfg /\ lost' = lost \cup {n}
      BY <1>7, <2>1, <3>1 DEF ApplyKilled, KeptIn, Accelerated, SettingsInv, BackedUp
    <3>2. CASE cfg' = Convert(n, cfg) /\ lost' = lost
      BY <2>1, <2>2, <3>2 DEF KeptIn, Accelerated
    <3> QED BY <2>1, <3>1, <3>2
  <2>4. \A m \in BackedUp : backup[m] # NoFile => KeptIn(backup[m], m)'
    BY <2>1 DEF SettingsInv, KeptIn, Accelerated
  <2> QED BY <2>1, <2>3, <2>4 DEF SettingsInv
<1>8. ASSUME NEW n \in BackedUp, Revert(n) \/ RevertKilled(n) PROVE SettingsInv'
  <2>1. /\ first' = first /\ cfg' = backup[n] /\ backup[n] # NoFile
        /\ backup' = [backup EXCEPT ![n] = NoFile]
        /\ \/ version' = n /\ lost' = lost
           \/ version' = n + 1 /\ lost' = lost \cup {n}
    BY <1>8 DEF Revert, RevertKilled
  <2>2. IsConfig(cfg') /\ KeptIn(cfg', n)
    BY <2>1 DEF SettingsInv
  <2>3. KeptIn(cfg, version)'
    <3>1. CASE version' = n /\ lost' = lost
      BY <2>1, <2>2, <3>1 DEF KeptIn, Accelerated
    <3>2. CASE version' = n + 1 /\ lost' = lost \cup {n}
      BY <2>1, <2>2, <3>2 DEF KeptIn, Accelerated, BackedUp
    <3> QED BY <2>1, <3>1, <3>2
  <2>4. \A m \in BackedUp : backup'[m] # NoFile => IsConfig(backup'[m]) /\ KeptIn(backup[m], m)'
    <3> SUFFICES ASSUME NEW m \in BackedUp, backup'[m] # NoFile
                 PROVE  IsConfig(backup'[m]) /\ KeptIn(backup[m], m)'
      OBVIOUS
    <3>1. IsConfig(backup'[m]) /\ KeptIn(backup'[m], m)
      BY <2>1 DEF SettingsInv, ConfigTypes
    <3> QED BY <2>1, <3>1 DEF KeptIn, Accelerated
  <2> QED BY <2>1, <2>2, <2>3, <2>4 DEF SettingsInv
<1>9. CASE UNCHANGED vars
  BY <1>0, <1>9, SettingsStay DEF vars, configVars
<1> QED BY <1>1, <1>2, <1>3, <1>4, <1>5, <1>6, <1>7, <1>8, <1>9 DEF Next

\* A config of version 9 is its own first config.
LEMMA ConfigInit == Init => ConfigTypes /\ LostForGood /\ SettingsInv
<1>1. Init => PinInv
  BY PinsInit DEF Init
<1> QED BY <1>1, ConfigsAssumption, FaultAssumption
        DEF Init, ConfigTypes, FaultType, LostForGood, SettingsInv, KeptIn, BackedUp

\* The daemon of every version reads what the owner has set for the
\* accelerated client, the sections in which the owner has changed a default
\* stay as they are, and so do the owner's headers: for any configs, edits of
\* addresses, upgrades, downgrades, kills and failures.
THEOREM OwnersSettingsKept == Spec => []SettingsKept
<1>1. SettingsInv /\ ConfigTypes => SettingsKept
  BY DEF SettingsInv, ConfigTypes, FaultType, KeptIn, SettingsKept, Accelerated
<1> QED BY <1>1, ConfigInit, LostStep, SettingsStep, PTL DEF Spec

-----------------------------------------------------------------------------
(* Types                                                                   *)

EditType == edits \in 0 .. MaxEdits

\* Every step counts the edits within their bound.
LEMMA EditsCounted == EditType /\ [Next]_vars => EditType'
BY EditAssumption DEF EditType, Next, configVars, vars, Apply9, Apply9Unsaved, Apply9Killed,
   Revert9, SwapCids, Edit, Apply, ApplyKilled, Revert, RevertKilled

\* Every state of the late chain is well typed, and there is a backup for
\* versions that have been left upwards only.
THEOREM TypeCorrect == Spec => []TypeOK
<1>1. Init => EditType
  BY EditAssumption DEF Init, EditType
<1>2. ConfigTypes /\ LostForGood /\ EditType => TypeOK
  BY DEF ConfigTypes, FaultType, EditType, PinInv, PinTypes, LostForGood, TypeOK, Root
<1> QED BY <1>1, <1>2, ConfigInit, LostStep, EditsCounted, PTL DEF Spec

-----------------------------------------------------------------------------
(* Sequences: induction by way of the least counterexample, and what       *)
(* FlattenSeq of SequencesExt puts where                                   *)

\* A set of numbers has a least.
LEMMA LeastNumber ==
  ASSUME NEW T \in SUBSET Nat, T # {}
  PROVE  \E x \in T : \A y \in T : x <= y
<1> DEFINE Less == {p \in Nat \X Nat : p[1] < p[2]}
<1>1. IsWellFoundedOn(Less, Nat)
  BY NatLessThanWellFounded, Zenon DEF OpToRel
<1> HIDE DEF Less
<1>2. PICK x \in T : \A y \in T : <<y, x>> \notin Less
  BY <1>1, WFMin
<1>3. \A y \in T : ~(y < x)
  BY <1>2 DEF Less
<1> QED BY <1>3

\* Induction, over a set.
LEMMA Induction ==
  ASSUME NEW T, 0 \in T, \A n \in Nat : n \in T => n + 1 \in T
  PROVE  \A n \in Nat : n \in T
<1> SUFFICES ASSUME Nat \ T # {} PROVE FALSE
  OBVIOUS
<1>1. PICK x \in Nat \ T : \A y \in Nat \ T : x <= y
  BY LeastNumber
<1>2. x # 0 /\ x - 1 \in Nat /\ x - 1 \in T
  BY <1>1
<1> QED BY <1>2

\* The elements of a concatenation.
LEMMA Joined ==
  ASSUME NEW S, NEW s \in Seq(S), NEW t \in Seq(S)
  PROVE  /\ s \o t \in Seq(S) /\ Len(s \o t) = Len(s) + Len(t)
         /\ \A j \in 1 .. Len(s) : (s \o t)[j] = s[j]
         /\ \A j \in 1 .. Len(t) : (s \o t)[Len(s) + j] = t[j]
OBVIOUS

\* Positions inside a piece are inside the whole.
LEMMA Within ==
  ASSUME NEW a \in Nat, NEW l \in Nat, NEW c \in Nat, a + l <= c, NEW i \in 1 .. l
  PROVE  a + i \in 1 .. c
OBVIOUS

\* f has the elements of s[1] to s[n], those of s[k] after the first off[k - 1].
Placed(S, s, off, f, n) ==
  /\ f \in Seq(S) /\ off[n] = Len(f) /\ off[n] \in Nat
  /\ \A k \in 1 .. n : /\ off[k - 1] \in Nat /\ off[k] \in Nat /\ off[k] <= off[n]
                       /\ off[k] = off[k - 1] + Len(s[k])
  /\ \A k \in 1 .. n : \A i \in 1 .. Len(s[k]) : f[off[k - 1] + i] = s[k][i]
  /\ \A j \in 1 .. off[n] : \E k \in 1 .. n : j - off[k - 1] \in 1 .. Len(s[k])

\* One piece more.
LEMMA Longer ==
  ASSUME NEW S, NEW n \in Nat \ {0}, NEW s, NEW off, NEW f \in Seq(S), NEW g, NEW m \in Nat, m = n + 1,
         s[m] \in Seq(S), Len(s[m]) \in Nat, \A k \in 1 .. n : Len(s[k]) \in Nat,
         g = f \o s[m], off[m] = Len(g), Placed(S, s, off, f, n)
  PROVE  Placed(S, s, off, g, m)
<1>0. /\ off[n] = Len(f) /\ off[n] \in Nat
      /\ \A k \in 1 .. n : off[k - 1] \in Nat /\ off[k] \in Nat /\ off[k] <= off[n] /\ off[k] = off[k - 1] + Len(s[k])
  BY DEF Placed
<1>a. \A k \in 1 .. n : \A i \in 1 .. Len(s[k]) : f[off[k - 1] + i] = s[k][i]
  BY DEF Placed
<1>b. \A j \in 1 .. off[n] : \E k \in 1 .. n : j - off[k - 1] \in 1 .. Len(s[k])
  BY DEF Placed
<1>1. /\ g \in Seq(S) /\ Len(g) = off[n] + Len(s[m])
      /\ \A j \in 1 .. off[n] : g[j] = f[j]
      /\ \A j \in 1 .. Len(s[m]) : g[off[n] + j] = s[m][j]
  BY <1>0, Joined
<1>2. off[m] = off[n] + Len(s[m]) /\ off[m] \in Nat /\ m - 1 = n
  BY <1>0, <1>1
<1>3. ASSUME NEW k \in 1 .. m
      PROVE  /\ off[k - 1] \in Nat /\ off[k] \in Nat /\ off[k] <= off[m]
             /\ off[k] = off[k - 1] + Len(s[k])
  <2>1. CASE k \in 1 .. n
    <3>1. off[k - 1] \in Nat /\ off[k] \in Nat /\ off[k] <= off[n] /\ off[k] = off[k - 1] + Len(s[k])
      BY <1>0, <2>1
    <3> QED BY <1>0, <1>2, <3>1
  <2>2. CASE k = m
    <3>1. off[k - 1] = off[n] /\ off[k] = off[m] /\ s[k] = s[m]
      BY <1>2, <2>2
    <3> QED BY <1>0, <1>2, <3>1
  <2> QED BY <2>1, <2>2
<1>4. ASSUME NEW k \in 1 .. m, NEW i \in 1 .. Len(s[k])
      PROVE  g[off[k - 1] + i] = s[k][i]
  <2>0. k \in 1 .. n \/ k = m
    OBVIOUS
  <2>1. CASE k \in 1 .. n
    <3>1. /\ off[k - 1] \in Nat /\ off[k] \in Nat /\ off[k] <= off[n] /\ off[k] = off[k - 1] + Len(s[k])
          /\ Len(s[k]) \in Nat
      BY <1>0, <2>1
    <3>2. off[k - 1] + i \in 1 .. off[n]
      BY <1>0, <3>1, Within
    <3> QED BY <1>1, <1>a, <2>1, <3>2
  <2>2. CASE k = m
    BY <1>1, <1>2, <2>2
  <2> QED BY <2>0, <2>1, <2>2
<1>5. ASSUME NEW j \in 1 .. off[m]
      PROVE  \E k \in 1 .. m : j - off[k - 1] \in 1 .. Len(s[k])
  <2>1. CASE j \in 1 .. off[n]
    <3>1. PICK k \in 1 .. n : j - off[k - 1] \in 1 .. Len(s[k])
      BY <1>b, <2>1
    <3> QED BY <3>1
  <2>2. CASE j \notin 1 .. off[n]
    <3>1. j - off[n] \in 1 .. Len(s[m])
      BY <1>0, <1>2, <2>2
    <3>2. m \in 1 .. m /\ off[m - 1] = off[n]
      BY <1>2
    <3> QED BY <3>1, <3>2
  <2> QED BY <2>1, <2>2
<1> QED BY <1>1, <1>2, <1>3, <1>4, <1>5 DEF Placed

\* The function inside FlattenSeq.
Flat(s) == CHOOSE g : g = [i \in 1 .. Len(s) |-> IF i = 1 THEN s[i] ELSE g[i - 1] \o s[i]]

\* FlattenSeq is its last value.
LEMMA FlatDef ==
  ASSUME NEW s
  PROVE  FlattenSeq(s) = IF Len(s) = 0 THEN s ELSE Flat(s)[Len(s)]
BY DEF FlattenSeq, Flat

\* The recursion of FlattenSeq defines a function.
LEMMA FlatUnfolds ==
  ASSUME NEW s, Len(s) \in Nat
  PROVE  Flat(s) = [i \in 1 .. Len(s) |-> IF i = 1 THEN s[i] ELSE Flat(s)[i - 1] \o s[i]]
<1> DEFINE Unfolds(h, n) == h = [i \in 1 .. n |-> IF i = 1 THEN s[i] ELSE h[i - 1] \o s[i]]
           T == {n \in Nat : \E h : Unfolds(h, n)}
<1>1. 0 \in T
  <2>1. Unfolds([i \in 1 .. 0 |-> s], 0)
    OBVIOUS
  <2> QED BY <2>1
<1>2. ASSUME NEW n \in Nat, n \in T PROVE n + 1 \in T
  <2>1. PICK h : Unfolds(h, n)
    BY <1>2
  <2> DEFINE g == [i \in 1 .. (n + 1) |->
                     IF i = n + 1 THEN (IF i = 1 THEN s[i] ELSE h[i - 1] \o s[i]) ELSE h[i]]
  <2>2. \A i \in 1 .. n : g[i] = h[i]
    OBVIOUS
  <2>3. \A i \in 1 .. (n + 1) : g[i] = IF i = 1 THEN s[i] ELSE g[i - 1] \o s[i]
    <3> TAKE i \in 1 .. (n + 1)
    <3>1. CASE i = n + 1
      <4>1. i # 1 => i - 1 \in 1 .. n
        BY <3>1
      <4> QED BY <2>2, <3>1, <4>1
    <3>2. CASE i # n + 1
      <4>1. i \in 1 .. n /\ (i # 1 => i - 1 \in 1 .. n)
        BY <3>2
      <4>2. h[i] = IF i = 1 THEN s[i] ELSE h[i - 1] \o s[i]
        BY <2>1, <4>1
      <4> QED BY <2>2, <4>1, <4>2
    <3> QED BY <3>1, <3>2
  <2>4. g = [i \in 1 .. (n + 1) |-> IF i = 1 THEN s[i] ELSE g[i - 1] \o s[i]]
    <3> DEFINE r == [i \in 1 .. (n + 1) |-> IF i = 1 THEN s[i] ELSE g[i - 1] \o s[i]]
    <3>1. DOMAIN g = 1 .. (n + 1) /\ DOMAIN r = 1 .. (n + 1)
      OBVIOUS
    <3>2. \A i \in 1 .. (n + 1) : r[i] = IF i = 1 THEN s[i] ELSE g[i - 1] \o s[i]
      OBVIOUS
    <3>3. \A i \in 1 .. (n + 1) : g[i] = r[i]
      BY <2>3, <3>2
    <3>4. g = [i \in 1 .. (n + 1) |-> g[i]] /\ r = [i \in 1 .. (n + 1) |-> r[i]]
      OBVIOUS
    <3> HIDE DEF g, r
    <3> QED BY <3>3, <3>4 DEF r
  <2>5. Unfolds(g, n + 1)
    BY <2>4
  <2> HIDE DEF g, Unfolds
  <2> QED BY <2>5
<1>3. Len(s) \in T
  <2> HIDE DEF T
  <2> QED BY <1>1, <1>2, Induction
<1>4. PICK h : Unfolds(h, Len(s))
  BY <1>3
<1> QED BY <1>4, Zenon DEF Flat

\* The first piece.
LEMMA FirstPlaced ==
  ASSUME NEW S, NEW s, NEW off, s[1] \in Seq(S), off[0] = 0, off[1] = Len(s[1])
  PROVE  Placed(S, s, off, s[1], 1)
<1>1. Len(s[1]) \in Nat /\ s[1] = s[1] /\ 1 - 1 = 0
  OBVIOUS
<1> QED BY <1>1 DEF Placed

\* The recursion of FlattenSeq.
Joins(F, s, L) == \A i \in 1 .. L : F[i] = IF i = 1 THEN s[i] ELSE F[i - 1] \o s[i]

\* All pieces, by induction.
LEMMA AllPlaced ==
  ASSUME NEW S, NEW s, NEW L \in Nat, \A k \in 1 .. L : s[k] \in Seq(S), NEW F, NEW off, off[0] = 0,
         Joins(F, s, L), \A i \in 1 .. L : off[i] = Len(F[i])
  PROVE  \A n \in 1 .. L : Placed(S, s, off, F[n], n)
<1> DEFINE T == {n \in Nat : n \in 1 .. L => Placed(S, s, off, F[n], n)}
<1>1. 0 \in T
  OBVIOUS
<1>2. ASSUME NEW n \in Nat, n \in T PROVE n + 1 \in T
  <2> SUFFICES ASSUME n + 1 \in 1 .. L PROVE Placed(S, s, off, F[n + 1], n + 1)
    OBVIOUS
  <2>1. CASE n = 0
    <3>1. n + 1 = 1 /\ F[1] = s[1] /\ off[1] = Len(s[1]) /\ s[1] \in Seq(S)
      BY <2>1 DEF Joins
    <3>2. Placed(S, s, off, s[1], 1)
      BY <3>1, FirstPlaced
    <3> QED BY <3>1, <3>2
  <2>2. CASE n # 0
    <3>1. n \in 1 .. L /\ n \in Nat \ {0} /\ Placed(S, s, off, F[n], n) /\ F[n] \in Seq(S)
      BY <1>2, <2>2 DEF Placed
    <3>2. PICK m \in Nat : m = n + 1
      OBVIOUS
    <3>3. m \in 1 .. L /\ m # 1 /\ m - 1 = n
      BY <2>2, <3>2
    <3>a. F[m] = IF m = 1 THEN s[m] ELSE F[m - 1] \o s[m]
      BY <3>3, Zenon DEF Joins
    <3>4. F[m] = F[n] \o s[m] /\ off[m] = Len(F[m])
      BY <3>a, <3>3, Zenon
    <3>b. s[m] \in Seq(S) /\ Len(s[m]) \in Nat
      BY <3>3
    <3>5. \A k \in 1 .. n : Len(s[k]) \in Nat
      <4> SUFFICES ASSUME NEW k \in 1 .. n PROVE Len(s[k]) \in Nat
        OBVIOUS
      <4>1. k \in 1 .. L
        BY <3>1
      <4> QED BY <4>1
    <3>6. Placed(S, s, off, F[m], m)
      BY <3>1, <3>2, <3>4, <3>5, <3>b, Longer
    <3> QED BY <3>2, <3>6
  <2> QED BY <2>1, <2>2
<1> HIDE DEF T
<1>3. \A n \in Nat : n \in T
  BY <1>1, <1>2, Induction
<1> QED BY <1>3 DEF T

\* Where FlattenSeq puts the elements: those of s[k] follow the first
\* off[k - 1] of the result.
LEMMA Flattened ==
  ASSUME NEW S, NEW s \in Seq(Seq(S))
  PROVE  \E off :
           /\ off[0] = 0 /\ Placed(S, s, off, FlattenSeq(s), Len(s))
           /\ \A k \in 1 .. Len(s) : \A j \in 0 .. k : off[j] <= off[k]
<1> DEFINE F == Flat(s)
           off == [k \in 0 .. Len(s) |-> IF k = 0 THEN 0 ELSE Len(F[k])]
<1>1. Len(s) \in Nat /\ \A k \in 1 .. Len(s) : s[k] \in Seq(S)
  OBVIOUS
<1>2. Joins(F, s, Len(s))
  BY <1>1, FlatUnfolds, ZenonT(30) DEF Joins
<1> HIDE DEF F
<1>3. off[0] = 0 /\ \A k \in 1 .. Len(s) : off[k] = Len(F[k])
  BY <1>1
<1> HIDE DEF off
<1>4. \A n \in 1 .. Len(s) : Placed(S, s, off, F[n], n)
  BY <1>1, <1>2, <1>3, AllPlaced
<1>5. CASE Len(s) = 0
  <2>1. FlattenSeq(s) = <<>> /\ s = <<>>
    BY <1>5, FlatDef
  <2>2. Placed(S, s, off, <<>>, 0)
    BY <1>3 DEF Placed
  <2> QED BY <1>3, <1>5, <2>1, <2>2
<1>6. CASE Len(s) # 0
  <2>1. FlattenSeq(s) = F[Len(s)] /\ Len(s) \in 1 .. Len(s)
    BY <1>1, <1>6, FlatDef DEF F
  <2>2. \A k \in 1 .. Len(s) : \A j \in 0 .. k : off[j] <= off[k]
    <3> SUFFICES ASSUME NEW k \in 1 .. Len(s), NEW j \in 0 .. k PROVE off[j] <= off[k]
      OBVIOUS
    <3>1. off[k] \in Nat /\ \A i \in 1 .. k : off[i] <= off[k]
      BY <1>4 DEF Placed
    <3> QED BY <1>3, <3>1
  <2> QED BY <1>3, <1>4, <2>1, <2>2
<1> QED BY <1>1, <1>5, <1>6

\* FlattenSeq gives a sequence of the same elements ...
LEMMA FlatType ==
  ASSUME NEW S, NEW s \in Seq(Seq(S)) PROVE FlattenSeq(s) \in Seq(S)
BY Flattened DEF Placed

\* ... with what is in the pieces, and nothing else.
LEMMA FlatRange ==
  ASSUME NEW S, NEW s \in Seq(Seq(S)), NEW x
  PROVE  Contains(FlattenSeq(s), x) <=> \E k \in 1 .. Len(s) : Contains(s[k], x)
<1>1. PICK off : Placed(S, s, off, FlattenSeq(s), Len(s))
  BY Flattened
<1>2. ASSUME NEW m \in 1 .. Len(FlattenSeq(s)), FlattenSeq(s)[m] = x
      PROVE  \E k \in 1 .. Len(s) : Contains(s[k], x)
  <2>1. PICK k \in 1 .. Len(s) : m - off[k - 1] \in 1 .. Len(s[k])
    BY <1>1 DEF Placed
  <2>2. off[k - 1] \in Nat
    BY <1>1 DEF Placed
  <2>3. off[k - 1] + (m - off[k - 1]) = m
    BY <2>2
  <2>4. s[k][m - off[k - 1]] = x
    BY <1>1, <1>2, <2>1, <2>3 DEF Placed
  <2> QED BY <2>1, <2>4 DEF Contains
<1>3. ASSUME NEW k \in 1 .. Len(s), NEW i \in 1 .. Len(s[k]), s[k][i] = x
      PROVE  Contains(FlattenSeq(s), x)
  <2>1. FlattenSeq(s)[off[k - 1] + i] = x
    BY <1>1, <1>3 DEF Placed
  <2>2. off[k - 1] + i \in 1 .. Len(FlattenSeq(s))
    <3>1. /\ off[k - 1] \in Nat /\ off[k] \in Nat /\ off[k] <= off[Len(s)] /\ off[k] = off[k - 1] + Len(s[k])
          /\ off[Len(s)] = Len(FlattenSeq(s)) /\ off[Len(s)] \in Nat /\ Len(s[k]) \in Nat
      BY <1>1 DEF Placed
    <3> QED BY <3>1, Within
  <2> QED BY <2>1, <2>2 DEF Contains
<1> QED BY <1>2, <1>3 DEF Contains

\* a is in a piece, and b neither in it nor in one before.
LEMMA FlatAhead ==
  ASSUME NEW S, NEW s \in Seq(Seq(S)), NEW a, NEW b, NEW k \in 1 .. Len(s), Contains(s[k], a),
         \A j \in 1 .. k : ~Contains(s[j], b)
  PROVE  Ahead(FlattenSeq(s), a, b)
<1>1. PICK off : /\ Placed(S, s, off, FlattenSeq(s), Len(s)) /\ off[0] = 0
                 /\ \A n \in 1 .. Len(s) : \A j \in 0 .. n : off[j] <= off[n]
  BY Flattened
<1>2. PICK i \in 1 .. Len(s[k]) : s[k][i] = a
  BY DEF Contains
<1>3. /\ FlattenSeq(s) \in Seq(S) /\ Len(s) \in Nat /\ Len(s[k]) \in Nat
      /\ off[Len(s)] = Len(FlattenSeq(s)) /\ off[Len(s)] \in Nat
  BY <1>1 DEF Placed
<1>4. \A n \in 1 .. Len(s) : /\ off[n - 1] \in Nat /\ off[n] \in Nat /\ off[n] <= off[Len(s)]
                             /\ off[n] = off[n - 1] + Len(s[n])
  BY <1>1 DEF Placed
<1>5. off[k - 1] + i \in 1 .. Len(FlattenSeq(s))
  BY <1>3, <1>4, Within
<1>6. FlattenSeq(s)[off[k - 1] + i] = a
  BY <1>1, <1>2 DEF Placed
<1>7. ASSUME NEW m \in 1 .. (off[k - 1] + i), FlattenSeq(s)[m] = b PROVE FALSE
  <2>0. /\ off[k - 1] \in Nat /\ off[k] \in Nat /\ off[k] <= off[Len(s)]
        /\ off[k] = off[k - 1] + Len(s[k])
    BY <1>4
  <2>1. m \in 1 .. off[Len(s)] /\ m <= off[k]
    <3>1. off[k - 1] + i <= off[k]
      BY <1>3, <2>0
    <3>2. m <= off[k]
      BY <2>0, <3>1
    <3> QED BY <1>3, <2>0, <3>2
  <2>2. PICK n \in 1 .. Len(s) : m - off[n - 1] \in 1 .. Len(s[n])
    BY <1>1, <2>1 DEF Placed
  <2>3. off[n - 1] \in Nat
    BY <1>4
  <2>4. off[n - 1] + (m - off[n - 1]) = m /\ off[n - 1] < m
    BY <2>2, <2>3, SMTT(30)
  <2>5. s[n][m - off[n - 1]] = b
    BY <1>1, <1>7, <2>2, <2>4 DEF Placed
  <2>6. Contains(s[n], b)
    BY <2>2, <2>5 DEF Contains
  <2>7. CASE n \in 1 .. k
    BY <2>6, <2>7
  <2>8. CASE n \notin 1 .. k
    <3>1. n - 1 \in 1 .. Len(s) /\ k \in 0 .. (n - 1)
      BY <1>3, <2>8
    <3>2. off[k] <= off[n - 1]
      BY <1>1, <3>1
    <3>3. off[k] \in Nat
      BY <1>4
    <3> QED BY <2>1, <2>3, <2>4, <3>2, <3>3
  <2> QED BY <2>7, <2>8
<1> QED BY <1>3, <1>5, <1>6, <1>7 DEF Ahead

\* None of the pieces has anything twice, and no two have the same, unless it
\* is no address.
LEMMA FlatOnce ==
  ASSUME NEW S, NEW s \in Seq(Seq(S)), \A k \in 1 .. Len(s) : Once(s[k]),
         \A j, k \in 1 .. Len(s) : \A x : Contains(s[j], x) /\ Contains(s[k], x) => j = k \/ x = Junk
  PROVE  Once(FlattenSeq(s))
<1>1. PICK off : Placed(S, s, off, FlattenSeq(s), Len(s))
  BY Flattened
<1>2. /\ FlattenSeq(s) \in Seq(S) /\ Len(s) \in Nat /\ off[Len(s)] = Len(FlattenSeq(s))
      /\ DOMAIN FlattenSeq(s) = 1 .. Len(FlattenSeq(s))
      /\ \A k \in 1 .. Len(s) : s[k] \in Seq(S) /\ DOMAIN s[k] = 1 .. Len(s[k])
  BY <1>1 DEF Placed
<1>3. ASSUME NEW m \in 1 .. Len(FlattenSeq(s))
      PROVE  \E k \in 1 .. Len(s) : \E i \in 1 .. Len(s[k]) :
               m = off[k - 1] + i /\ s[k][i] = FlattenSeq(s)[m]
  <2>1. PICK k \in 1 .. Len(s) : m - off[k - 1] \in 1 .. Len(s[k])
    BY <1>1, <1>2 DEF Placed
  <2>2. off[k - 1] \in Nat
    BY <1>1 DEF Placed
  <2>3. m = off[k - 1] + (m - off[k - 1])
    BY <2>2
  <2>4. s[k][m - off[k - 1]] = FlattenSeq(s)[m]
    BY <1>1, <2>1, <2>3 DEF Placed
  <2> QED BY <2>1, <2>3, <2>4
<1>4. ASSUME NEW m \in 1 .. Len(FlattenSeq(s)), NEW l \in 1 .. Len(FlattenSeq(s)),
             FlattenSeq(s)[m] = FlattenSeq(s)[l], FlattenSeq(s)[m] # Junk
      PROVE  m = l
  <2>k. PICK k \in 1 .. Len(s) : \E i \in 1 .. Len(s[k]) : m = off[k - 1] + i /\ s[k][i] = FlattenSeq(s)[m]
    BY <1>3
  <2>h. PICK h \in 1 .. Len(s) : \E j \in 1 .. Len(s[h]) : l = off[h - 1] + j /\ s[h][j] = FlattenSeq(s)[l]
    BY <1>3
  <2>1. PICK i \in 1 .. Len(s[k]) : m = off[k - 1] + i /\ s[k][i] = FlattenSeq(s)[m]
    BY <2>k
  <2>2. PICK j \in 1 .. Len(s[h]) : l = off[h - 1] + j /\ s[h][j] = FlattenSeq(s)[l]
    BY <2>h
  <2>3. k = h
    BY <1>4, <2>1, <2>2 DEF Contains
  <2>4. i = j
    BY <1>2, <1>4, <2>1, <2>2, <2>3 DEF Once
  <2> QED BY <2>1, <2>2, <2>3, <2>4
<1> QED BY <1>2, <1>4 DEF Once

\* Sequences with the same elements are the same.
LEMMA SameSeq ==
  ASSUME NEW S, NEW s \in Seq(S), NEW t \in Seq(S), Len(s) = Len(t), \A i \in 1 .. Len(s) : s[i] = t[i]
  PROVE  s = t
OBVIOUS

\* All but the last.
LEMMA FrontOf ==
  ASSUME NEW S, NEW t \in Seq(S), t # <<>>
  PROVE  /\ Front(t) \in Seq(S) /\ Len(Front(t)) = Len(t) - 1 /\ Len(t) \in Nat \ {0}
         /\ \A i \in 1 .. (Len(t) - 1) : Front(t)[i] = t[i]
<1>1. Len(t) \in Nat \ {0} /\ \A i \in 1 .. Len(t) : t[i] \in S
  OBVIOUS
<1>2. Front(t) = [i \in 1 .. (Len(t) - 1) |-> t[i]]
  BY <1>1 DEF Front
<1>3. \A i \in 1 .. (Len(t) - 1) : t[i] \in S
  BY <1>1
<1> QED BY <1>1, <1>2, <1>3

\* What Front and something else make together.
LEMMA FrontJoined ==
  ASSUME NEW S, NEW t \in Seq(S), t # <<>>, NEW new \in Seq(S),
         NEW r \in Seq(S), Len(r) = (Len(t) - 1) + Len(new),
         \A i \in 1 .. (Len(t) - 1) : r[i] = t[i],
         \A i \in 1 .. Len(new) : r[(Len(t) - 1) + i] = new[i]
  PROVE  r = Front(t) \o new
<1>1. PICK f \in Seq(S) : /\ f = Front(t) /\ Len(f) = Len(t) - 1 /\ Len(t) - 1 \in Nat
                          /\ \A i \in 1 .. (Len(t) - 1) : f[i] = t[i]
  BY FrontOf
<1>2. /\ f \o new \in Seq(S) /\ Len(f \o new) = Len(f) + Len(new)
      /\ \A i \in 1 .. Len(f) : (f \o new)[i] = f[i]
      /\ \A i \in 1 .. Len(new) : (f \o new)[Len(f) + i] = new[i]
  BY Joined
<1>3. Len(new) \in Nat /\ Len(r) = Len(f \o new)
  BY <1>1, <1>2
<1>4. ASSUME NEW i \in 1 .. Len(r) PROVE r[i] = (f \o new)[i]
  <2>1. CASE i \in 1 .. (Len(t) - 1)
    BY <1>1, <1>2, <2>1
  <2>2. CASE i \notin 1 .. (Len(t) - 1)
    <3>1. PICK j \in 1 .. Len(new) : i = (Len(t) - 1) + j
      <4>1. i - (Len(t) - 1) \in 1 .. Len(new) /\ (Len(t) - 1) + (i - (Len(t) - 1)) = i
        BY <1>1, <1>3, <2>2
      <4> QED BY <4>1
    <3> QED BY <1>1, <1>2, <3>1
  <2> QED BY <2>1, <2>2
<1>5. r = f \o new
  BY <1>2, <1>3, <1>4, SameSeq
<1> QED BY <1>1, <1>5

\* Pieces of one element each, but perhaps the last.
LEMMA FlatLast ==
  ASSUME NEW S, NEW t \in Seq(S), t # <<>>, NEW new \in Seq(S),
         NEW s \in Seq(Seq(S)), Len(s) = Len(t), s[Len(t)] = new,
         \A i \in 1 .. (Len(t) - 1) : s[i] = <<t[i]>>
  PROVE  FlattenSeq(s) = Front(t) \o new
<1>1. Len(t) \in Nat \ {0} /\ \A i \in 1 .. Len(t) : t[i] \in S
  OBVIOUS
<1>2. s \in Seq(Seq(S)) /\ Len(s) = Len(t)
  BY <1>1
<1>3. PICK off : Placed(S, s, off, FlattenSeq(s), Len(s)) /\ off[0] = 0
  BY <1>2, Flattened
<1>4. /\ \A k \in 1 .. Len(t) : off[k - 1] \in Nat /\ off[k] = off[k - 1] + Len(s[k])
      /\ FlattenSeq(s) \in Seq(S) /\ Len(FlattenSeq(s)) = off[Len(t)]
      /\ \A k \in 1 .. Len(t) : \A i \in 1 .. Len(s[k]) : FlattenSeq(s)[off[k - 1] + i] = s[k][i]
  BY <1>2, <1>3 DEF Placed
<1>5. \A k \in 1 .. (Len(t) - 1) : s[k] = <<t[k]>> /\ Len(s[k]) = 1 /\ s[k][1] = t[k]
  <2>1. \A x : Len(<<x>>) = 1 /\ <<x>>[1] = x
    OBVIOUS
  <2> QED BY <2>1, Zenon
<1>6. s[Len(t)] = new
  BY <1>1
<1> DEFINE T == {n \in Nat : n \in 0 .. (Len(t) - 1) => off[n] = n}
<1>7. 0 \in T
  BY <1>3
<1>8. ASSUME NEW n \in Nat, n \in T PROVE n + 1 \in T
  <2> SUFFICES ASSUME n + 1 \in 0 .. (Len(t) - 1) PROVE off[n + 1] = n + 1
    OBVIOUS
  <2>1. n + 1 \in 1 .. (Len(t) - 1) /\ n + 1 \in 1 .. Len(t) /\ (n + 1) - 1 = n /\ n \in 0 .. (Len(t) - 1)
    BY <1>1
  <2>2. off[n] = n /\ Len(s[n + 1]) = 1
    BY <1>5, <1>8, <2>1
  <2>3. off[n + 1] = off[n] + Len(s[n + 1])
    BY <1>4, <2>1
  <2> QED BY <2>2, <2>3
<1> HIDE DEF T
<1>9. \A n \in Nat : n \in T
  BY <1>7, <1>8, Induction
<1>10. \A n \in 0 .. (Len(t) - 1) : off[n] = n
  BY <1>1, <1>9 DEF T
<1>11. Len(FlattenSeq(s)) = (Len(t) - 1) + Len(new)
  <2>1. Len(t) \in 1 .. Len(t) /\ off[Len(t) - 1] = Len(t) - 1
    BY <1>1, <1>10
  <2> QED BY <1>4, <1>6, <2>1
<1>12. ASSUME NEW i \in 1 .. (Len(t) - 1) PROVE FlattenSeq(s)[i] = t[i]
  <2>1. i \in 1 .. Len(t) /\ i - 1 \in 0 .. (Len(t) - 1) /\ (i - 1) + 1 = i
    BY <1>1
  <2>a. Len(s[i]) = 1 /\ s[i][1] = t[i]
    BY <1>5
  <2>2. off[i - 1] = i - 1
    BY <1>10, <2>1
  <2>3. FlattenSeq(s)[off[i - 1] + 1] = s[i][1]
    BY <1>4, <2>1, <2>a
  <2> QED BY <2>a, <2>1, <2>2, <2>3
<1>13. ASSUME NEW i \in 1 .. Len(new) PROVE FlattenSeq(s)[(Len(t) - 1) + i] = new[i]
  <2>1. Len(t) \in 1 .. Len(t) /\ off[Len(t) - 1] = Len(t) - 1
    BY <1>1, <1>10
  <2>2. \A k \in 1 .. Len(t) : k = Len(t) => FlattenSeq(s)[off[k - 1] + i] = s[k][i]
    <3> SUFFICES ASSUME NEW k \in 1 .. Len(t), k = Len(t)
                 PROVE  FlattenSeq(s)[off[k - 1] + i] = s[k][i]
      OBVIOUS
    <3>1. i \in 1 .. Len(s[k])
      BY <1>6
    <3> QED BY <1>4, <3>1
  <2>3. FlattenSeq(s)[off[Len(t) - 1] + i] = new[i]
    BY <1>6, <2>1, <2>2
  <2> QED BY <2>1, <2>3
<1> QED BY <1>4, <1>11, <1>12, <1>13, FrontJoined

\* Pieces of one element each.
LEMMA FlatSingles ==
  ASSUME NEW S, NEW t \in Seq(S), NEW s \in Seq(Seq(S)), Len(s) = Len(t),
         \A i \in 1 .. Len(t) : s[i] = <<t[i]>>
  PROVE  FlattenSeq(s) = t
<1>1. CASE t = <<>>
  BY <1>1, FlatDef
<1>2. CASE t # <<>>
  <2>1. Len(t) \in Nat \ {0} /\ Len(t) \in 1 .. Len(t) /\ t[Len(t)] \in S
    BY <1>2
  <2>2. <<t[Len(t)]>> \in Seq(S) /\ Len(<<t[Len(t)]>>) = 1 /\ <<t[Len(t)]>>[1] = t[Len(t)]
    BY <2>1
  <2>3. s[Len(t)] = <<t[Len(t)]>> /\ \A i \in 1 .. (Len(t) - 1) : s[i] = <<t[i]>>
    BY <2>1
  <2>4. PICK new \in Seq(S) : new = <<t[Len(t)]>> /\ Len(new) = 1 /\ new[1] = t[Len(t)] /\ s[Len(t)] = new
    BY <2>2, <2>3
  <2>5. FlattenSeq(s) = Front(t) \o new
    BY <1>2, <2>3, <2>4, FlatLast, Zenon
  <2>6. Len(t) = (Len(t) - 1) + Len(new) /\ \A i \in 1 .. Len(new) : t[(Len(t) - 1) + i] = new[i]
    BY <2>1, <2>4
  <2>7. t = Front(t) \o new
    <3> DEFINE r == t
    <3>1. /\ r \in Seq(S) /\ Len(r) = (Len(t) - 1) + Len(new)
          /\ \A i \in 1 .. (Len(t) - 1) : r[i] = t[i]
          /\ \A i \in 1 .. Len(new) : r[(Len(t) - 1) + i] = new[i]
      BY <2>6
    <3> HIDE DEF r
    <3>2. r = Front(t) \o new
      BY <1>2, <3>1, FrontJoined
    <3> QED BY <3>2 DEF r
  <2> QED BY <2>5, <2>7
<1> QED BY <1>1, <1>2

-----------------------------------------------------------------------------
(* Subst                                                                   *)

\* What is at the place of each protocol.
LEMMA SubstParts ==
  ASSUME NEW P, NEW a \in Seq(P), NEW S, NEW new \in Seq(P)
  PROVE  \E s \in Seq(Seq(P)) :
           /\ Subst(a, S, new) = FlattenSeq(s) /\ Len(s) = Len(a)
           /\ \A i \in 1 .. Len(a) : s[i] = IF i \in S THEN new ELSE <<a[i]>>
<1> DEFINE s == [i \in DOMAIN a |-> IF i \in S THEN new ELSE <<a[i]>>]
<1>1. Subst(a, S, new) = FlattenSeq(s)
  BY DEF Subst
<1>2. Len(a) \in Nat /\ DOMAIN a = 1 .. Len(a) /\ \A i \in 1 .. Len(a) : a[i] \in P
  OBVIOUS
<1>3. \A i \in 1 .. Len(a) : <<a[i]>> \in Seq(P)
  BY <1>2
<1>4. s \in [1 .. Len(a) -> Seq(P)]
  BY <1>2, <1>3
<1>5. s \in Seq(Seq(P)) /\ Len(s) = Len(a)
  BY <1>2, <1>4
<1>6. \A i \in 1 .. Len(a) : s[i] = IF i \in S THEN new ELSE <<a[i]>>
  BY <1>2
<1> HIDE DEF s
<1> QED BY <1>1, <1>5, <1>6

\* What it consists of.
LEMMA SubstHas ==
  ASSUME NEW P, NEW a \in Seq(P), NEW S, NEW new \in Seq(P)
  PROVE  /\ Subst(a, S, new) \in Seq(P)
         /\ \A p : Contains(Subst(a, S, new), p) <=>
                   \E i \in 1 .. Len(a) : IF i \in S THEN Contains(new, p) ELSE a[i] = p
<1>1. PICK s \in Seq(Seq(P)) :
           /\ Subst(a, S, new) = FlattenSeq(s) /\ Len(s) = Len(a)
           /\ \A i \in 1 .. Len(a) : s[i] = IF i \in S THEN new ELSE <<a[i]>>
  BY SubstParts
<1>2. ASSUME NEW p PROVE Contains(Subst(a, S, new), p) <=>
                   \E i \in 1 .. Len(a) : IF i \in S THEN Contains(new, p) ELSE a[i] = p
  <2>1. Contains(FlattenSeq(s), p) <=> \E i \in 1 .. Len(s) : Contains(s[i], p)
    BY FlatRange
  <2>2. \A x : Contains(<<x>>, p) <=> x = p
    BY DEF Contains
  <2>3. \A i \in 1 .. Len(a) : Contains(s[i], p) <=> IF i \in S THEN Contains(new, p) ELSE a[i] = p
    BY <1>1, <2>2
  <2> QED BY <1>1, <2>1, <2>3
<1>3. FlattenSeq(s) \in Seq(P)
  BY FlatType
<1> QED BY <1>1, <1>2, <1>3

\* Nothing is replaced.
LEMMA SubstNone ==
  ASSUME NEW P, NEW a \in Seq(P), NEW S, NEW new \in Seq(P), \A i \in 1 .. Len(a) : i \notin S
  PROVE  Subst(a, S, new) = a
<1>1. PICK s \in Seq(Seq(P)) :
           /\ Subst(a, S, new) = FlattenSeq(s) /\ Len(s) = Len(a)
           /\ \A i \in 1 .. Len(a) : s[i] = IF i \in S THEN new ELSE <<a[i]>>
  BY SubstParts
<1>2. \A i \in 1 .. Len(a) : s[i] = <<a[i]>>
  BY <1>1
<1> QED BY <1>1, <1>2, FlatSingles

\* One protocol is replaced by one.
LEMMA SubstOne ==
  ASSUME NEW P, NEW a \in Seq(P), NEW S, NEW p \in P
  PROVE  /\ Subst(a, S, <<p>>) \in Seq(P) /\ Len(Subst(a, S, <<p>>)) = Len(a)
         /\ \A i \in 1 .. Len(a) : /\ i \in S => Subst(a, S, <<p>>)[i] = p
                                   /\ i \notin S => Subst(a, S, <<p>>)[i] = a[i]
<1> DEFINE t == [i \in 1 .. Len(a) |-> IF i \in S THEN p ELSE a[i]]
<1>1. Len(a) \in Nat /\ \A i \in 1 .. Len(a) : a[i] \in P
  OBVIOUS
<1>2. t \in Seq(P) /\ Len(t) = Len(a) /\ \A i \in 1 .. Len(a) : t[i] = IF i \in S THEN p ELSE a[i]
  BY <1>1
<1> HIDE DEF t
<1>a. <<p>> \in Seq(P)
  OBVIOUS
<1>3. PICK new \in Seq(P) : new = <<p>>
  BY <1>a, Zenon
<1>4. PICK s \in Seq(Seq(P)) :
           /\ Subst(a, S, new) = FlattenSeq(s) /\ Len(s) = Len(a)
           /\ \A i \in 1 .. Len(a) : s[i] = IF i \in S THEN new ELSE <<a[i]>>
  BY SubstParts
<1>5. \A i \in 1 .. Len(t) : s[i] = <<t[i]>>
  BY <1>2, <1>3, <1>4
<1>6. FlattenSeq(s) = t
  BY <1>2, <1>4, <1>5, FlatSingles
<1> QED BY <1>2, <1>3, <1>4, <1>6

\* The last protocol is replaced.
LEMMA SubstLast ==
  ASSUME NEW P, NEW a \in Seq(P), a # <<>>, NEW new \in Seq(P), NEW S,
         \A i \in 1 .. Len(a) : i \in S <=> i = Len(a)
  PROVE  Subst(a, S, new) = Front(a) \o new
<1>1. PICK s \in Seq(Seq(P)) :
           /\ Subst(a, S, new) = FlattenSeq(s) /\ Len(s) = Len(a)
           /\ \A i \in 1 .. Len(a) : s[i] = IF i \in S THEN new ELSE <<a[i]>>
  BY SubstParts
<1>2. /\ Front(a) \in Seq(P) /\ Len(Front(a)) = Len(a) - 1 /\ Len(a) \in Nat \ {0}
      /\ \A i \in 1 .. (Len(a) - 1) : Front(a)[i] = a[i]
  BY FrontOf
<1>3. s[Len(a)] = new /\ \A i \in 1 .. (Len(a) - 1) : s[i] = <<a[i]>>
  <2>1. /\ Len(a) \in 1 .. Len(a)
        /\ \A i \in 1 .. (Len(a) - 1) : i \in 1 .. Len(a) /\ i # Len(a)
    BY <1>2
  <2> QED BY <1>1, <2>1, Zenon
<1>4. FlattenSeq(s) = Front(a) \o new
  BY <1>1, <1>3, FlatLast, ZenonT(30)
<1> QED BY <1>1, <1>4

-----------------------------------------------------------------------------
(* Lists                                                                   *)

\* Short sequences.
LEMMA ContainsOne ==
  ASSUME NEW y, NEW s, s = <<y>> PROVE \A x : Contains(s, x) <=> x = y
BY DEF Contains

\* Two elements.
LEMMA ContainsPair ==
  ASSUME NEW y, NEW z, NEW s, s = <<y, z>> PROVE \A x : Contains(s, x) <=> x = y \/ x = z
<1>1. Len(s) = 2 /\ s[1] = y /\ s[2] = z
  OBVIOUS
<1> QED BY <1>1 DEF Contains

\* No element.
LEMMA ContainsNone == ASSUME NEW s, s = <<>> PROVE \A x : ~Contains(s, x)
BY DEF Contains

\* The elements of list one by one, but those that are there before.
FirstOnes(s, list) ==
  /\ Len(s) = Len(list)
  /\ \A k \in 1 .. Len(list) :
       /\ Once(s[k])
       /\ \A x : Contains(s[k], x) <=> list[k] = x /\ (x = Junk \/ \A j \in 1 .. (k - 1) : list[j] # x)

\* Uniq puts together such pieces.
LEMMA UniqParts ==
  ASSUME NEW A, NEW list \in Seq(A)
  PROVE  \E s \in Seq(Seq(A)) :
           Uniq(list) = FlattenSeq(s) /\ FirstOnes(s, list)
<1> DEFINE Before(k) == list[k] # Junk /\ \E j \in 1 .. (k - 1) : list[j] = list[k]
           s == [k \in DOMAIN list |-> IF Before(k) THEN <<>> ELSE <<list[k]>>]
<1>1. Uniq(list) = FlattenSeq(s)
  BY DEF Uniq
<1>2. Len(list) \in Nat /\ DOMAIN list = 1 .. Len(list) /\ \A k \in 1 .. Len(list) : list[k] \in A
  OBVIOUS
<1>3. <<>> \in Seq(A) /\ \A k \in 1 .. Len(list) : <<list[k]>> \in Seq(A)
  BY <1>2
<1> HIDE DEF Before
<1>4. s \in [1 .. Len(list) -> Seq(A)]
  BY <1>2, <1>3
<1>5. s \in Seq(Seq(A)) /\ Len(s) = Len(list)
  BY <1>2, <1>4
<1>6. \A k \in 1 .. Len(list) : s[k] = IF Before(k) THEN <<>> ELSE <<list[k]>>
  BY <1>2
<1> HIDE DEF s
<1>7. ASSUME NEW k \in 1 .. Len(list)
      PROVE  /\ Once(s[k])
             /\ \A x : Contains(s[k], x) <=> list[k] = x /\ ~Before(k)
  <2>1. \A x : Once(<<x>>) /\ Once(<<>>)
    BY DEF Once
  <2>2. CASE Before(k)
    <3>1. s[k] = <<>>
      BY <1>6, <2>2
    <3> QED BY <2>1, <2>2, <3>1, ContainsNone
  <2>3. CASE ~Before(k)
    <3>1. s[k] = <<list[k]>>
      BY <1>6, <2>3
    <3>2. \A x : Contains(s[k], x) <=> x = list[k]
      BY <3>1, ContainsOne
    <3> QED BY <2>1, <2>3, <3>1, <3>2, Zenon
  <2> QED BY <2>2, <2>3
<1>8. \A k, x : list[k] = x => (~Before(k) <=> x = Junk \/ \A j \in 1 .. (k - 1) : list[j] # x)
  BY DEF Before
<1>9. FirstOnes(s, list)
  BY <1>5, <1>7, <1>8, Zenon DEF FirstOnes
<1> QED BY <1>1, <1>5, <1>9

\* It loses nothing and adds nothing ...
LEMMA UniqRange ==
  ASSUME NEW A, NEW list \in Seq(A)
  PROVE  Uniq(list) \in Seq(A) /\ \A x : Contains(Uniq(list), x) <=> Contains(list, x)
<1>1. PICK s \in Seq(Seq(A)) :
           Uniq(list) = FlattenSeq(s) /\ FirstOnes(s, list)
  BY UniqParts, Zenon
<1>0. /\ Len(s) = Len(list)
      /\ \A k \in 1 .. Len(list) :
           /\ Once(s[k])
           /\ \A x : Contains(s[k], x) <=>
                     list[k] = x /\ (x = Junk \/ \A j \in 1 .. (k - 1) : list[j] # x)
  BY <1>1 DEF FirstOnes
<1>2. Uniq(list) \in Seq(A)
  BY <1>1, FlatType
<1>3. \A x : Contains(Uniq(list), x) <=> \E k \in 1 .. Len(list) : Contains(s[k], x)
  BY <1>0, <1>1, FlatRange
<1>4. ASSUME NEW x, NEW k \in 1 .. Len(list), Contains(s[k], x) PROVE Contains(list, x)
  BY <1>0, <1>4 DEF Contains
<1>5. ASSUME NEW x, Contains(list, x) PROVE \E k \in 1 .. Len(list) : Contains(s[k], x)
  <2> DEFINE T == {k \in Nat : k \in 1 .. Len(list) /\ list[k] = x}
  <2>1. T # {} /\ T \in SUBSET Nat
    BY <1>5, SMTT(30) DEF Contains
  <2>2. PICK k \in T : \A j \in T : k <= j
    BY <2>1, LeastNumber
  <2>3. k \in 1 .. Len(list) /\ list[k] = x /\ \A j \in 1 .. (k - 1) : list[j] # x
    BY <2>2
  <2> QED BY <1>0, <2>3
<1> QED BY <1>2, <1>3, <1>4, <1>5

\* ... has nothing twice ...
LEMMA UniqOnce ==
  ASSUME NEW A, NEW list \in Seq(A) PROVE Once(Uniq(list))
<1>1. PICK s \in Seq(Seq(A)) :
           Uniq(list) = FlattenSeq(s) /\ FirstOnes(s, list)
  BY UniqParts, Zenon
<1>0. /\ Len(s) = Len(list)
      /\ \A k \in 1 .. Len(list) :
           /\ Once(s[k])
           /\ \A x : Contains(s[k], x) <=>
                     list[k] = x /\ (x = Junk \/ \A j \in 1 .. (k - 1) : list[j] # x)
  BY <1>1 DEF FirstOnes
<1>2. \A k \in 1 .. Len(s) : Once(s[k])
  BY <1>0
<1>3. ASSUME NEW j \in 1 .. Len(s), NEW k \in 1 .. Len(s), NEW x, Contains(s[j], x), Contains(s[k], x)
      PROVE  j = k \/ x = Junk
  <2>1. /\ list[j] = x /\ (x = Junk \/ \A i \in 1 .. (j - 1) : list[i] # x)
        /\ list[k] = x /\ (x = Junk \/ \A i \in 1 .. (k - 1) : list[i] # x)
    BY <1>0, <1>3, Zenon
  <2>2. j \in Nat \ {0} /\ k \in Nat \ {0}
    OBVIOUS
  <2> QED BY <2>1, <2>2
<1>4. Once(FlattenSeq(s))
  BY <1>2, <1>3, FlatOnce, Zenon
<1> QED BY <1>1, <1>4

\* ... and keeps the order in which things come first.
LEMMA UniqAhead ==
  ASSUME NEW A, NEW list \in Seq(A), NEW a, NEW b, Ahead(list, a, b)
  PROVE  Ahead(Uniq(list), a, b)
<1>1. PICK s \in Seq(Seq(A)) :
           Uniq(list) = FlattenSeq(s) /\ FirstOnes(s, list)
  BY UniqParts, Zenon
<1>0. /\ Len(s) = Len(list)
      /\ \A k \in 1 .. Len(list) :
           /\ Once(s[k])
           /\ \A x : Contains(s[k], x) <=>
                     list[k] = x /\ (x = Junk \/ \A j \in 1 .. (k - 1) : list[j] # x)
  BY <1>1 DEF FirstOnes
<1>2. Len(list) \in Nat /\ DOMAIN list = 1 .. Len(list)
  OBVIOUS
<1>3. PICK i \in 1 .. Len(list) : list[i] = a /\ \A j \in 1 .. i : list[j] # b
  BY <1>2 DEF Ahead
<1> DEFINE T == {k \in Nat : k \in 1 .. i /\ list[k] = a}
<1>4. T # {} /\ T \in SUBSET Nat
  BY <1>2, <1>3
<1>5. PICK k \in T : \A j \in T : k <= j
  BY <1>4, LeastNumber
<1>6. k \in 1 .. i /\ k \in 1 .. Len(list) /\ list[k] = a /\ \A j \in 1 .. (k - 1) : list[j] # a
  BY <1>2, <1>5
<1>7. k \in 1 .. Len(s) /\ Contains(s[k], a)
  BY <1>0, <1>6
<1>8. \A j \in 1 .. k : j \in 1 .. Len(list) /\ j \in 1 .. i
  BY <1>2, <1>6
<1>9. \A j \in 1 .. k : ~Contains(s[j], b)
  BY <1>0, <1>3, <1>8, Zenon
<1>10. Ahead(FlattenSeq(s), a, b)
  BY <1>7, <1>9, FlatAhead, Zenon
<1> QED BY <1>1, <1>10

\* What an entry may be.
Address == Seq(Names)

-----------------------------------------------------------------------------
(* The rules for lists                                                     *)

\* The order of the addresses no rule is about is kept.
Ordered(list, r) ==
  \A a, b : Untouched(a) /\ Untouched(b) /\ Ahead(list, a, b) => Ahead(r, a, b)

\* Each element no rule is about has become itself, and nothing else has
\* become it.
Passes(list, s) ==
  \A k \in 1 .. Len(list) : \A c :
    Untouched(c) => (list[k] = c => Contains(s[k], c)) /\ (Contains(s[k], c) => list[k] = c)

\* A list each of whose elements has become a piece.
LEMMA Rewritten ==
  ASSUME NEW A, NEW list \in Seq(A), NEW s \in Seq(Seq(A)), Len(s) = Len(list),
         NEW r, r = Uniq(FlattenSeq(s))
  PROVE  /\ r \in Seq(A) /\ Once(r)
         /\ \A x : Contains(r, x) <=> \E k \in 1 .. Len(list) : Contains(s[k], x)
         /\ Passes(list, s) => Ordered(list, r)
<1>1. FlattenSeq(s) \in Seq(A)
  BY FlatType
<1>2. r \in Seq(A) /\ Once(r)
  BY <1>1, UniqRange, UniqOnce
<1>3. \A x : Contains(r, x) <=> \E k \in 1 .. Len(list) : Contains(s[k], x)
  BY <1>1, UniqRange, FlatRange
<1>4. ASSUME Passes(list, s), NEW a, NEW b, Untouched(a), Untouched(b), Ahead(list, a, b)
      PROVE  Ahead(r, a, b)
  <2>1. DOMAIN list = 1 .. Len(list) /\ Len(list) \in Nat
    OBVIOUS
  <2>2. PICK i \in 1 .. Len(list) : list[i] = a /\ \A j \in 1 .. i : list[j] # b
    BY <1>4, <2>1 DEF Ahead
  <2>3. Contains(s[i], a)
    BY <1>4, <2>2 DEF Passes
  <2>4. \A j \in 1 .. i : j \in 1 .. Len(list)
    BY <2>1
  <2>5. \A j \in 1 .. i : ~Contains(s[j], b)
    BY <1>4, <2>2, <2>4, Zenon DEF Passes
  <2>6. i \in 1 .. Len(s)
    OBVIOUS
  <2>7. Ahead(FlattenSeq(s), a, b)
    BY <2>3, <2>5, <2>6, FlatAhead, Zenon
  <2> QED BY <1>1, <2>7, UniqAhead
<1> QED BY <1>2, <1>3, <1>4 DEF Ordered

\* One rule after another.
LEMMA OrderedThrough ==
  ASSUME NEW l, NEW m, NEW n, Ordered(l, m), Ordered(m, n) PROVE Ordered(l, n)
BY DEF Ordered

-----------------------------------------------------------------------------
(* 14-to-15, 15-to-16 and 12-to-13                                         *)

\* QuicV1, protocol by protocol.
LEMMA QuicV1Is ==
  ASSUME NEW a \in Address
  PROVE  /\ QuicV1(a) \in Address /\ Len(QuicV1(a)) = Len(a)
         /\ \A i \in 1 .. Len(a) : QuicV1(a)[i] = IF a[i] = "quic" THEN "quic-v1" ELSE a[i]
<1> DEFINE S == {i \in DOMAIN a : a[i] = "quic"}
<1>1. a \in Seq(Names) /\ "quic-v1" \in Names
  BY NamesAssumption DEF Address
<1>2. \A i \in 1 .. Len(a) : i \in S <=> a[i] = "quic"
  BY <1>1
<1>3. QuicV1(a) = Subst(a, S, <<"quic-v1">>)
  BY DEF QuicV1
<1> HIDE DEF S
<1>4. /\ Subst(a, S, <<"quic-v1">>) \in Seq(Names) /\ Len(Subst(a, S, <<"quic-v1">>)) = Len(a)
      /\ \A i \in 1 .. Len(a) : /\ i \in S => Subst(a, S, <<"quic-v1">>)[i] = "quic-v1"
                                /\ i \notin S => Subst(a, S, <<"quic-v1">>)[i] = a[i]
  BY <1>1, SubstOne
<1> QED BY <1>2, <1>3, <1>4 DEF Address

\* Has is Contains, of an address.
LEMMA HasIn == ASSUME NEW a \in Address, NEW p PROVE Has(a, p) <=> Contains(a, p)
BY DEF Has, Contains, Address

\* What a rule about single protocols can change has one that it writes.
LEMMA QuicV1Facts ==
  ASSUME NEW a \in Address
  PROVE  /\ QuicV1(a) \in Address
         /\ ~Has(QuicV1(a), "quic")
         /\ ~Has(a, "quic") => QuicV1(a) = a
         /\ Has(a, "quic") => Has(QuicV1(a), "quic-v1")
         /\ QuicV1(a) = Junk => a = Junk
<1> USE DEF Address
<1>1. /\ QuicV1(a) \in Seq(Names) /\ Len(QuicV1(a)) = Len(a)
      /\ \A i \in 1 .. Len(a) : QuicV1(a)[i] = IF a[i] = "quic" THEN "quic-v1" ELSE a[i]
  BY QuicV1Is
<1>2. DOMAIN a = 1 .. Len(a) /\ DOMAIN QuicV1(a) = 1 .. Len(a) /\ Len(a) \in Nat
  BY <1>1
<1>3. ~Has(QuicV1(a), "quic")
  BY <1>1, <1>2 DEF Has
<1>4. ASSUME ~Has(a, "quic") PROVE QuicV1(a) = a
  <2>1. \A i \in 1 .. Len(QuicV1(a)) : QuicV1(a)[i] = a[i]
    BY <1>1, <1>2, <1>4 DEF Has
  <2> QED BY <1>1, <2>1, SameSeq
<1>5. Has(a, "quic") => Has(QuicV1(a), "quic-v1")
  BY <1>1, <1>2 DEF Has
<1>6. ASSUME QuicV1(a) = Junk PROVE a = Junk
  <2>1. Len(a) = 1 /\ QuicV1(a)[1] = "#"
    BY <1>1, <1>6 DEF Junk
  <2>2. a[1] = "#"
    BY <1>1, <2>1
  <2> QED BY <2>1, <2>2 DEF Junk
<1> QED BY <1>1, <1>3, <1>4, <1>5, <1>6

\* What has become of an address stays.
LEMMA QuicV1Twice ==
  ASSUME NEW a \in Address PROVE QuicV1(QuicV1(a)) = QuicV1(a)
BY QuicV1Facts

\* No other address becomes one that no rule is about.
LEMMA QuicV1Untouched ==
  ASSUME NEW a \in Address, NEW c, Untouched(c) PROVE QuicV1(a) = c <=> a = c
BY QuicV1Facts DEF Untouched

\* What 14-to-15 makes of a list: the counterpart of each, once, in their order.
LEMMA ReplaceQuicRule ==
  ASSUME NEW list \in Seq(Address)
  PROVE  /\ ReplaceQuic(list) \in Seq(Address) /\ Once(ReplaceQuic(list))
         /\ \A x : Contains(ReplaceQuic(list), x) <=> \E k \in 1 .. Len(list) : x = QuicV1(list[k])
         /\ Ordered(list, ReplaceQuic(list))
<1> DEFINE s == [k \in DOMAIN list |-> <<QuicV1(list[k])>>]
<1>1. ReplaceQuic(list) = Uniq(FlattenSeq(s))
  BY DEF ReplaceQuic, MapSeq
<1>2. Len(list) \in Nat /\ DOMAIN list = 1 .. Len(list) /\ \A k \in 1 .. Len(list) : list[k] \in Address
  OBVIOUS
<1>3. \A k \in 1 .. Len(list) : <<QuicV1(list[k])>> \in Seq(Address)
  BY <1>2, QuicV1Facts
<1>4. s \in [1 .. Len(list) -> Seq(Address)]
  BY <1>2, <1>3
<1>5. s \in Seq(Seq(Address)) /\ Len(s) = Len(list)
  BY <1>2, <1>4
<1>6. \A k \in 1 .. Len(list) : s[k] = <<QuicV1(list[k])>>
  BY <1>2
<1> HIDE DEF s
<1>7. \A k \in 1 .. Len(list) : \A x : Contains(s[k], x) <=> x = QuicV1(list[k])
  BY <1>6, ContainsOne
<1>8. Passes(list, s)
  <2> SUFFICES ASSUME NEW k \in 1 .. Len(list), NEW c, Untouched(c)
               PROVE  (list[k] = c => Contains(s[k], c)) /\ (Contains(s[k], c) => list[k] = c)
    BY DEF Passes
  <2>1. QuicV1(list[k]) = c <=> list[k] = c
    BY <1>2, QuicV1Untouched
  <2> QED BY <1>7, <2>1
<1>9. /\ ReplaceQuic(list) \in Seq(Address) /\ Once(ReplaceQuic(list))
      /\ \A x : Contains(ReplaceQuic(list), x) <=> \E k \in 1 .. Len(list) : Contains(s[k], x)
      /\ Ordered(list, ReplaceQuic(list))
  BY <1>1, <1>5, <1>8, Rewritten
<1> QED BY <1>7, <1>9

\* The end of an address is replaced.
LEMMA EndReplaced ==
  ASSUME NEW a \in Address, a # <<>>, NEW new \in Address
  PROVE  Subst(a, {Len(a)}, new) = Front(a) \o new /\ Front(a) \o new \in Address
<1>1. a \in Seq(Names) /\ new \in Seq(Names)
  BY DEF Address
<1>2. \A i \in 1 .. Len(a) : i \in {Len(a)} <=> i = Len(a)
  OBVIOUS
<1>3. Front(a) \in Seq(Names)
  BY <1>1, FrontOf
<1> QED BY <1>1, <1>2, <1>3, SubstLast, Joined DEF Address

\* The protocols of two parts of an address.
LEMMA JoinedHas ==
  ASSUME NEW a \in Address, NEW b \in Address
  PROVE  /\ a \o b \in Address
         /\ \A p : Has(a \o b, p) <=> Has(a, p) \/ Has(b, p)
<1>1. a \in Seq(Names) /\ b \in Seq(Names)
  BY DEF Address
<1>2. /\ a \o b \in Seq(Names) /\ Len(a \o b) = Len(a) + Len(b)
      /\ \A j \in 1 .. Len(a) : (a \o b)[j] = a[j]
      /\ \A j \in 1 .. Len(b) : (a \o b)[Len(a) + j] = b[j]
  BY <1>1, Joined
<1>3. /\ DOMAIN a = 1 .. Len(a) /\ DOMAIN b = 1 .. Len(b) /\ DOMAIN (a \o b) = 1 .. (Len(a) + Len(b))
      /\ Len(a) \in Nat /\ Len(b) \in Nat
  BY <1>1, <1>2
<1>4. ASSUME NEW p, Has(a \o b, p) PROVE Has(a, p) \/ Has(b, p)
  <2>1. PICK i \in 1 .. (Len(a) + Len(b)) : (a \o b)[i] = p
    BY <1>3, <1>4 DEF Has
  <2>2. CASE i \in 1 .. Len(a)
    BY <1>2, <1>3, <2>1, <2>2 DEF Has
  <2>3. CASE i \notin 1 .. Len(a)
    <3>1. PICK j \in 1 .. Len(b) : i = Len(a) + j
      <4>1. i - Len(a) \in 1 .. Len(b) /\ Len(a) + (i - Len(a)) = i
        BY <1>3, <2>3
      <4> QED BY <4>1
    <3> QED BY <1>2, <1>3, <2>1, <3>1 DEF Has
  <2> QED BY <2>2, <2>3
<1>5. ASSUME NEW p, Has(a, p) PROVE Has(a \o b, p)
  <2>1. PICK i \in 1 .. Len(a) : a[i] = p
    BY <1>3, <1>5 DEF Has
  <2>2. i \in 1 .. (Len(a) + Len(b)) /\ (a \o b)[i] = p
    BY <1>2, <1>3, <2>1
  <2> QED BY <1>3, <2>2 DEF Has
<1>6. ASSUME NEW p, Has(b, p) PROVE Has(a \o b, p)
  <2>1. PICK i \in 1 .. Len(b) : b[i] = p
    BY <1>3, <1>6 DEF Has
  <2>2. Len(a) + i \in 1 .. (Len(a) + Len(b)) /\ (a \o b)[Len(a) + i] = p
    BY <1>2, <1>3, <2>1
  <2> QED BY <1>3, <2>2 DEF Has
<1> QED BY <1>2, <1>4, <1>5, <1>6 DEF Address

\* The end of the end.
LEMMA JoinedEnds ==
  ASSUME NEW a \in Address, NEW b \in Address, NEW p, Ends(b, p)
  PROVE  Ends(a \o b, p) /\ Has(a \o b, p)
<1>1. a \in Seq(Names) /\ b \in Seq(Names)
  BY DEF Address
<1>2. /\ a \o b \in Seq(Names) /\ Len(a \o b) = Len(a) + Len(b)
      /\ \A j \in 1 .. Len(b) : (a \o b)[Len(a) + j] = b[j]
  BY <1>1, Joined
<1>3. Len(b) \in 1 .. Len(b) /\ b[Len(b)] = p /\ Len(a) \in Nat /\ Len(b) \in Nat
  BY <1>1 DEF Ends
<1>4. (a \o b)[Len(a) + Len(b)] = p /\ Len(a \o b) \in 1 .. Len(a \o b)
  BY <1>2, <1>3
<1>5. a \o b # <<>> /\ DOMAIN (a \o b) = 1 .. Len(a \o b)
  BY <1>2, <1>4
<1> QED BY <1>2, <1>4, <1>5 DEF Ends, Has

\* What the rules write.
LEMMA Literals ==
  /\ <<"webrtc-direct">> \in Address /\ Ends(<<"webrtc-direct">>, "webrtc-direct")
  /\ <<"udp", "quic">> \in Address /\ Ends(<<"udp", "quic">>, "quic")
  /\ <<"quic-v1">> \in Address /\ Contains(<<"quic-v1">>, "quic-v1")
  /\ <<"quic-v1", "webtransport">> \in Address /\ Contains(<<"quic-v1", "webtransport">>, "quic-v1")
  /\ Ends(<<"quic-v1", "webtransport">>, "webtransport")
BY NamesAssumption DEF Address, Ends, Contains

\* 15-to-16
LEMMA AddWebrtcRule ==
  ASSUME NEW list \in Seq(Address)
  PROVE  /\ AddWebrtc(list) \in Seq(Address) /\ Once(AddWebrtc(list))
         /\ \A x : Contains(AddWebrtc(list), x) <=>
                   \E k \in 1 .. Len(list) :
                     \/ x = list[k]
                     \/ Ends(list[k], "quic-v1") /\ x = Front(list[k]) \o <<"webrtc-direct">>
         /\ Ordered(list, AddWebrtc(list))
<1> DEFINE Direct(a) == Subst(a, {Len(a)}, <<"webrtc-direct">>)
           s == [k \in DOMAIN list |->
                   IF Ends(list[k], "quic-v1") THEN <<Direct(list[k]), list[k]>> ELSE <<list[k]>>]
<1>1. AddWebrtc(list) = Uniq(FlattenSeq(s))
  BY DEF AddWebrtc, MapSeq
<1> HIDE DEF Direct
<1>2. Len(list) \in Nat /\ DOMAIN list = 1 .. Len(list) /\ \A k \in 1 .. Len(list) : list[k] \in Address
  OBVIOUS
<1>3. ASSUME NEW k \in 1 .. Len(list), Ends(list[k], "quic-v1")
      PROVE  Direct(list[k]) = Front(list[k]) \o <<"webrtc-direct">> /\ Direct(list[k]) \in Address
  <2>1. PICK new \in Address : new = <<"webrtc-direct">>
    BY Literals
  <2>2. list[k] \in Address /\ list[k] # <<>>
    BY <1>2, <1>3 DEF Ends
  <2>3. /\ Subst(list[k], {Len(list[k])}, new) = Front(list[k]) \o new
        /\ Front(list[k]) \o new \in Address
    BY <2>2, EndReplaced
  <2> QED BY <2>1, <2>3 DEF Direct
<1>4. \A k \in 1 .. Len(list) :
         (IF Ends(list[k], "quic-v1") THEN <<Direct(list[k]), list[k]>> ELSE <<list[k]>>) \in Seq(Address)
  BY <1>2, <1>3
<1>5. s \in [1 .. Len(list) -> Seq(Address)]
  BY <1>2, <1>4
<1>6. s \in Seq(Seq(Address)) /\ Len(s) = Len(list)
  BY <1>2, <1>5
<1>7. \A k \in 1 .. Len(list) :
         s[k] = IF Ends(list[k], "quic-v1") THEN <<Direct(list[k]), list[k]>> ELSE <<list[k]>>
  BY <1>2
<1> HIDE DEF s
<1>8. ASSUME NEW k \in 1 .. Len(list), NEW x
      PROVE  Contains(s[k], x) <=> \/ x = list[k]
                                   \/ Ends(list[k], "quic-v1") /\ x = Front(list[k]) \o <<"webrtc-direct">>
  <2>1. CASE Ends(list[k], "quic-v1")
    <3>1. s[k] = <<Direct(list[k]), list[k]>>
      BY <1>7, <2>1
    <3>2. Contains(s[k], x) <=> x = Direct(list[k]) \/ x = list[k]
      BY <3>1, ContainsPair
    <3> QED BY <1>3, <2>1, <3>2
  <2>2. CASE ~Ends(list[k], "quic-v1")
    <3>1. s[k] = <<list[k]>>
      BY <1>7, <2>2
    <3>2. Contains(s[k], x) <=> x = list[k]
      BY <3>1, ContainsOne
    <3> QED BY <2>2, <3>2
  <2> QED BY <2>1, <2>2
<1>9. Passes(list, s)
  <2> SUFFICES ASSUME NEW k \in 1 .. Len(list), NEW c, Untouched(c)
               PROVE  (list[k] = c => Contains(s[k], c)) /\ (Contains(s[k], c) => list[k] = c)
    BY DEF Passes
  <2>1. ASSUME Ends(list[k], "quic-v1") PROVE c # Front(list[k]) \o <<"webrtc-direct">>
    <3>1. list[k] \in Seq(Names) /\ list[k] # <<>>
      BY <1>2, <2>1 DEF Ends, Address
    <3>2. Front(list[k]) \in Address
      BY <3>1, FrontOf DEF Address
    <3>3. Has(Front(list[k]) \o <<"webrtc-direct">>, "webrtc-direct")
      BY <3>2, JoinedEnds, Literals
    <3> QED BY <3>3 DEF Untouched
  <2> QED BY <1>8, <2>1
<1>10. /\ AddWebrtc(list) \in Seq(Address) /\ Once(AddWebrtc(list))
       /\ \A x : Contains(AddWebrtc(list), x) <=> \E k \in 1 .. Len(list) : Contains(s[k], x)
       /\ Ordered(list, AddWebrtc(list))
  BY <1>1, <1>6, <1>9, Rewritten
<1> QED BY <1>8, <1>10

\* 12-to-13, with add
LEMMA PatternAddRule ==
  ASSUME NEW list \in Seq(Address), NEW protocol, NEW new \in Address, Contains(new, "quic-v1"),
         NEW notBefore
  PROVE  /\ PatternAdd(list, protocol, new, notBefore) \in Seq(Address)
         /\ Once(PatternAdd(list, protocol, new, notBefore))
         /\ \A x : Contains(PatternAdd(list, protocol, new, notBefore), x) <=>
                   \E k \in 1 .. Len(list) :
                     x = list[k] \/ x = Subst(list[k], Scan(list[k], protocol, notBefore), new)
         /\ Ordered(list, PatternAdd(list, protocol, new, notBefore))
<1> DEFINE New(a) == Subst(a, Scan(a, protocol, notBefore), new)
           s == [k \in DOMAIN list |-> <<list[k], New(list[k])>>]
           r == PatternAdd(list, protocol, new, notBefore)
<1>1. r = Uniq(FlattenSeq(s))
  BY DEF PatternAdd, MapSeq
<1>2. Len(list) \in Nat /\ DOMAIN list = 1 .. Len(list) /\ \A k \in 1 .. Len(list) : list[k] \in Address
  OBVIOUS
<1>3. ASSUME NEW a \in Address
      PROVE  New(a) \in Address /\ (New(a) = a \/ Has(New(a), "quic-v1"))
  <2>1. a \in Seq(Names) /\ new \in Seq(Names)
    BY DEF Address
  <2> DEFINE S == Scan(a, protocol, notBefore)
  <2>2. /\ Subst(a, S, new) \in Seq(Names)
        /\ \A p : Contains(Subst(a, S, new), p) <=>
                  \E i \in 1 .. Len(a) : IF i \in S THEN Contains(new, p) ELSE a[i] = p
    BY <2>1, SubstHas
  <2>3. CASE \A i \in 1 .. Len(a) : i \notin S
    BY <2>1, <2>2, <2>3, SubstNone DEF Address
  <2>4. CASE \E i \in 1 .. Len(a) : i \in S
    <3>1. Contains(Subst(a, S, new), "quic-v1")
      BY <2>2, <2>4
    <3> QED BY <2>2, <3>1, HasIn DEF Address
  <2> QED BY <2>3, <2>4
<1> HIDE DEF New, r
<1>4. \A k \in 1 .. Len(list) : <<list[k], New(list[k])>> \in Seq(Address)
  BY <1>2, <1>3
<1>5. s \in [1 .. Len(list) -> Seq(Address)]
  BY <1>2, <1>4
<1>6. s \in Seq(Seq(Address)) /\ Len(s) = Len(list)
  BY <1>2, <1>5
<1>7. \A k \in 1 .. Len(list) : s[k] = <<list[k], New(list[k])>>
  BY <1>2
<1> HIDE DEF s
<1>8. \A k \in 1 .. Len(list) : \A x : Contains(s[k], x) <=> x = list[k] \/ x = New(list[k])
  <2> SUFFICES ASSUME NEW k \in 1 .. Len(list)
               PROVE  \A x : Contains(s[k], x) <=> x = list[k] \/ x = New(list[k])
    OBVIOUS
  <2>1. s[k] = <<list[k], New(list[k])>>
    BY <1>7
  <2> QED BY <2>1, ContainsPair
<1>9. Passes(list, s)
  <2> SUFFICES ASSUME NEW k \in 1 .. Len(list), NEW c, Untouched(c)
               PROVE  (list[k] = c => Contains(s[k], c)) /\ (Contains(s[k], c) => list[k] = c)
    BY DEF Passes
  <2>1. New(list[k]) = c => list[k] = c
    BY <1>2, <1>3 DEF Untouched
  <2> QED BY <1>8, <2>1
<1>a. PICK res : res = r
  OBVIOUS
<1>b. res = Uniq(FlattenSeq(s))
  BY <1>1, <1>a
<1>10. /\ res \in Seq(Address) /\ Once(res)
       /\ \A x : Contains(res, x) <=> \E k \in 1 .. Len(list) : Contains(s[k], x)
       /\ Ordered(list, res)
  BY <1>b, <1>6, <1>9, Rewritten
<1>11. /\ r \in Seq(Address) /\ Once(r) /\ Ordered(list, r)
       /\ \A x : Contains(r, x) <=> \E k \in 1 .. Len(list) : x = list[k] \/ x = New(list[k])
  BY <1>8, <1>10, <1>a
<1> QED BY <1>11 DEF r, New

\* What becomes of /quic/webtransport.
OldWebtransport(a) ==
  Subst(a, {i \in DOMAIN a : a[i] = "quic" /\ i < Len(a) /\ a[i + 1] = "webtransport"}, <<"quic-v1">>)

\* Protocol by protocol.
LEMMA OldWebtransportIs ==
  ASSUME NEW a \in Address
  PROVE  /\ OldWebtransport(a) \in Address /\ Len(OldWebtransport(a)) = Len(a)
         /\ \A i \in 1 .. Len(a) :
              \/ OldWebtransport(a)[i] = a[i]
              \/ a[i] = "quic" /\ i < Len(a) /\ OldWebtransport(a)[i] = "quic-v1"
<1> DEFINE S == {i \in DOMAIN a : a[i] = "quic" /\ i < Len(a) /\ a[i + 1] = "webtransport"}
<1>1. a \in Seq(Names) /\ "quic-v1" \in Names
  BY NamesAssumption DEF Address
<1>2. \A i \in 1 .. Len(a) : i \in S => a[i] = "quic" /\ i < Len(a)
  BY <1>1
<1>3. OldWebtransport(a) = Subst(a, S, <<"quic-v1">>)
  BY DEF OldWebtransport
<1> HIDE DEF S
<1>4. /\ Subst(a, S, <<"quic-v1">>) \in Seq(Names) /\ Len(Subst(a, S, <<"quic-v1">>)) = Len(a)
      /\ \A i \in 1 .. Len(a) : /\ i \in S => Subst(a, S, <<"quic-v1">>)[i] = "quic-v1"
                                /\ i \notin S => Subst(a, S, <<"quic-v1">>)[i] = a[i]
  BY <1>1, SubstOne
<1> QED BY <1>2, <1>3, <1>4 DEF Address

\* It changes /quic only, before the end, and to what QuicV1 would make of it.
LEMMA OldWebtransportFacts ==
  ASSUME NEW a \in Address
  PROVE  /\ OldWebtransport(a) \in Address
         /\ OldWebtransport(a) = a \/ (Has(a, "quic") /\ Has(OldWebtransport(a), "quic-v1"))
         /\ QuicV1(OldWebtransport(a)) = QuicV1(a)
         /\ \A p : Ends(OldWebtransport(a), p) <=> Ends(a, p)
<1> DEFINE w == OldWebtransport(a)
<1>1. /\ w \in Address /\ Len(w) = Len(a) /\ w \in Seq(Names) /\ a \in Seq(Names)
      /\ \A i \in 1 .. Len(a) :
           w[i] = a[i] \/ (a[i] = "quic" /\ i < Len(a) /\ w[i] = "quic-v1")
  BY OldWebtransportIs DEF Address
<1> HIDE DEF w
<1>2. DOMAIN a = 1 .. Len(a) /\ DOMAIN w = 1 .. Len(a) /\ Len(a) \in Nat
  BY <1>1
<1>3. w = a \/ (Has(a, "quic") /\ Has(w, "quic-v1"))
  <2>1. CASE \A i \in 1 .. Len(a) : w[i] = a[i]
    BY <1>1, <2>1, SameSeq
  <2>2. CASE \E i \in 1 .. Len(a) : w[i] # a[i]
    BY <1>1, <1>2, <2>2 DEF Has
  <2> QED BY <2>1, <2>2
<1>4. QuicV1(w) = QuicV1(a)
  <2>1. /\ QuicV1(a) \in Address /\ Len(QuicV1(a)) = Len(a)
        /\ \A i \in 1 .. Len(a) : QuicV1(a)[i] = IF a[i] = "quic" THEN "quic-v1" ELSE a[i]
    BY QuicV1Is
  <2>2. /\ QuicV1(w) \in Address /\ Len(QuicV1(w)) = Len(a)
        /\ \A i \in 1 .. Len(a) : QuicV1(w)[i] = IF w[i] = "quic" THEN "quic-v1" ELSE w[i]
    BY <1>1, QuicV1Is
  <2>3. \A i \in 1 .. Len(a) : QuicV1(w)[i] = QuicV1(a)[i]
    BY <1>1, <2>1, <2>2
  <2> QED BY <2>1, <2>2, <2>3, SameSeq DEF Address
<1>5. \A p : Ends(w, p) <=> Ends(a, p)
  <2>1. w = <<>> <=> a = <<>>
    BY <1>1
  <2>2. a # <<>> => w[Len(a)] = a[Len(a)]
    <3>1. a # <<>> => Len(a) \in 1 .. Len(a) /\ ~(Len(a) < Len(a))
      BY <1>1
    <3> QED BY <1>1, <3>1
  <2> QED BY <1>1, <2>1, <2>2 DEF Ends
<1> QED BY <1>1, <1>3, <1>4, <1>5 DEF w

\* 12-to-13, without add
LEMMA ReplaceWebtransportRule ==
  ASSUME NEW list \in Seq(Address)
  PROVE  /\ ReplaceWebtransport(list) \in Seq(Address) /\ Once(ReplaceWebtransport(list))
         /\ \A x : Contains(ReplaceWebtransport(list), x) <=>
                   \E k \in 1 .. Len(list) : list[k] # Junk /\ x = OldWebtransport(list[k])
         /\ Ordered(list, ReplaceWebtransport(list))
<1> DEFINE s == [k \in DOMAIN list |-> IF list[k] = Junk THEN <<>> ELSE <<OldWebtransport(list[k])>>]
<1>1. ReplaceWebtransport(list) = Uniq(FlattenSeq(s))
  BY DEF ReplaceWebtransport, MapSeq, OldWebtransport
<1>2. Len(list) \in Nat /\ DOMAIN list = 1 .. Len(list) /\ \A k \in 1 .. Len(list) : list[k] \in Address
  OBVIOUS
<1>3. \A k \in 1 .. Len(list) : <<OldWebtransport(list[k])>> \in Seq(Address) /\ <<>> \in Seq(Address)
  BY <1>2, OldWebtransportFacts
<1>4. s \in [1 .. Len(list) -> Seq(Address)]
  BY <1>2, <1>3
<1>5. s \in Seq(Seq(Address)) /\ Len(s) = Len(list)
  BY <1>2, <1>4
<1>6. \A k \in 1 .. Len(list) : s[k] = IF list[k] = Junk THEN <<>> ELSE <<OldWebtransport(list[k])>>
  BY <1>2
<1> HIDE DEF s
<1>7. ASSUME NEW k \in 1 .. Len(list), NEW x
      PROVE  Contains(s[k], x) <=> list[k] # Junk /\ x = OldWebtransport(list[k])
  <2>1. CASE list[k] = Junk
    <3>1. s[k] = <<>>
      BY <1>6, <2>1
    <3> QED BY <2>1, <3>1, ContainsNone
  <2>2. CASE list[k] # Junk
    <3>1. s[k] = <<OldWebtransport(list[k])>>
      BY <1>6, <2>2
    <3> QED BY <2>2, <3>1, ContainsOne
  <2> QED BY <2>1, <2>2
<1>8. Passes(list, s)
  <2> SUFFICES ASSUME NEW k \in 1 .. Len(list), NEW c, Untouched(c)
               PROVE  (list[k] = c => Contains(s[k], c)) /\ (Contains(s[k], c) => list[k] = c)
    BY DEF Passes
  <2>1. OldWebtransport(list[k]) = list[k] \/ (Has(list[k], "quic") /\ Has(OldWebtransport(list[k]), "quic-v1"))
    BY <1>2, OldWebtransportFacts
  <2>2. c # Junk /\ ~Has(c, "quic") /\ ~Has(c, "quic-v1")
    BY DEF Untouched
  <2> QED BY <1>7, <2>1, <2>2
<1>9. /\ ReplaceWebtransport(list) \in Seq(Address) /\ Once(ReplaceWebtransport(list))
      /\ \A x : Contains(ReplaceWebtransport(list), x) <=> \E k \in 1 .. Len(list) : Contains(s[k], x)
      /\ Ordered(list, ReplaceWebtransport(list))
  BY <1>1, <1>5, <1>8, Rewritten
<1> QED BY <1>7, <1>9

\* Two lists, one after the other.
LEMMA JoinedIn ==
  ASSUME NEW A, NEW s \in Seq(A), NEW t \in Seq(A)
  PROVE  \A x : Contains(s \o t, x) <=> Contains(s, x) \/ Contains(t, x)
<1>2. /\ s \o t \in Seq(A) /\ Len(s \o t) = Len(s) + Len(t) /\ Len(s) \in Nat /\ Len(t) \in Nat
      /\ \A j \in 1 .. Len(s) : (s \o t)[j] = s[j]
      /\ \A j \in 1 .. Len(t) : (s \o t)[Len(s) + j] = t[j]
  BY Joined
<1>4. ASSUME NEW p, Contains(s \o t, p) PROVE Contains(s, p) \/ Contains(t, p)
  <2>1. PICK i \in 1 .. (Len(s) + Len(t)) : (s \o t)[i] = p
    BY <1>2, <1>4 DEF Contains
  <2>2. CASE i \in 1 .. Len(s)
    BY <1>2, <2>1, <2>2 DEF Contains
  <2>3. CASE i \notin 1 .. Len(s)
    <3>1. i - Len(s) \in 1 .. Len(t) /\ Len(s) + (i - Len(s)) = i
      BY <1>2, <2>3
    <3>2. t[i - Len(s)] = p
      BY <1>2, <2>1, <3>1
    <3> QED BY <3>1, <3>2 DEF Contains
  <2> QED BY <2>2, <2>3
<1>5. ASSUME NEW p, Contains(s, p) PROVE Contains(s \o t, p)
  <2>1. PICK i \in 1 .. Len(s) : s[i] = p
    BY <1>5 DEF Contains
  <2>2. i \in 1 .. Len(s \o t) /\ (s \o t)[i] = p
    BY <1>2, <2>1
  <2> QED BY <2>2 DEF Contains
<1>6. ASSUME NEW p, Contains(t, p) PROVE Contains(s \o t, p)
  <2>1. PICK i \in 1 .. Len(t) : t[i] = p
    BY <1>6 DEF Contains
  <2>2. Len(s) + i \in 1 .. Len(s \o t) /\ (s \o t)[Len(s) + i] = p
    BY <1>2, <2>1
  <2> QED BY <2>2 DEF Contains
<1> QED BY <1>4, <1>5, <1>6

\* What is ahead in the first list is ahead in both.
LEMMA JoinedAhead ==
  ASSUME NEW A, NEW s \in Seq(A), NEW t \in Seq(A), NEW a, NEW b, Ahead(s, a, b)
  PROVE  Ahead(s \o t, a, b)
<1>1. PICK i \in 1 .. Len(s) : s[i] = a /\ \A j \in 1 .. i : s[j] # b
  BY DEF Ahead
<1>2. /\ s \o t \in Seq(A) /\ Len(s \o t) = Len(s) + Len(t) /\ Len(s) \in Nat /\ Len(t) \in Nat
      /\ \A j \in 1 .. Len(s) : (s \o t)[j] = s[j]
  BY Joined
<1>3. i \in 1 .. Len(s \o t) /\ DOMAIN (s \o t) = 1 .. Len(s \o t) /\ (s \o t)[i] = a
  BY <1>1, <1>2
<1>4. \A j \in 1 .. i : (s \o t)[j] # b
  <2> TAKE j \in 1 .. i
  <2>1. j \in 1 .. Len(s)
    BY <1>2
  <2> QED BY <1>1, <1>2, <2>1
<1> QED BY <1>3, <1>4 DEF Ahead

\* Lists that share nothing have nothing twice together.
LEMMA JoinedOnce ==
  ASSUME NEW A, NEW s \in Seq(A), NEW t \in Seq(A), Once(s), Once(t),
         \A x : Contains(s, x) /\ Contains(t, x) => x = Junk
  PROVE  Once(s \o t)
<1>1. /\ s \o t \in Seq(A) /\ Len(s \o t) = Len(s) + Len(t) /\ Len(s) \in Nat /\ Len(t) \in Nat
      /\ \A j \in 1 .. Len(s) : (s \o t)[j] = s[j]
      /\ \A j \in 1 .. Len(t) : (s \o t)[Len(s) + j] = t[j]
  BY Joined
<1>2. /\ DOMAIN s = 1 .. Len(s) /\ DOMAIN t = 1 .. Len(t) /\ DOMAIN (s \o t) = 1 .. (Len(s) + Len(t))
  BY <1>1
<1>3. \A i \in 1 .. (Len(s) + Len(t)) :
        \/ i \in 1 .. Len(s)
        \/ \E j \in 1 .. Len(t) : i = Len(s) + j
  <2> TAKE i \in 1 .. (Len(s) + Len(t))
  <2>1. CASE i \in 1 .. Len(s)
    BY <2>1
  <2>2. CASE i \notin 1 .. Len(s)
    <3>1. i - Len(s) \in 1 .. Len(t) /\ i = Len(s) + (i - Len(s))
      BY <1>1, <2>2
    <3> QED BY <3>1
  <2> QED BY <2>1, <2>2
<1>4. ASSUME NEW j \in 1 .. (Len(s) + Len(t)), NEW k \in 1 .. (Len(s) + Len(t)),
             (s \o t)[j] = (s \o t)[k], (s \o t)[j] # Junk
      PROVE  j = k
  <2>1. CASE j \in 1 .. Len(s) /\ k \in 1 .. Len(s)
    BY <1>1, <1>2, <1>4, <2>1 DEF Once
  <2>2. CASE j \in 1 .. Len(s) /\ k \notin 1 .. Len(s)
    <3>1. PICK i \in 1 .. Len(t) : k = Len(s) + i
      BY <1>3, <2>2
    <3>2. s[j] = t[i] /\ s[j] # Junk
      BY <1>1, <1>4, <2>2, <3>1
    <3> QED BY <2>2, <3>2 DEF Contains
  <2>3. CASE j \notin 1 .. Len(s) /\ k \in 1 .. Len(s)
    <3>1. PICK i \in 1 .. Len(t) : j = Len(s) + i
      BY <1>3, <2>3
    <3>2. s[k] = t[i] /\ s[k] # Junk
      BY <1>1, <1>4, <2>3, <3>1
    <3> QED BY <2>3, <3>2 DEF Contains
  <2>4. CASE j \notin 1 .. Len(s) /\ k \notin 1 .. Len(s)
    <3>1. PICK h \in 1 .. Len(t) : j = Len(s) + h
      BY <1>3, <2>4
    <3>2. PICK i \in 1 .. Len(t) : k = Len(s) + i
      BY <1>3, <2>4
    <3>3. t[h] = t[i] /\ t[h] # Junk
      BY <1>1, <1>4, <3>1, <3>2
    <3> QED BY <1>2, <3>1, <3>2, <3>3 DEF Once
  <2> QED BY <2>1, <2>2, <2>3, <2>4
<1> QED BY <1>2, <1>4 DEF Once

\* Addresses with the same end are told apart by what is before it.
LEMMA FrontInjective ==
  ASSUME NEW a \in Address, NEW b \in Address, NEW p, Ends(a, p), Ends(b, p), NEW t \in Address,
         Front(a) \o t = Front(b) \o t
  PROVE  a = b
<1>1. a \in Seq(Names) /\ b \in Seq(Names) /\ t \in Seq(Names)
  BY DEF Address
<1>2. /\ Len(a) \in Nat \ {0} /\ Len(b) \in Nat \ {0} /\ a[Len(a)] = p /\ b[Len(b)] = p
      /\ a # <<>> /\ b # <<>> /\ Len(t) \in Nat
  BY <1>1 DEF Ends
<1>3. /\ Front(a) \in Seq(Names) /\ Len(Front(a)) = Len(a) - 1
      /\ \A i \in 1 .. (Len(a) - 1) : Front(a)[i] = a[i]
  BY <1>1, <1>2, FrontOf
<1>4. /\ Front(b) \in Seq(Names) /\ Len(Front(b)) = Len(b) - 1
      /\ \A i \in 1 .. (Len(b) - 1) : Front(b)[i] = b[i]
  BY <1>1, <1>2, FrontOf
<1>5. /\ Len(Front(a) \o t) = Len(Front(a)) + Len(t)
      /\ \A j \in 1 .. Len(Front(a)) : (Front(a) \o t)[j] = Front(a)[j]
  BY <1>1, <1>3, Joined
<1>6. /\ Len(Front(b) \o t) = Len(Front(b)) + Len(t)
      /\ \A j \in 1 .. Len(Front(b)) : (Front(b) \o t)[j] = Front(b)[j]
  BY <1>1, <1>4, Joined
<1>7. Len(a) = Len(b)
  BY <1>2, <1>3, <1>4, <1>5, <1>6
<1>8. \A i \in 1 .. Len(a) : a[i] = b[i]
  <2> TAKE i \in 1 .. Len(a)
  <2>1. CASE i = Len(a)
    BY <1>2, <1>7, <2>1
  <2>2. CASE i # Len(a)
    <3>1. i \in 1 .. (Len(a) - 1)
      BY <1>2, <2>2
    <3> QED BY <1>3, <1>4, <1>5, <1>6, <1>7, <3>1
  <2> QED BY <2>1, <2>2
<1> QED BY <1>1, <1>7, <1>8, SameSeq

-----------------------------------------------------------------------------
(* 9-to-10                                                                 *)

\* What 9-to-10 adds for an address over TCP.
CompanionOf(a) == Front(a) \o <<"udp", "quic">>

\* It is for QUIC, and what Subst makes of the address.
LEMMA CompanionFacts ==
  ASSUME NEW a \in Address, Ends(a, "tcp")
  PROVE  /\ CompanionOf(a) \in Address /\ Ends(CompanionOf(a), "quic") /\ Has(CompanionOf(a), "quic")
         /\ Subst(a, {Len(a)}, <<"udp", "quic">>) = CompanionOf(a)
<1>1. PICK new \in Address : new = <<"udp", "quic">> /\ Ends(new, "quic")
  BY Literals
<1>2. a # <<>> /\ a \in Seq(Names)
  BY DEF Ends, Address
<1>3. Front(a) \in Address
  BY <1>2, FrontOf DEF Address
<1>4. Subst(a, {Len(a)}, new) = Front(a) \o new /\ Front(a) \o new \in Address
  BY <1>2, EndReplaced
<1>5. Ends(Front(a) \o new, "quic") /\ Has(Front(a) \o new, "quic")
  BY <1>1, <1>3, JoinedEnds
<1> QED BY <1>1, <1>4, <1>5 DEF CompanionOf

\* What is no address has no protocol.
LEMMA JunkEnds == ~Ends(Junk, "tcp") /\ ~Ends(Junk, "quic") /\ ~Ends(Junk, "quic-v1") /\ ~Has(Junk, "quic")
BY DEF Ends, Has, Junk

\* What 9-to-10 makes of a list: all that was there, in its place, and then the
\* companion of each listener for TCP; no list has one twice that had no /quic.
LEMMA AddQuicRule ==
  ASSUME NEW list \in Seq(Address)
  PROVE  /\ AddQuic(list) \in Seq(Address)
         /\ \A x : Contains(AddQuic(list), x) <=>
                   \/ Contains(list, x)
                   \/ \E k \in 1 .. Len(list) : Ends(list[k], "tcp") /\ x = CompanionOf(list[k])
         /\ Ordered(list, AddQuic(list))
         /\ Once(list) /\ (\A k \in 1 .. Len(list) : ~Ends(list[k], "quic")) => Once(AddQuic(list))
         /\ (\A k \in 1 .. Len(list) : ~Ends(list[k], "tcp")) => AddQuic(list) = list
<1> DEFINE New(a) == Subst(a, {Len(a)}, <<"udp", "quic">>)
           s == [k \in DOMAIN list |-> IF Ends(list[k], "tcp") THEN <<New(list[k])>> ELSE <<>>]
<1>1. AddQuic(list) = list \o FlattenSeq(s)
  BY DEF AddQuic, MapSeq
<1> HIDE DEF New
<1>2. Len(list) \in Nat /\ DOMAIN list = 1 .. Len(list) /\ \A k \in 1 .. Len(list) : list[k] \in Address
  OBVIOUS
<1>3. \A k \in 1 .. Len(list) : Ends(list[k], "tcp") =>
         /\ New(list[k]) = CompanionOf(list[k]) /\ New(list[k]) \in Address
         /\ Ends(CompanionOf(list[k]), "quic")
  BY <1>2, CompanionFacts DEF New
<1>4. \A k \in 1 .. Len(list) :
         (IF Ends(list[k], "tcp") THEN <<New(list[k])>> ELSE <<>>) \in Seq(Address)
  BY <1>2, <1>3
<1>5. s \in [1 .. Len(list) -> Seq(Address)]
  BY <1>2, <1>4
<1>6. s \in Seq(Seq(Address)) /\ Len(s) = Len(list)
  BY <1>2, <1>5
<1>7. \A k \in 1 .. Len(list) : s[k] = IF Ends(list[k], "tcp") THEN <<New(list[k])>> ELSE <<>>
  BY <1>2
<1> HIDE DEF s
<1>8. ASSUME NEW k \in 1 .. Len(list)
      PROVE  Once(s[k]) /\ \A x : Contains(s[k], x) <=> Ends(list[k], "tcp") /\ x = CompanionOf(list[k])
  <2>1. CASE Ends(list[k], "tcp")
    <3>1. s[k] = <<CompanionOf(list[k])>>
      BY <1>3, <1>7, <2>1
    <3>2. \A x : Contains(s[k], x) <=> x = CompanionOf(list[k])
      BY <3>1, ContainsOne
    <3>3. Once(s[k])
      BY <3>1 DEF Once
    <3> QED BY <2>1, <3>2, <3>3
  <2>2. CASE ~Ends(list[k], "tcp")
    <3>1. s[k] = <<>>
      BY <1>7, <2>2
    <3>2. Once(s[k])
      BY <3>1 DEF Once
    <3> QED BY <2>2, <3>1, <3>2, ContainsNone
  <2> QED BY <2>1, <2>2
<1> DEFINE t == FlattenSeq(s)
<1>9. t \in Seq(Address) /\ \A x : Contains(t, x) <=> \E k \in 1 .. Len(list) : Contains(s[k], x)
  BY <1>6, FlatType, FlatRange
<1>10. \A x : Contains(t, x) <=> \E k \in 1 .. Len(list) : Ends(list[k], "tcp") /\ x = CompanionOf(list[k])
  BY <1>8, <1>9
<1>o. Once(list) => Once(t)
  <2> SUFFICES ASSUME Once(list) PROVE Once(t)
    OBVIOUS
  <2>1. \A k \in 1 .. Len(s) : Once(s[k])
    BY <1>6, <1>8
  <2>2. ASSUME NEW j \in 1 .. Len(s), NEW k \in 1 .. Len(s), NEW x, Contains(s[j], x), Contains(s[k], x)
        PROVE  j = k \/ x = Junk
    <3>1. /\ Ends(list[j], "tcp") /\ Ends(list[k], "tcp")
          /\ Front(list[j]) \o <<"udp", "quic">> = Front(list[k]) \o <<"udp", "quic">>
      BY <1>6, <1>8, <2>2 DEF CompanionOf
    <3>2. PICK new \in Address : new = <<"udp", "quic">>
      BY Literals
    <3>3. /\ list[j] \in Address /\ list[k] \in Address
          /\ Front(list[j]) \o new = Front(list[k]) \o new
      BY <1>2, <1>6, <3>1, <3>2
    <3>4. list[j] = list[k]
      BY <3>1, <3>3, FrontInjective
    <3>5. list[j] # Junk
      BY <3>1, JunkEnds
    <3> QED BY <1>2, <1>6, <3>4, <3>5 DEF Once
  <2> QED BY <1>6, <2>1, <2>2, FlatOnce
<1> HIDE DEF t
<1>11. AddQuic(list) = list \o t
  BY <1>1 DEF t
<1>12. AddQuic(list) \in Seq(Address) /\ \A x : Contains(AddQuic(list), x) <=> Contains(list, x) \/ Contains(t, x)
  BY <1>9, <1>11, Joined, JoinedIn
<1>13. Ordered(list, AddQuic(list))
  BY <1>9, <1>11, JoinedAhead DEF Ordered
<1>14. ASSUME Once(list), \A k \in 1 .. Len(list) : ~Ends(list[k], "quic")
       PROVE  Once(AddQuic(list))
  <2>1. \A x : Contains(list, x) => ~Contains(t, x)
    <3> SUFFICES ASSUME NEW x, Contains(list, x), Contains(t, x) PROVE FALSE
      OBVIOUS
    <3>1. ~Ends(x, "quic")
      BY <1>14 DEF Contains
    <3>2. Ends(x, "quic")
      BY <1>3, <1>10
    <3> QED BY <3>1, <3>2
  <2>2. Once(list \o t)
    BY <1>9, <1>14, <1>o, <2>1, JoinedOnce
  <2> QED BY <1>11, <2>2
<1>15. ASSUME \A k \in 1 .. Len(list) : ~Ends(list[k], "tcp")
       PROVE  AddQuic(list) = list
  <2>1. \A x : ~Contains(t, x)
    BY <1>10, <1>15
  <2>2. t = <<>>
    <3>1. Len(t) = 0
      <4> SUFFICES ASSUME Len(t) # 0 PROVE FALSE
        OBVIOUS
      <4>1. 1 \in 1 .. Len(t)
        BY <1>9
      <4>2. Contains(t, t[1])
        BY <4>1 DEF Contains
      <4> QED BY <2>1, <4>2
    <3> QED BY <1>9, <3>1
  <2>3. list \o t = list
    BY <2>2
  <2> QED BY <1>11, <2>3
<1> QED BY <1>10, <1>12, <1>13, <1>14, <1>15

\* 9-to-10 looks no further than the first that ends in /quic.
LEMMA AnyQuic ==
  ASSUME NEW c, IsLists(c)
  PROVE  LET all == c.swarm \o c.noAnnounce
         IN (\E k \in DOMAIN all : Ends(all[k], "quic")) <=>
              \/ \E k \in 1 .. Len(c.swarm) : Ends(c.swarm[k], "quic")
              \/ \E k \in 1 .. Len(c.noAnnounce) : Ends(c.noAnnounce[k], "quic")
<1> DEFINE all == c.swarm \o c.noAnnounce
<1>1. c.swarm \in Seq(Address) /\ c.noAnnounce \in Seq(Address)
  BY DEF IsLists, Address
<1>2. all \in Seq(Address) /\ \A x : Contains(all, x) <=> Contains(c.swarm, x) \/ Contains(c.noAnnounce, x)
  BY <1>1, Joined, JoinedIn
<1> HIDE DEF all
<1>3. DOMAIN all = 1 .. Len(all)
  BY <1>2
<1>4. (\E k \in DOMAIN all : Ends(all[k], "quic")) <=> \E x : Contains(all, x) /\ Ends(x, "quic")
  BY <1>3 DEF Contains
<1>5. \A l : (\E k \in 1 .. Len(l) : Ends(l[k], "quic")) <=> \E x : Contains(l, x) /\ Ends(x, "quic")
  BY DEF Contains
<1> QED BY <1>2, <1>4, <1>5 DEF all

-----------------------------------------------------------------------------
(* What each rule keeps, as one predicate on a list and what becomes of it *)

\* What every conversion of a list of addresses keeps: the addresses without
\* /quic, the order of those no rule is about, and what 14-to-15 makes of
\* the others.
Keeps(list, r) ==
  /\ \A a \in Address : a # Junk /\ ~Has(a, "quic") /\ Contains(list, a) => Contains(r, a)
  /\ Ordered(list, r)
  /\ \A a \in Address : a # Junk /\ HasLike(list, a) => HasLike(r, a)

\* HasLike, by elements.
LEMMA LikeContains ==
  ASSUME NEW list \in Seq(Address)
  PROVE  \A a : HasLike(list, a) <=> \E x \in Address : Contains(list, x) /\ QuicV1(x) = QuicV1(a)
BY DEF HasLike, Contains

\* A list that stays keeps all.
LEMMA KeepsItself == ASSUME NEW list PROVE Keeps(list, list)
BY DEF Keeps, Ordered

\* What two rules keep they keep together.
LEMMA KeepsThrough ==
  ASSUME NEW l, NEW m, NEW n, Keeps(l, m), Keeps(m, n) PROVE Keeps(l, n)
BY OrderedThrough DEF Keeps

\* A list that has all of the other keeps all.
LEMMA KeepsMore ==
  ASSUME NEW l \in Seq(Address), NEW m \in Seq(Address), Ordered(l, m),
         \A x : Contains(l, x) => Contains(m, x)
  PROVE  Keeps(l, m)
BY LikeContains DEF Keeps

\* Each rule keeps what it should.
LEMMA PatternAddKeeps ==
  ASSUME NEW list \in Seq(Address), NEW protocol, NEW new \in Address, Contains(new, "quic-v1"),
         NEW notBefore
  PROVE  Keeps(list, PatternAdd(list, protocol, new, notBefore))
<1> DEFINE r == PatternAdd(list, protocol, new, notBefore)
<1>1. /\ r \in Seq(Address) /\ Ordered(list, r)
      /\ \A x : Contains(r, x) <=>
                  \E k \in 1 .. Len(list) :
                     x = list[k] \/ x = Subst(list[k], Scan(list[k], protocol, notBefore), new)
  BY PatternAddRule
<1> HIDE DEF r
<1>2. \A x : Contains(list, x) => Contains(r, x)
  BY <1>1 DEF Contains
<1>3. Keeps(list, r)
  BY <1>1, <1>2, KeepsMore
<1> QED BY <1>3 DEF r

\* 12-to-13, for /quic/webtransport.
LEMMA ReplaceWebtransportKeeps ==
  ASSUME NEW list \in Seq(Address)
  PROVE  Keeps(list, ReplaceWebtransport(list))
<1> DEFINE r == ReplaceWebtransport(list)
<1>1. /\ r \in Seq(Address) /\ Ordered(list, r)
      /\ \A x : Contains(r, x) <=> \E k \in 1 .. Len(list) : list[k] # Junk /\ x = OldWebtransport(list[k])
  BY ReplaceWebtransportRule
<1> HIDE DEF r
<1>2. ASSUME NEW a \in Address, a # Junk, ~Has(a, "quic"), Contains(list, a) PROVE Contains(r, a)
  <2>1. OldWebtransport(a) = a
    BY <1>2, OldWebtransportFacts
  <2> QED BY <1>1, <1>2, <2>1 DEF Contains
<1>3. ASSUME NEW a \in Address, a # Junk, HasLike(list, a) PROVE HasLike(r, a)
  <2>1. PICK x \in Address : Contains(list, x) /\ QuicV1(x) = QuicV1(a)
    BY <1>3, LikeContains
  <2>2. x # Junk
    BY <1>3, <2>1, QuicV1Facts, JunkEnds
  <2>3. PICK w \in Address : w = OldWebtransport(x) /\ QuicV1(w) = QuicV1(x)
    BY OldWebtransportFacts
  <2>4. Contains(r, w)
    BY <1>1, <2>1, <2>2, <2>3 DEF Contains
  <2> QED BY <1>1, <2>1, <2>3, <2>4, LikeContains
<1>4. Keeps(list, r)
  BY <1>1, <1>2, <1>3 DEF Keeps
<1> QED BY <1>4 DEF r

\* 14-to-15.
LEMMA ReplaceQuicKeeps ==
  ASSUME NEW list \in Seq(Address)
  PROVE  Keeps(list, ReplaceQuic(list))
<1> DEFINE r == ReplaceQuic(list)
<1>1. /\ r \in Seq(Address) /\ Ordered(list, r)
      /\ \A x : Contains(r, x) <=> \E k \in 1 .. Len(list) : x = QuicV1(list[k])
  BY ReplaceQuicRule
<1> HIDE DEF r
<1>2. ASSUME NEW a \in Address, a # Junk, ~Has(a, "quic"), Contains(list, a) PROVE Contains(r, a)
  <2>1. QuicV1(a) = a
    BY <1>2, QuicV1Facts
  <2> QED BY <1>1, <1>2, <2>1 DEF Contains
<1>3. ASSUME NEW a \in Address, a # Junk, HasLike(list, a) PROVE HasLike(r, a)
  <2>1. PICK x \in Address : Contains(list, x) /\ QuicV1(x) = QuicV1(a)
    BY <1>3, LikeContains
  <2>2. PICK w \in Address : w = QuicV1(x) /\ QuicV1(w) = QuicV1(x)
    BY QuicV1Facts, QuicV1Twice
  <2>3. Contains(r, w)
    BY <1>1, <2>1, <2>2 DEF Contains
  <2> QED BY <1>1, <2>1, <2>2, <2>3, LikeContains
<1>4. Keeps(list, r)
  BY <1>1, <1>2, <1>3 DEF Keeps
<1> QED BY <1>4 DEF r

\* 15-to-16.
LEMMA AddWebrtcKeeps ==
  ASSUME NEW list \in Seq(Address)
  PROVE  Keeps(list, AddWebrtc(list))
<1> DEFINE r == AddWebrtc(list)
<1>1. /\ r \in Seq(Address) /\ Ordered(list, r)
      /\ \A x : Contains(r, x) <=>
                   \E k \in 1 .. Len(list) :
                     \/ x = list[k]
                     \/ Ends(list[k], "quic-v1") /\ x = Front(list[k]) \o <<"webrtc-direct">>
  BY AddWebrtcRule
<1> HIDE DEF r
<1>2. \A x : Contains(list, x) => Contains(r, x)
  BY <1>1 DEF Contains
<1>3. Keeps(list, r)
  BY <1>1, <1>2, KeepsMore
<1> QED BY <1>3 DEF r

\* 9-to-10.
LEMMA AddQuicKeeps ==
  ASSUME NEW list \in Seq(Address)
  PROVE  Keeps(list, AddQuic(list)) /\ \A x : Contains(list, x) => Contains(AddQuic(list), x)
BY AddQuicRule, KeepsMore

\* 12-to-13
LEMMA ConvertQuicAddrsRule ==
  ASSUME NEW list \in Seq(Address)
  PROVE  /\ ConvertQuicAddrs(list) \in Seq(Address) /\ Once(ConvertQuicAddrs(list))
         /\ Keeps(list, ConvertQuicAddrs(list))
<1>1. PICK l1 \in Seq(Address) : l1 = ReplaceWebtransport(list)
  BY ReplaceWebtransportRule
<1>2. PICK v \in Address : v = <<"quic-v1">> /\ Contains(v, "quic-v1")
  BY Literals
<1>3. PICK w \in Address : w = <<"quic-v1", "webtransport">> /\ Contains(w, "quic-v1")
  BY Literals
<1>4. PICK relay : relay = {"p2p-circuit"}
  OBVIOUS
<1>5. PICK relay2 : relay2 = {"p2p-circuit", "webtransport"}
  OBVIOUS
<1>6. PICK l2 \in Seq(Address) : l2 = PatternAdd(l1, "quic", v, relay)
  BY <1>2, PatternAddRule
<1>7. ConvertQuicAddrs(list) = PatternAdd(l2, "quic-v1", w, relay2)
  BY <1>1, <1>2, <1>3, <1>4, <1>5, <1>6 DEF ConvertQuicAddrs
<1>8. PICK l3 \in Seq(Address) : l3 = PatternAdd(l2, "quic-v1", w, relay2) /\ Once(l3)
  BY <1>3, PatternAddRule
<1>9. Keeps(list, l1) /\ Keeps(l1, l2) /\ Keeps(l2, l3)
  BY <1>1, <1>2, <1>3, <1>6, <1>8, ReplaceWebtransportKeeps, PatternAddKeeps
<1>10. Keeps(list, l3)
  BY <1>9, KeepsThrough
<1> QED BY <1>7, <1>8, <1>10

-----------------------------------------------------------------------------
(* A list that has all of another becomes one with all the other becomes   *)

\* All of l is in m.
Covers(m, l) == \A x : Contains(l, x) => Contains(m, x)

\* What each element becomes does not depend on the others.
LEMMA AddQuicCovers ==
  ASSUME NEW l \in Seq(Address), NEW m \in Seq(Address), Covers(m, l)
  PROVE  Covers(AddQuic(m), AddQuic(l))
<1> SUFFICES ASSUME NEW x, Contains(AddQuic(l), x) PROVE Contains(AddQuic(m), x)
  BY DEF Covers
<1>1. CASE Contains(l, x)
  BY <1>1, AddQuicRule DEF Covers
<1>2. CASE \E k \in 1 .. Len(l) : Ends(l[k], "tcp") /\ x = CompanionOf(l[k])
  <2>1. PICK k \in 1 .. Len(l) : Ends(l[k], "tcp") /\ x = CompanionOf(l[k])
    BY <1>2
  <2>2. Contains(l, l[k])
    BY DEF Contains
  <2>3. PICK j \in 1 .. Len(m) : m[j] = l[k]
    BY <2>2 DEF Covers, Contains
  <2> QED BY <2>1, <2>3, AddQuicRule
<1> QED BY <1>1, <1>2, AddQuicRule

\* 12-to-13, with add.
LEMMA PatternAddCovers ==
  ASSUME NEW l \in Seq(Address), NEW m \in Seq(Address), Covers(m, l),
         NEW protocol, NEW new \in Address, Contains(new, "quic-v1"), NEW notBefore
  PROVE  Covers(PatternAdd(m, protocol, new, notBefore), PatternAdd(l, protocol, new, notBefore))
<1> DEFINE New(a) == Subst(a, Scan(a, protocol, notBefore), new)
<1>1. \A x : Contains(PatternAdd(l, protocol, new, notBefore), x) <=>
               \E k \in 1 .. Len(l) : x = l[k] \/ x = New(l[k])
  BY PatternAddRule
<1>2. \A x : Contains(PatternAdd(m, protocol, new, notBefore), x) <=>
               \E k \in 1 .. Len(m) : x = m[k] \/ x = New(m[k])
  BY PatternAddRule
<1> HIDE DEF New
<1>3. \A k \in 1 .. Len(l) : \E j \in 1 .. Len(m) : m[j] = l[k]
  BY DEF Covers, Contains
<1> QED BY <1>1, <1>2, <1>3 DEF Covers

\* 12-to-13, for /quic/webtransport.
LEMMA ReplaceWebtransportCovers ==
  ASSUME NEW l \in Seq(Address), NEW m \in Seq(Address), Covers(m, l)
  PROVE  Covers(ReplaceWebtransport(m), ReplaceWebtransport(l))
<1>1. \A x : Contains(ReplaceWebtransport(l), x) <=>
               \E k \in 1 .. Len(l) : l[k] # Junk /\ x = OldWebtransport(l[k])
  BY ReplaceWebtransportRule
<1>2. \A x : Contains(ReplaceWebtransport(m), x) <=>
               \E k \in 1 .. Len(m) : m[k] # Junk /\ x = OldWebtransport(m[k])
  BY ReplaceWebtransportRule
<1>3. \A k \in 1 .. Len(l) : \E j \in 1 .. Len(m) : m[j] = l[k]
  BY DEF Covers, Contains
<1> QED BY <1>1, <1>2, <1>3 DEF Covers

\* 12-to-13, all three passes.
LEMMA ConvertQuicAddrsCovers ==
  ASSUME NEW l \in Seq(Address), NEW m \in Seq(Address), Covers(m, l)
  PROVE  Covers(ConvertQuicAddrs(m), ConvertQuicAddrs(l))
<1>1. PICK v \in Address : v = <<"quic-v1">> /\ Contains(v, "quic-v1")
  BY Literals
<1>2. PICK w \in Address : w = <<"quic-v1", "webtransport">> /\ Contains(w, "quic-v1")
  BY Literals
<1>3. PICK relay : relay = {"p2p-circuit"}
  OBVIOUS
<1>4. PICK relay2 : relay2 = {"p2p-circuit", "webtransport"}
  OBVIOUS
<1> DEFINE first1(list) == ReplaceWebtransport(list)
           second1(list) == PatternAdd(first1(list), "quic", v, relay)
<1>5. \A list : ConvertQuicAddrs(list) = PatternAdd(second1(list), "quic-v1", w, relay2)
  BY <1>1, <1>2, <1>3, <1>4 DEF ConvertQuicAddrs
<1>6. /\ first1(l) \in Seq(Address) /\ first1(m) \in Seq(Address)
      /\ Covers(first1(m), first1(l))
  BY ReplaceWebtransportRule, ReplaceWebtransportCovers
<1> HIDE DEF first1
<1>7. /\ second1(l) \in Seq(Address) /\ second1(m) \in Seq(Address)
      /\ Covers(second1(m), second1(l))
  BY <1>1, <1>6, PatternAddRule, PatternAddCovers
<1> HIDE DEF second1
<1> QED BY <1>2, <1>5, <1>7, PatternAddCovers

\* 14-to-15.
LEMMA ReplaceQuicCovers ==
  ASSUME NEW l \in Seq(Address), NEW m \in Seq(Address), Covers(m, l)
  PROVE  Covers(ReplaceQuic(m), ReplaceQuic(l))
<1>1. \A x : Contains(ReplaceQuic(l), x) <=> \E k \in 1 .. Len(l) : x = QuicV1(l[k])
  BY ReplaceQuicRule
<1>2. \A x : Contains(ReplaceQuic(m), x) <=> \E k \in 1 .. Len(m) : x = QuicV1(m[k])
  BY ReplaceQuicRule
<1>3. \A k \in 1 .. Len(l) : \E j \in 1 .. Len(m) : m[j] = l[k]
  BY DEF Covers, Contains
<1> QED BY <1>1, <1>2, <1>3 DEF Covers

\* 15-to-16.
LEMMA AddWebrtcCovers ==
  ASSUME NEW l \in Seq(Address), NEW m \in Seq(Address), Covers(m, l)
  PROVE  Covers(AddWebrtc(m), AddWebrtc(l))
<1> DEFINE New(a) == Front(a) \o <<"webrtc-direct">>
<1>1. \A x : Contains(AddWebrtc(l), x) <=>
               \E k \in 1 .. Len(l) : x = l[k] \/ (Ends(l[k], "quic-v1") /\ x = New(l[k]))
  BY AddWebrtcRule
<1>2. \A x : Contains(AddWebrtc(m), x) <=>
               \E k \in 1 .. Len(m) : x = m[k] \/ (Ends(m[k], "quic-v1") /\ x = New(m[k]))
  BY AddWebrtcRule
<1> HIDE DEF New
<1>3. \A k \in 1 .. Len(l) : \E j \in 1 .. Len(m) : m[j] = l[k]
  BY DEF Covers, Contains
<1> QED BY <1>1, <1>2, <1>3 DEF Covers

-----------------------------------------------------------------------------
(* New listeners                                                           *)

\* The listeners for WebTransport and for WebRTC beside one for QUIC.
ForWebtransport(a) == Front(a) \o <<"quic-v1", "webtransport">>
ForWebrtc(a) == Front(a) \o <<"webrtc-direct">>

AllWebtransport(list) == \A a : Contains(list, a) /\ Bare(a) => Contains(list, ForWebtransport(a))
AllWebrtc(list) == \A a : Contains(list, a) /\ Ends(a, "quic-v1") => Contains(list, ForWebrtc(a))
NoneQuic(list) == \A a : Contains(list, a) => ~Has(a, "quic")

\* Positions in an address.
LEMMA LastOrBefore ==
  ASSUME NEW n \in Nat \ {0}, NEW i \in 1 .. n PROVE i = n \/ i \in 1 .. (n - 1)
OBVIOUS

\* What has two positions behind it is not the last.
LEMMA BeforeEnd ==
  ASSUME NEW j \in Nat, NEW k \in Nat, NEW n \in Nat, k <= n, k = j + 2
  PROVE  j + 1 \in 1 .. (n - 1)
OBVIOUS

\* The one part for QUIC is its end.
LEMMA BareFacts ==
  ASSUME NEW a \in Address, Bare(a)
  PROVE  /\ a \in Seq(Names) /\ a # <<>> /\ Len(a) \in Nat \ {0}
         /\ Ends(a, "quic") \/ Ends(a, "quic-v1")
         /\ \A i \in 1 .. (Len(a) - 1) : a[i] # "quic" /\ a[i] # "quic-v1"
         /\ Ends(a, "quic") => ~Has(a, "quic-v1")
         /\ Ends(a, "quic-v1") => ~Has(a, "quic")
<1>1. a \in Seq(Names) /\ a # <<>> /\ (Ends(a, "quic") \/ Ends(a, "quic-v1"))
  BY DEF Bare, Ends, Address
<1>2. Len(a) \in Nat \ {0} /\ DOMAIN a = 1 .. Len(a)
  BY <1>1
<1>3. \A i \in 1 .. (Len(a) - 1) : a[i] # "quic" /\ a[i] # "quic-v1"
  BY DEF Bare
<1>4. \A i \in 1 .. Len(a) : i = Len(a) \/ i \in 1 .. (Len(a) - 1)
  BY <1>2, LastOrBefore
<1>5. Ends(a, "quic") => ~Has(a, "quic-v1")
  BY <1>2, <1>3, <1>4 DEF Ends, Has
<1>6. Ends(a, "quic-v1") => ~Has(a, "quic")
  BY <1>2, <1>3, <1>4 DEF Ends, Has
<1> QED BY <1>1, <1>2, <1>3, <1>5, <1>6

\* The scan from the end of such an address finds its end.
LEMMA BareScan ==
  ASSUME NEW a \in Address, Bare(a), NEW p \in {"quic", "quic-v1"}, Ends(a, p), NEW notBefore,
         NEW new \in Address
  PROVE  Subst(a, Scan(a, p, notBefore), new) = Front(a) \o new
<1>1. /\ a \in Seq(Names) /\ a # <<>> /\ Len(a) \in Nat \ {0} /\ DOMAIN a = 1 .. Len(a)
      /\ \A i \in 1 .. (Len(a) - 1) : a[i] # "quic" /\ a[i] # "quic-v1"
      /\ a[Len(a)] = p /\ new \in Seq(Names)
  BY BareFacts DEF Ends, Address
<1>2. PICK S : S = Scan(a, p, notBefore)
  OBVIOUS
<1>3. ASSUME NEW i \in 1 .. Len(a) PROVE i \in S <=> i = Len(a)
  <2>1. CASE i = Len(a)
    <3>1. (i + 1) .. Len(a) = {}
      BY <1>1, <2>1
    <3>2. i \in DOMAIN a /\ a[i] = p
      BY <1>1, <2>1
    <3>3. i \in S
      BY <1>2, <3>1, <3>2, Zenon DEF Scan
    <3> QED BY <2>1, <3>3
  <2>2. CASE i # Len(a)
    <3>1. i \in 1 .. (Len(a) - 1)
      BY <1>1, <2>2, LastOrBefore
    <3>2. a[i] # p
      BY <1>1, <3>1
    <3> QED BY <1>2, <2>2, <3>2 DEF Scan
  <2> QED BY <2>1, <2>2
<1>4. Subst(a, S, new) = Front(a) \o new
  BY <1>1, <1>3, SubstLast
<1> QED BY <1>2, <1>4

\* With /quic-v1 at the end it is such an address again.
LEMMA BareAgain ==
  ASSUME NEW a \in Address, Bare(a), NEW b, b = Front(a) \o <<"quic-v1">>
  PROVE  b \in Address /\ Bare(b) /\ Ends(b, "quic-v1") /\ ForWebtransport(b) = ForWebtransport(a)
<1>1. /\ a \in Seq(Names) /\ a # <<>> /\ Len(a) \in Nat \ {0}
      /\ \A i \in 1 .. (Len(a) - 1) : a[i] # "quic" /\ a[i] # "quic-v1"
  BY BareFacts
<1>2. PICK v \in Seq(Names) : v = <<"quic-v1">> /\ Len(v) = 1 /\ v[1] = "quic-v1"
  BY Literals DEF Address
<1>3. /\ Front(a) \in Seq(Names) /\ Len(Front(a)) = Len(a) - 1
      /\ \A i \in 1 .. (Len(a) - 1) : Front(a)[i] = a[i]
  BY <1>1, FrontOf
<1>4. PICK g \in Seq(Names) : g = Front(a)
  BY <1>3
<1>5. /\ b \in Seq(Names) /\ Len(b) = Len(g) + 1
      /\ \A j \in 1 .. Len(g) : b[j] = g[j]
      /\ b[Len(g) + 1] = "quic-v1"
  BY <1>2, <1>4, Joined
<1>6. Len(g) = Len(a) - 1 /\ \A i \in 1 .. Len(g) : g[i] = a[i]
  BY <1>3, <1>4
<1>7. b # <<>> /\ Len(b) = Len(a) /\ b[Len(b)] = "quic-v1"
  BY <1>1, <1>5, <1>6
<1>8. \A i \in 1 .. (Len(b) - 1) : b[i] # "quic" /\ b[i] # "quic-v1"
  BY <1>1, <1>5, <1>6, <1>7
<1>9. Ends(b, "quic-v1") /\ Bare(b)
  BY <1>7, <1>8 DEF Ends, Bare
<1>10. Front(b) = g
  <2>1. /\ Front(b) \in Seq(Names) /\ Len(Front(b)) = Len(b) - 1
        /\ \A i \in 1 .. (Len(b) - 1) : Front(b)[i] = b[i]
    BY <1>5, <1>7, FrontOf
  <2>2. Len(Front(b)) = Len(g) /\ \A i \in 1 .. Len(g) : Front(b)[i] = g[i]
    BY <1>1, <1>5, <1>6, <1>7, <2>1
  <2> QED BY <2>1, <2>2, SameSeq
<1> QED BY <1>4, <1>5, <1>9, <1>10 DEF ForWebtransport, Address

\* What has become of an address by the third pass is no such address.
LEMMA SubstBare ==
  ASSUME NEW a \in Address, NEW S, NEW i \in 1 .. Len(a), i \in S, NEW w \in Address,
         Len(w) = 2, w[1] = "quic-v1"
  PROVE  ~Bare(Subst(a, S, w))
<1>1. a \in Seq(Names) /\ w \in Seq(Names) /\ Len(a) \in Nat /\ i \in Nat
  BY DEF Address
<1>2. PICK s \in Seq(Seq(Names)) :
           /\ Subst(a, S, w) = FlattenSeq(s) /\ Len(s) = Len(a)
           /\ \A k \in 1 .. Len(a) : s[k] = IF k \in S THEN w ELSE <<a[k]>>
  BY <1>1, SubstParts
<1>3. PICK f : f = FlattenSeq(s)
  OBVIOUS
<1>4. PICK off : Placed(Names, s, off, f, Len(s))
  BY <1>3, Flattened
<1>b. s[i] = w
  BY <1>2
<1>5. Len(s[i]) = 2 /\ s[i][1] = "quic-v1"
  BY <1>b
<1>6. /\ f \in Seq(Names) /\ off[Len(s)] = Len(f)
      /\ off[i - 1] \in Nat /\ off[i] \in Nat /\ off[i] <= off[Len(s)] /\ off[i] = off[i - 1] + Len(s[i])
  BY <1>2, <1>4 DEF Placed
<1>7. 1 \in 1 .. Len(s[i])
  BY <1>5
<1>8. f[off[i - 1] + 1] = s[i][1]
  BY <1>2, <1>4, <1>7 DEF Placed
<1>c. Len(f) \in Nat
  BY <1>6
<1>a. off[i] <= Len(f) /\ off[i] = off[i - 1] + 2
  BY <1>5, <1>6, Zenon
<1>9. off[i - 1] + 1 \in 1 .. (Len(f) - 1)
  BY <1>6, <1>a, <1>c, BeforeEnd
<1>10. f[off[i - 1] + 1] = "quic-v1"
  BY <1>5, <1>8
<1>11. ~Bare(f)
  BY <1>9, <1>10 DEF Bare
<1> QED BY <1>2, <1>3, <1>11

\* What one pass of 12-to-13 makes of an address.
Passed(a, protocol, notBefore, new) == Subst(a, Scan(a, protocol, notBefore), new)

\* The second pass.
LEMMA SecondPass ==
  ASSUME NEW list \in Seq(Address), NEW v \in Address, Contains(v, "quic-v1"), NEW relay,
         NEW r, r = PatternAdd(list, "quic", v, relay),
         NEW a, Contains(r, a), Bare(a), Ends(a, "quic")
  PROVE  Contains(r, Front(a) \o v)
<1>0. v \in Seq(Names)
  BY DEF Address
<1>1. /\ r \in Seq(Address)
      /\ \A x : Contains(r, x) <=>
                  \E k \in 1 .. Len(list) : x = list[k] \/ x = Passed(list[k], "quic", relay, v)
  BY PatternAddRule DEF Passed
<1>2. PICK k \in 1 .. Len(list) : a = list[k] \/ a = Passed(list[k], "quic", relay, v)
  BY <1>1
<1>3. a \in Address /\ list[k] \in Address
  BY <1>1 DEF Contains
<1>4. ~Has(a, "quic-v1")
  BY <1>3, BareFacts
<1>5. a = list[k]
  <2> SUFFICES ASSUME a = Passed(list[k], "quic", relay, v) PROVE a = list[k]
    BY <1>2
  <2>1. PICK b \in Seq(Names) : b = list[k]
    BY <1>3 DEF Address
  <2>2. PICK S : S = Scan(b, "quic", relay)
    OBVIOUS
  <2>3. a = Subst(b, S, v)
    BY <2>1, <2>2 DEF Passed
  <2>4. CASE \A i \in 1 .. Len(b) : i \notin S
    BY <1>0, <2>1, <2>3, <2>4, SubstNone
  <2>5. CASE \E i \in 1 .. Len(b) : i \in S
    <3>0. (\E i \in 1 .. Len(b) : IF i \in S THEN Contains(v, "quic-v1") ELSE b[i] = "quic-v1") =>
            Contains(Subst(b, S, v), "quic-v1")
      BY <1>0, SubstHas
    <3>1. Contains(a, "quic-v1")
      BY <2>3, <2>5, <3>0
    <3> QED BY <1>3, <1>4, <3>1, HasIn
  <2> QED BY <2>4, <2>5
<1>6. Passed(a, "quic", relay, v) = Front(a) \o v
  BY <1>3, BareScan DEF Passed
<1> QED BY <1>1, <1>5, <1>6

\* The third pass.
LEMMA ThirdPass ==
  ASSUME NEW list \in Seq(Address), NEW w \in Address, Len(w) = 2, w[1] = "quic-v1",
         Contains(w, "quic-v1"), NEW relay,
         NEW r, r = PatternAdd(list, "quic-v1", w, relay),
         NEW a, Bare(a)
  PROVE  /\ Contains(list, a) /\ Ends(a, "quic-v1") => Contains(r, Front(a) \o w)
         /\ Contains(r, a) => Contains(list, a)
<1>1. /\ r \in Seq(Address)
      /\ \A x : Contains(r, x) <=>
                  \E k \in 1 .. Len(list) : x = list[k] \/ x = Passed(list[k], "quic-v1", relay, w)
  BY PatternAddRule DEF Passed
<1>2. ASSUME Contains(list, a), Ends(a, "quic-v1") PROVE Contains(r, Front(a) \o w)
  <2>1. PICK k \in 1 .. Len(list) : list[k] = a
    BY <1>2 DEF Contains
  <2>2. a \in Address
    BY <2>1
  <2>3. Passed(a, "quic-v1", relay, w) = Front(a) \o w
    BY <1>2, <2>2, BareScan DEF Passed
  <2> QED BY <1>1, <2>1, <2>3
<1>3. ASSUME Contains(r, a) PROVE Contains(list, a)
  <2>1. PICK k \in 1 .. Len(list) : a = list[k] \/ a = Passed(list[k], "quic-v1", relay, w)
    BY <1>1, <1>3
  <2>2. PICK b \in Address : b = list[k]
    OBVIOUS
  <2>3. PICK S : S = Scan(b, "quic-v1", relay)
    OBVIOUS
  <2>4. CASE a = b
    BY <2>2, <2>4 DEF Contains
  <2>5. CASE a = Subst(b, S, w)
    <3>1. \A i \in 1 .. Len(b) : i \notin S
      BY <2>5, SubstBare
    <3>2. a = b
      BY <2>5, <3>1, SubstNone DEF Address
    <3> QED BY <2>4, <3>2
  <2> QED BY <2>1, <2>2, <2>3, <2>4, <2>5 DEF Passed
<1> QED BY <1>2, <1>3

\* After 12-to-13 there is one for WebTransport beside each for QUIC.
LEMMA ConvertQuicAddrsNew ==
  ASSUME NEW list \in Seq(Address)
  PROVE  AllWebtransport(ConvertQuicAddrs(list))
<1>1. PICK l1 \in Seq(Address) : l1 = ReplaceWebtransport(list)
  BY ReplaceWebtransportRule
<1>2. PICK v \in Address : v = <<"quic-v1">> /\ Contains(v, "quic-v1")
  BY Literals
<1>a. Len(<<"quic-v1", "webtransport">>) = 2 /\ <<"quic-v1", "webtransport">>[1] = "quic-v1"
  OBVIOUS
<1>3. PICK w \in Address :
        w = <<"quic-v1", "webtransport">> /\ Contains(w, "quic-v1") /\ Len(w) = 2 /\ w[1] = "quic-v1"
  BY <1>a, Literals
<1>w. Contains(w, "quic-v1") /\ Len(w) = 2 /\ w[1] = "quic-v1"
  BY <1>3
<1>4. PICK relay : relay = {"p2p-circuit"}
  OBVIOUS
<1>5. PICK relay2 : relay2 = {"p2p-circuit", "webtransport"}
  OBVIOUS
<1>6. PICK l2 \in Seq(Address) : l2 = PatternAdd(l1, "quic", v, relay)
  BY <1>2, PatternAddRule
<1>7. ConvertQuicAddrs(list) = PatternAdd(l2, "quic-v1", w, relay2)
  BY <1>1, <1>2, <1>3, <1>4, <1>5, <1>6 DEF ConvertQuicAddrs
<1>8. PICK l3 \in Seq(Address) : l3 = PatternAdd(l2, "quic-v1", w, relay2)
  BY <1>3, PatternAddRule
<1>9. ASSUME NEW a, Contains(l3, a), Bare(a) PROVE Contains(l3, ForWebtransport(a))
  <2>0. Contains(l2, a)
    BY <1>w, <1>8, <1>9, ThirdPass
  <2>1. Contains(l2, a) /\ a \in Address
    BY <2>0 DEF Contains
  <2>2. CASE Ends(a, "quic-v1")
    <3>1. Contains(l3, Front(a) \o w)
      BY <1>w, <1>8, <1>9, <2>1, <2>2, ThirdPass
    <3> QED BY <1>3, <3>1 DEF ForWebtransport
  <2>3. CASE Ends(a, "quic")
    <3>1. PICK b : b = Front(a) \o v
      OBVIOUS
    <3>2. Contains(l2, b)
      BY <1>2, <1>6, <1>9, <2>1, <2>3, <3>1, SecondPass
    <3>3. Bare(b) /\ Ends(b, "quic-v1") /\ ForWebtransport(b) = ForWebtransport(a)
      BY <1>2, <1>9, <2>1, <3>1, BareAgain
    <3>4. Contains(l3, Front(b) \o w)
      BY <1>w, <1>8, <3>2, <3>3, ThirdPass
    <3> QED BY <1>3, <3>3, <3>4 DEF ForWebtransport
  <2> QED BY <1>9, <2>1, <2>2, <2>3, BareFacts
<1> QED BY <1>7, <1>8, <1>9 DEF AllWebtransport

\* 14-to-15 changes an address with one protocol of QUIC at its end only.
LEMMA QuicV1Bare ==
  ASSUME NEW y \in Address, NEW a, a = QuicV1(y), Bare(a)
  PROVE  /\ Bare(y) /\ ForWebtransport(a) = ForWebtransport(y)
         /\ Front(y) \in Address /\ ~Has(Front(y), "quic")
<1>1. /\ a \in Seq(Names) /\ Len(a) = Len(y) /\ y \in Seq(Names) /\ a \in Address
      /\ \A i \in 1 .. Len(y) : a[i] = IF y[i] = "quic" THEN "quic-v1" ELSE y[i]
  BY QuicV1Is DEF Address
<1>2. /\ a # <<>> /\ Len(a) \in Nat \ {0}
      /\ \A i \in 1 .. (Len(a) - 1) : a[i] # "quic" /\ a[i] # "quic-v1"
      /\ a[Len(a)] = "quic" \/ a[Len(a)] = "quic-v1"
  BY <1>1, BareFacts DEF Ends
<1>3. y # <<>> /\ Len(y) \in 1 .. Len(y)
  BY <1>1, <1>2
<1>4. \A i \in 1 .. (Len(y) - 1) : i \in 1 .. Len(y)
  BY <1>2, <1>1
<1>5. \A i \in 1 .. (Len(y) - 1) : y[i] # "quic" /\ y[i] # "quic-v1" /\ a[i] = y[i]
  BY <1>1, <1>2, <1>4
<1>6. y[Len(y)] = "quic" \/ y[Len(y)] = "quic-v1"
  BY <1>1, <1>2, <1>3
<1>7. Bare(y)
  BY <1>3, <1>5, <1>6 DEF Bare, Ends
<1>8. /\ Front(a) \in Seq(Names) /\ Len(Front(a)) = Len(a) - 1
      /\ \A i \in 1 .. (Len(a) - 1) : Front(a)[i] = a[i]
  BY <1>1, <1>2, FrontOf
<1>9. /\ Front(y) \in Seq(Names) /\ Len(Front(y)) = Len(y) - 1
      /\ \A i \in 1 .. (Len(y) - 1) : Front(y)[i] = y[i]
  BY <1>1, <1>3, FrontOf
<1>10. \A i \in 1 .. Len(Front(a)) : Front(a)[i] = Front(y)[i]
  BY <1>1, <1>5, <1>8, <1>9
<1>11. Front(a) = Front(y)
  BY <1>1, <1>8, <1>9, <1>10, SameSeq
<1>12. Front(y) \in Address /\ ~Has(Front(y), "quic")
  <2>1. DOMAIN Front(y) = 1 .. (Len(y) - 1)
    BY <1>9
  <2> QED BY <1>5, <1>9, <2>1 DEF Has, Address
<1> QED BY <1>7, <1>11, <1>12 DEF ForWebtransport

\* 14-to-15 leaves no /quic, and those for WebTransport where they are.
LEMMA ReplaceQuicNew ==
  ASSUME NEW list \in Seq(Address)
  PROVE  /\ NoneQuic(ReplaceQuic(list))
         /\ AllWebtransport(list) => AllWebtransport(ReplaceQuic(list))
<1>1. PICK r \in Seq(Address) :
        r = ReplaceQuic(list) /\ \A x : Contains(r, x) <=> \E k \in 1 .. Len(list) : x = QuicV1(list[k])
  BY ReplaceQuicRule
<1>2. \A k \in 1 .. Len(list) : list[k] \in Address
  OBVIOUS
<1>3. NoneQuic(r)
  BY <1>1, <1>2, QuicV1Facts DEF NoneQuic
<1>4. ASSUME AllWebtransport(list), NEW a, Contains(r, a), Bare(a)
      PROVE  Contains(r, ForWebtransport(a))
  <2>1. PICK k \in 1 .. Len(list) : a = QuicV1(list[k])
    BY <1>1, <1>4
  <2>2. PICK y \in Address : y = list[k]
    BY <1>2
  <2>3. /\ Bare(y) /\ ForWebtransport(a) = ForWebtransport(y)
        /\ Front(y) \in Address /\ ~Has(Front(y), "quic")
    BY <1>4, <2>1, <2>2, QuicV1Bare
  <2>4. Contains(list, ForWebtransport(y))
    BY <1>4, <2>2, <2>3 DEF AllWebtransport, Contains
  <2>5. PICK w \in Address : w = <<"quic-v1", "webtransport">>
    BY Literals
  <2>6. ~Has(w, "quic")
    BY <2>5 DEF Has
  <2>7. Front(y) \o w \in Address /\ ~Has(Front(y) \o w, "quic")
    BY <2>3, <2>6, JoinedHas
  <2>8. PICK z \in Address : z = ForWebtransport(y) /\ ~Has(z, "quic")
    BY <2>5, <2>7 DEF ForWebtransport
  <2>9. QuicV1(z) = z
    BY <2>8, QuicV1Facts
  <2>10. PICK j \in 1 .. Len(list) : list[j] = z
    BY <2>4, <2>8 DEF Contains
  <2> QED BY <1>1, <2>3, <2>8, <2>9, <2>10
<1> QED BY <1>1, <1>3, <1>4 DEF AllWebtransport

\* After 15-to-16 there is one for WebRTC beside each for QUIC; those for
\* WebTransport stay, and no /quic comes back.
LEMMA AddWebrtcNew ==
  ASSUME NEW list \in Seq(Address)
  PROVE  /\ AllWebrtc(AddWebrtc(list))
         /\ AllWebtransport(list) => AllWebtransport(AddWebrtc(list))
         /\ NoneQuic(list) => NoneQuic(AddWebrtc(list))
<1>1. PICK r \in Seq(Address) :
        /\ r = AddWebrtc(list)
        /\ \A x : Contains(r, x) <=>
                   \E k \in 1 .. Len(list) :
                     \/ x = list[k]
                     \/ Ends(list[k], "quic-v1") /\ x = ForWebrtc(list[k])
  BY AddWebrtcRule DEF ForWebrtc
<1>2. \A k \in 1 .. Len(list) : list[k] \in Address
  OBVIOUS
<1>3. ASSUME NEW y \in Address, Ends(y, "quic-v1")
      PROVE  /\ ForWebrtc(y) \in Address /\ Ends(ForWebrtc(y), "webrtc-direct")
             /\ Has(ForWebrtc(y), "quic") => Has(y, "quic")
  <2>1. PICK w \in Address : w = <<"webrtc-direct">> /\ Ends(w, "webrtc-direct")
    BY Literals
  <2>2. ~Has(w, "quic")
    BY <2>1 DEF Has
  <2>3. /\ Front(y) \in Seq(Names) /\ Len(Front(y)) = Len(y) - 1 /\ Len(y) \in Nat \ {0}
        /\ \A i \in 1 .. (Len(y) - 1) : Front(y)[i] = y[i]
    BY <1>3, FrontOf DEF Ends, Address
  <2>4. Has(Front(y), "quic") => Has(y, "quic")
    <3>1. DOMAIN Front(y) = 1 .. (Len(y) - 1) /\ \A i \in 1 .. (Len(y) - 1) : i \in 1 .. Len(y)
      BY <2>3
    <3>2. DOMAIN y = 1 .. Len(y)
      BY DEF Address
    <3> QED BY <2>3, <3>1, <3>2 DEF Has
  <2>5. Front(y) \in Address
    BY <2>3 DEF Address
  <2>6. Front(y) \o w \in Address /\ (Has(Front(y) \o w, "quic") => Has(y, "quic"))
    BY <2>2, <2>4, <2>5, JoinedHas
  <2>7. Ends(Front(y) \o w, "webrtc-direct")
    BY <2>1, <2>5, JoinedEnds
  <2> QED BY <2>1, <2>6, <2>7 DEF ForWebrtc
<1>4. ASSUME NEW a, Contains(r, a), Ends(a, "quic") \/ Ends(a, "quic-v1")
      PROVE  Contains(list, a) /\ (Ends(a, "quic-v1") => Contains(r, ForWebrtc(a)))
  <2>1. PICK k \in 1 .. Len(list) : \/ a = list[k]
                                    \/ Ends(list[k], "quic-v1") /\ a = ForWebrtc(list[k])
    BY <1>1, <1>4
  <2>2. a = list[k]
    BY <1>2, <1>3, <1>4, <2>1 DEF Ends
  <2> QED BY <1>1, <2>2 DEF Contains
<1>5. \A x : Contains(list, x) => Contains(r, x)
  BY <1>1 DEF Contains
<1>6. AllWebrtc(r)
  BY <1>4 DEF AllWebrtc
<1>7. AllWebtransport(list) => AllWebtransport(r)
  BY <1>4, <1>5 DEF AllWebtransport, Bare
<1>8. NoneQuic(list) => NoneQuic(r)
  <2> SUFFICES ASSUME NoneQuic(list), NEW a, Contains(r, a), Has(a, "quic") PROVE FALSE
    BY DEF NoneQuic
  <2>1. PICK k \in 1 .. Len(list) : \/ a = list[k]
                                    \/ Ends(list[k], "quic-v1") /\ a = ForWebrtc(list[k])
    BY <1>1
  <2>2. Has(list[k], "quic")
    BY <1>2, <1>3, <2>1
  <2> QED BY <2>2 DEF NoneQuic, Contains
<1> QED BY <1>1, <1>6, <1>7, <1>8

-----------------------------------------------------------------------------
(* What the conversions do to the lists of a config                        *)

\* The lists of a config.
LEMMA ListsAre ==
  ASSUME NEW c
  PROVE  IsLists(c) <=> /\ c.swarm \in Seq(Address) /\ c.noAnnounce \in Seq(Address)
                        /\ c.filters \in Seq(Address) /\ c.bootstrap \in Seq(Names)
BY DEF IsLists, Address

\* A config has all of its own.
LEMMA KeepsInStart == ASSUME NEW f, IsLists(f) PROVE KeepsIn(f, f)
<1>1. \A g \in {"swarm", "filters"} : \A k \in DOMAIN f[g] : Contains(f[g], f[g][k])
  BY ListsAre DEF Contains
<1> QED BY <1>1 DEF KeepsIn

\* A conversion that keeps the lists keeps what they have of the first one ...
LEMMA KeepsInStep ==
  ASSUME NEW f, NEW c, NEW d, IsLists(f), Keeps(c.swarm, d.swarm), Keeps(c.filters, d.filters),
         KeepsIn(f, c)
  PROVE  KeepsIn(f, d)
<1> SUFFICES ASSUME NEW g \in {"swarm", "filters"}, NEW k \in DOMAIN f[g]
             PROVE  /\ f[g][k] # Junk /\ ~Has(f[g][k], "quic") => Contains(d[g], f[g][k])
                    /\ \A j \in DOMAIN f[g] :
                         Untouched(f[g][k]) /\ Untouched(f[g][j]) /\ Ahead(f[g], f[g][k], f[g][j]) =>
                           Ahead(d[g], f[g][k], f[g][j])
  BY DEF KeepsIn
<1>1. f[g][k] \in Address /\ \A j \in DOMAIN f[g] : f[g][j] \in Address
  BY ListsAre
<1>2. /\ f[g][k] # Junk /\ ~Has(f[g][k], "quic") => Contains(c[g], f[g][k])
      /\ \A j \in DOMAIN f[g] :
           Untouched(f[g][k]) /\ Untouched(f[g][j]) /\ Ahead(f[g], f[g][k], f[g][j]) =>
             Ahead(c[g], f[g][k], f[g][j])
  BY DEF KeepsIn
<1>3. Keeps(c[g], d[g])
  OBVIOUS
<1> QED BY <1>1, <1>2, <1>3 DEF Keeps, Ordered

\* So has it the successors.
LEMMA SuccessorsStart == ASSUME NEW f, IsLists(f), NEW v PROVE SuccessorsIn(f, f, v)
<1>1. /\ DOMAIN f.swarm = 1 .. Len(f.swarm)
  BY ListsAre
<1> QED BY <1>1 DEF SuccessorsIn, Contains, HasLike

\* ... the successors of its addresses ...
LEMMA SuccessorsStep ==
  ASSUME NEW f, NEW c, NEW d, IsLists(f), Keeps(c.swarm, d.swarm), NEW v, NEW u,
         SuccessorsIn(f, c, v), u <= 12 => v <= 12 /\ Covers(d.swarm, c.swarm)
  PROVE  SuccessorsIn(f, d, u)
<1>1. \A k \in DOMAIN f.swarm : f.swarm[k] \in Address
  BY ListsAre
<1> QED BY <1>1 DEF SuccessorsIn, Keeps, Covers

\* ... and their companions.
LEMMA CompanionsStep ==
  ASSUME NEW f, NEW c, NEW d, IsLists(f), Keeps(c.swarm, d.swarm), Companions(f, c)
  PROVE  Companions(f, d)
<1> SUFFICES ASSUME NEW k \in DOMAIN f.swarm, Ends(f.swarm[k], "tcp")
             PROVE  HasLike(d.swarm, CompanionOf(f.swarm[k]))
  BY DEF Companions, CompanionOf
<1>1. f.swarm[k] \in Address
  BY ListsAre
<1>2. CompanionOf(f.swarm[k]) \in Address /\ CompanionOf(f.swarm[k]) # Junk
  BY <1>1, CompanionFacts, JunkEnds
<1>3. HasLike(c.swarm, CompanionOf(f.swarm[k]))
  BY DEF Companions, CompanionOf
<1> QED BY <1>2, <1>3 DEF Keeps

\* NewIn, by lists.
LEMMA NewInIs ==
  ASSUME NEW l, NEW c, NEW v, IsLists(c)
  PROVE  NewIn(l, c, v) <=>
           /\ v >= 10 /\ 9 \notin l => P2p(c.bootstrap) = c.bootstrap
           /\ v >= 13 /\ 12 \notin l => AllWebtransport(c.swarm)
           /\ v >= 15 /\ 14 \notin l => NoneQuic(c.swarm) /\ NoneQuic(c.noAnnounce)
           /\ v = 16 /\ 15 \notin l => AllWebrtc(c.swarm)
<1>1. DOMAIN c.swarm = 1 .. Len(c.swarm) /\ DOMAIN c.noAnnounce = 1 .. Len(c.noAnnounce)
  BY ListsAre
<1>2. AllWebtransport(c.swarm) <=>
        \A k \in DOMAIN c.swarm :
          Bare(c.swarm[k]) => Contains(c.swarm, Front(c.swarm[k]) \o <<"quic-v1", "webtransport">>)
  BY <1>1 DEF AllWebtransport, ForWebtransport, Contains
<1>3. NoneQuic(c.swarm) /\ NoneQuic(c.noAnnounce) <=>
        \A g \in {"swarm", "noAnnounce"} : \A k \in DOMAIN c[g] : ~Has(c[g][k], "quic")
  BY <1>1 DEF NoneQuic, Contains
<1>4. AllWebrtc(c.swarm) <=>
        \A k \in DOMAIN c.swarm :
          Ends(c.swarm[k], "quic-v1") => Contains(c.swarm, Front(c.swarm[k]) \o <<"webrtc-direct">>)
  BY <1>1 DEF AllWebrtc, ForWebrtc, Contains
<1> QED BY <1>2, <1>3, <1>4 DEF NewIn

\* What has to be shown of a conversion of c to d, of version u.
Through(f, l, c, d, u) ==
  /\ IsLists(d) /\ Keeps(c.swarm, d.swarm) /\ Keeps(c.filters, d.filters)
  /\ OnceIn(f, d, u) /\ NewIn(l, d, u)

\* That is enough: the rest of the invariant follows.
LEMMA ListsStep ==
  ASSUME NEW f, NEW l, NEW e, NEW c, NEW d, NEW v \in 12 .. 15, NEW u, u = v + 1, IsLists(f),
         ListsIn(f, l, e, c, v), Through(f, l, c, d, u)
  PROVE  ListsIn(f, l, e, d, u)
<1>0. /\ IsLists(d) /\ Keeps(c.swarm, d.swarm) /\ Keeps(c.filters, d.filters)
      /\ OnceIn(f, d, u) /\ NewIn(l, d, u)
  BY DEF Through
<1>1. KeepsIn(f, d)
  BY <1>0, KeepsInStep DEF ListsIn
<1>2. SuccessorsIn(f, d, u)
  BY <1>0, SuccessorsStep DEF ListsIn
<1>3. NoQuicEdit(e) => CompanionsIn(f, l, d, u)
  BY <1>0, CompanionsStep DEF ListsIn, CompanionsIn
<1> QED BY <1>0, <1>1, <1>2, <1>3 DEF ListsIn

\* The lists of what 12-to-13 to 15-to-16 make of a config.
LEMMA ListsOf12 ==
  ASSUME NEW c, IsConfig(c)
  PROVE  /\ Convert12(c).swarm = ConvertQuicAddrs(c.swarm)
         /\ Convert12(c).noAnnounce = ConvertQuicAddrs(c.noAnnounce)
         /\ Convert12(c).filters = ConvertQuicAddrs(c.filters)
         /\ Convert12(c).bootstrap = c.bootstrap
BY DEF IsConfig, Convert12

\* 13-to-14 leaves the lists alone.
LEMMA ListsOf13 ==
  ASSUME NEW c, IsConfig(c)
  PROVE  /\ Convert13(c).swarm = c.swarm /\ Convert13(c).noAnnounce = c.noAnnounce
         /\ Convert13(c).filters = c.filters /\ Convert13(c).bootstrap = c.bootstrap
BY DEF IsConfig, Convert13

\* The lists and the bootstrappers after 14-to-15.
LEMMA ListsOf14 ==
  ASSUME NEW c, IsConfig(c)
  PROVE  /\ Convert14(c).swarm = ReplaceQuic(c.swarm)
         /\ Convert14(c).noAnnounce = ReplaceQuic(c.noAnnounce)
         /\ Convert14(c).filters = c.filters
         /\ Convert14(c).bootstrap = ReplaceBootstrap(c.bootstrap)
BY DEF IsConfig, Convert14

\* The lists after 15-to-16.
LEMMA ListsOf15 ==
  ASSUME NEW c, IsConfig(c)
  PROVE  /\ Convert15(c).swarm = AddWebrtc(c.swarm)
         /\ Convert15(c).noAnnounce = AddWebrtc(c.noAnnounce)
         /\ Convert15(c).filters = c.filters /\ Convert15(c).bootstrap = c.bootstrap
BY DEF IsConfig, Convert15

\* What a list is that is spelled by /p2p.
LEMMA P2pIs ==
  ASSUME NEW list \in Seq(Names)
  PROVE  /\ P2p(list) \in Seq(Names) /\ DOMAIN P2p(list) = 1 .. Len(list)
         /\ \A k \in 1 .. Len(list) : P2p(list)[k] = Respelled[list[k]]
         /\ Len(P2p(list)) = Len(list)
         /\ P2p(P2p(list)) = P2p(list)
<1>1. DOMAIN list = 1 .. Len(list) /\ Len(list) \in Nat
  OBVIOUS
<1>2. PICK r : r = P2p(list)
  OBVIOUS
<1>3. r = [k \in 1 .. Len(list) |-> Respelled[list[k]]]
  BY <1>1, <1>2 DEF P2p
<1>4. \A k \in 1 .. Len(list) : Respelled[list[k]] \in Names /\ Respelled[Respelled[list[k]]] = Respelled[list[k]]
  BY SpellingAssumption
<1>5. r \in Seq(Names) /\ Len(r) = Len(list)
  BY <1>1, <1>3, <1>4
<1>6. P2p(r) = [k \in 1 .. Len(list) |-> Respelled[r[k]]]
  BY <1>3 DEF P2p
<1>7. P2p(r) = r
  BY <1>3, <1>4, <1>6
<1> QED BY <1>2, <1>3, <1>5, <1>7

\* 14-to-15 makes no bootstrapper of two, but the one over QUIC v1, and keeps
\* the spelling.
LEMMA BootstrapReplaced ==
  ASSUME NEW list \in Seq(Names)
  PROVE  /\ ReplaceBootstrap(list) \in Seq(Names)
         /\ OnceEach(list) /\ ~Contains(P2p(list), "quic-v1") => OnceEach(ReplaceBootstrap(list))
         /\ P2p(list) = list => P2p(ReplaceBootstrap(list)) = ReplaceBootstrap(list)
<1>1. Len(list) \in Nat /\ DOMAIN list = 1 .. Len(list) /\ \A k \in 1 .. Len(list) : list[k] \in Names
  OBVIOUS
<1>2. "quic-v1" \in Names /\ Respelled["quic-v1"] = "quic-v1" /\ Respelled["quic"] = "quic"
  BY NamesAssumption, SpellingAssumption
<1>3. PICK r : r = ReplaceBootstrap(list)
  OBVIOUS
<1>4. r = [k \in 1 .. Len(list) |-> IF list[k] = "quic" THEN "quic-v1" ELSE list[k]]
  BY <1>1, <1>3 DEF ReplaceBootstrap
<1>5. r \in Seq(Names) /\ Len(r) = Len(list)
  BY <1>1, <1>2, <1>4
<1>6. PICK s \in Seq(Names) : s = P2p(list)
  BY P2pIs
<1>7. PICK t \in Seq(Names) : t = P2p(r)
  BY <1>5, P2pIs
<1>8. DOMAIN s = 1 .. Len(list) /\ \A k \in 1 .. Len(list) : s[k] = Respelled[list[k]]
  BY <1>6, P2pIs
<1>9. DOMAIN t = 1 .. Len(list) /\ \A k \in 1 .. Len(list) : t[k] = Respelled[r[k]]
  BY <1>5, <1>7, P2pIs
<1>10. \A k \in 1 .. Len(list) :
         t[k] = IF list[k] = "quic" THEN "quic-v1" ELSE s[k]
  BY <1>2, <1>4, <1>8, <1>9
<1>11. ASSUME IsInjective(s), ~Contains(s, "quic-v1") PROVE IsInjective(t)
  <2>1. \A j, k \in 1 .. Len(list) : s[j] = s[k] => j = k
    BY <1>8, <1>11 DEF IsInjective
  <2>2. \A j \in 1 .. Len(list) : s[j] # "quic-v1"
    BY <1>8, <1>11 DEF Contains
  <2>3. \A j \in 1 .. Len(list) : list[j] = "quic" => s[j] = "quic"
    BY <1>2, <1>8
  <2>4. \A j, k \in DOMAIN t : t[j] = t[k] => j = k
    BY <1>9, <1>10, <2>1, <2>2, <2>3
  <2> QED BY <2>4, Zenon DEF IsInjective
<1>12. ASSUME s = list PROVE t = r
  <2>1. \A k \in 1 .. Len(list) : t[k] = r[k]
    BY <1>4, <1>10, <1>12
  <2> QED BY <1>5, <1>7, <1>9, <2>1
<1> QED BY <1>3, <1>5, <1>6, <1>7, <1>11, <1>12 DEF OnceEach

\* 12-to-13 preserves what ListsIn says ...
LEMMA ListsThrough12 ==
  ASSUME NEW f, NEW l, NEW e, NEW c, IsLists(f), IsConfig(c), ListsIn(f, l, e, c, 12)
  PROVE  ListsIn(f, l, e, Convert12(c), 13)
<1>1. PICK d : d = Convert12(c)
  OBVIOUS
<1>2. /\ c.swarm \in Seq(Address) /\ c.noAnnounce \in Seq(Address)
      /\ c.filters \in Seq(Address) /\ c.bootstrap \in Seq(Names)
  BY ListsAre DEF ListsIn
<1>3. /\ d.swarm = ConvertQuicAddrs(c.swarm) /\ d.noAnnounce = ConvertQuicAddrs(c.noAnnounce)
      /\ d.filters = ConvertQuicAddrs(c.filters) /\ d.bootstrap = c.bootstrap
  BY <1>1, ListsOf12
<1>4. /\ d.swarm \in Seq(Address) /\ Once(d.swarm) /\ Keeps(c.swarm, d.swarm)
      /\ d.noAnnounce \in Seq(Address) /\ Once(d.noAnnounce)
      /\ d.filters \in Seq(Address) /\ Once(d.filters) /\ Keeps(c.filters, d.filters)
  BY <1>2, <1>3, ConvertQuicAddrsRule
<1>5. IsLists(d)
  BY <1>2, <1>3, <1>4, ListsAre
<1>6. OnceIn(f, d, 13)
  BY <1>3, <1>4 DEF OnceIn, ListsIn
<1>7. AllWebtransport(d.swarm)
  BY <1>2, <1>3, ConvertQuicAddrsNew
<1>8. NewIn(l, d, 13)
  <2>1. 9 \notin l => P2p(d.bootstrap) = d.bootstrap
    BY <1>3 DEF ListsIn, NewIn
  <2> QED BY <1>5, <1>7, <2>1, NewInIs
<1>9. ListsIn(f, l, e, d, 13)
  <2>1. 12 \in 12 .. 15 /\ 13 = 12 + 1
    OBVIOUS
  <2>2. Through(f, l, c, d, 13)
    BY <1>4, <1>5, <1>6, <1>8 DEF Through
  <2> QED BY <2>1, <2>2, ListsStep
<1> QED BY <1>1, <1>9

\* ... 13-to-14 does ...
LEMMA ListsThrough13 ==
  ASSUME NEW f, NEW l, NEW e, NEW c, IsLists(f), IsConfig(c), ListsIn(f, l, e, c, 13)
  PROVE  ListsIn(f, l, e, Convert13(c), 14)
<1>1. PICK d : d = Convert13(c)
  OBVIOUS
<1>2. /\ d.swarm = c.swarm /\ d.noAnnounce = c.noAnnounce
      /\ d.filters = c.filters /\ d.bootstrap = c.bootstrap
  BY <1>1, ListsOf13
<1>3. IsLists(d) /\ IsLists(c)
  BY <1>2 DEF IsLists, ListsIn
<1>4. Keeps(c.swarm, d.swarm) /\ Keeps(c.filters, d.filters)
  BY <1>2, KeepsItself
<1>5. OnceIn(f, d, 14)
  BY <1>2 DEF OnceIn, ListsIn
<1>6. NewIn(l, d, 14)
  BY <1>2, <1>3, NewInIs DEF ListsIn
<1>7. ListsIn(f, l, e, d, 14)
  <2>1. 13 \in 12 .. 15 /\ 14 = 13 + 1
    OBVIOUS
  <2>2. Through(f, l, c, d, 14)
    BY <1>3, <1>4, <1>5, <1>6 DEF Through
  <2> QED BY <2>1, <2>2, ListsStep
<1> QED BY <1>1, <1>7

\* ... 14-to-15 ...
LEMMA ListsThrough14 ==
  ASSUME NEW f, NEW l, NEW e, NEW c, IsLists(f), IsConfig(c), ListsIn(f, l, e, c, 14)
  PROVE  ListsIn(f, l, e, Convert14(c), 15)
<1>1. PICK d : d = Convert14(c)
  OBVIOUS
<1>2. /\ c.swarm \in Seq(Address) /\ c.noAnnounce \in Seq(Address)
      /\ c.filters \in Seq(Address) /\ c.bootstrap \in Seq(Names) /\ IsLists(c)
  BY ListsAre DEF ListsIn
<1>3. /\ d.swarm = ReplaceQuic(c.swarm) /\ d.noAnnounce = ReplaceQuic(c.noAnnounce)
      /\ d.filters = c.filters /\ d.bootstrap = ReplaceBootstrap(c.bootstrap)
  BY <1>1, ListsOf14
<1>4. /\ d.swarm \in Seq(Address) /\ Once(d.swarm) /\ Keeps(c.swarm, d.swarm)
      /\ d.noAnnounce \in Seq(Address) /\ Once(d.noAnnounce)
      /\ Keeps(c.filters, d.filters)
  BY <1>2, <1>3, ReplaceQuicRule, ReplaceQuicKeeps, KeepsItself
<1>5. IsLists(d)
  BY <1>2, <1>3, <1>4, ListsAre, BootstrapReplaced
<1>6. OnceIn(f, d, 15)
  <2>1. (\A g \in {"swarm", "noAnnounce", "filters"} : Once(f[g])) =>
          \A g \in {"swarm", "noAnnounce", "filters"} : Once(d[g])
    BY <1>3, <1>4 DEF OnceIn, ListsIn
  <2>2. OnceEach(f.bootstrap) /\ ~Contains(P2p(f.bootstrap), "quic-v1") => OnceEach(d.bootstrap)
    BY <1>2, <1>3, BootstrapReplaced DEF OnceIn, ListsIn
  <2> QED BY <2>1, <2>2 DEF OnceIn
<1>7. /\ NoneQuic(d.swarm) /\ NoneQuic(d.noAnnounce)
      /\ AllWebtransport(c.swarm) => AllWebtransport(d.swarm)
  BY <1>2, <1>3, ReplaceQuicNew
<1>8. 12 \notin l => AllWebtransport(c.swarm)
  BY <1>2, NewInIs DEF ListsIn
<1>9. NewIn(l, d, 15)
  <2>1. 9 \notin l => P2p(d.bootstrap) = d.bootstrap
    BY <1>2, <1>3, BootstrapReplaced DEF ListsIn, NewIn
  <2> QED BY <1>5, <1>7, <1>8, <2>1, NewInIs
<1>10. ListsIn(f, l, e, d, 15)
  <2>1. 14 \in 12 .. 15 /\ 15 = 14 + 1
    OBVIOUS
  <2>2. Through(f, l, c, d, 15)
    BY <1>4, <1>5, <1>6, <1>9 DEF Through
  <2> QED BY <2>1, <2>2, ListsStep
<1> QED BY <1>1, <1>10

\* ... and 15-to-16.
LEMMA ListsThrough15 ==
  ASSUME NEW f, NEW l, NEW e, NEW c, IsLists(f), IsConfig(c), ListsIn(f, l, e, c, 15)
  PROVE  ListsIn(f, l, e, Convert15(c), 16)
<1>1. PICK d : d = Convert15(c)
  OBVIOUS
<1>2. /\ c.swarm \in Seq(Address) /\ c.noAnnounce \in Seq(Address)
      /\ c.filters \in Seq(Address) /\ c.bootstrap \in Seq(Names) /\ IsLists(c)
  BY ListsAre DEF ListsIn
<1>3. /\ d.swarm = AddWebrtc(c.swarm) /\ d.noAnnounce = AddWebrtc(c.noAnnounce)
      /\ d.filters = c.filters /\ d.bootstrap = c.bootstrap
  BY <1>1, ListsOf15
<1>4. /\ d.swarm \in Seq(Address) /\ Once(d.swarm) /\ Keeps(c.swarm, d.swarm)
      /\ d.noAnnounce \in Seq(Address) /\ Once(d.noAnnounce)
      /\ Keeps(c.filters, d.filters)
  BY <1>2, <1>3, AddWebrtcRule, AddWebrtcKeeps, KeepsItself
<1>5. IsLists(d)
  BY <1>2, <1>3, <1>4, ListsAre
<1>6. OnceIn(f, d, 16)
  BY <1>3, <1>4 DEF OnceIn, ListsIn
<1>7. /\ AllWebrtc(d.swarm)
      /\ AllWebtransport(c.swarm) => AllWebtransport(d.swarm)
      /\ NoneQuic(c.swarm) => NoneQuic(d.swarm)
      /\ NoneQuic(c.noAnnounce) => NoneQuic(d.noAnnounce)
  BY <1>2, <1>3, AddWebrtcNew
<1>8. /\ 12 \notin l => AllWebtransport(c.swarm)
      /\ 14 \notin l => NoneQuic(c.swarm) /\ NoneQuic(c.noAnnounce)
  BY <1>2, NewInIs DEF ListsIn
<1>9. NewIn(l, d, 16)
  <2>1. 9 \notin l => P2p(d.bootstrap) = d.bootstrap
    BY <1>3 DEF ListsIn, NewIn
  <2> QED BY <1>5, <1>7, <1>8, <2>1, NewInIs
<1>10. ListsIn(f, l, e, d, 16)
  <2>1. 15 \in 12 .. 15 /\ 16 = 15 + 1
    OBVIOUS
  <2>2. Through(f, l, c, d, 16)
    BY <1>4, <1>5, <1>6, <1>9 DEF Through
  <2> QED BY <2>1, <2>2, ListsStep
<1> QED BY <1>1, <1>10

\* Each of the four.
LEMMA ConvertLists ==
  ASSUME NEW f, NEW l, NEW e, NEW c, NEW n \in BackedUp, IsLists(f), IsConfig(c), ListsIn(f, l, e, c, n)
  PROVE  ListsIn(f, l, e, Convert(n, c), n + 1)
<1>1. n \in {12, 13, 14, 15}
  BY DEF BackedUp
<1> QED BY <1>1, ListsThrough12, ListsThrough13, ListsThrough14, ListsThrough15 DEF Convert

\* The lists of what 9-to-10 makes of a config.
LEMMA ListsOf9 ==
  ASSUME NEW c, IsConfig(c), IsLists(c)
  PROVE  /\ Convert9(c).filters = c.filters
         /\ Convert9(c).bootstrap = Ver9to10Bootstrap(c.bootstrap)
         /\ QuicFree(c) => /\ Convert9(c).swarm = AddQuic(c.swarm)
                           /\ Convert9(c).noAnnounce = AddQuic(c.noAnnounce)
         /\ ~QuicFree(c) => Convert9(c).swarm = c.swarm /\ Convert9(c).noAnnounce = c.noAnnounce
<1>1. PICK b : b = [c EXCEPT !.bootstrap = Ver9to10Bootstrap(@)]
  OBVIOUS
<1>2. /\ b.swarm = c.swarm /\ b.noAnnounce = c.noAnnounce /\ b.filters = c.filters
      /\ b.bootstrap = Ver9to10Bootstrap(c.bootstrap) /\ IsConfig(b)
  BY <1>1 DEF IsConfig
<1>3. (\E k \in DOMAIN (c.swarm \o c.noAnnounce) : Ends((c.swarm \o c.noAnnounce)[k], "quic"))
        <=> ~QuicFree(c)
  <2>1. DOMAIN c.swarm = 1 .. Len(c.swarm) /\ DOMAIN c.noAnnounce = 1 .. Len(c.noAnnounce)
    BY ListsAre
  <2> QED BY <2>1, AnyQuic DEF QuicFree
<1>4. Convert9(c) = IF QuicFree(c)
                    THEN [b EXCEPT !.swarm = AddQuic(@), !.noAnnounce = AddQuic(@)] ELSE b
  BY <1>1, <1>2, <1>3 DEF Convert9, Ver9to10Addresses
<1>5. CASE QuicFree(c)
  <2>1. Convert9(c) = [b EXCEPT !.swarm = AddQuic(@), !.noAnnounce = AddQuic(@)]
    BY <1>4, <1>5
  <2>2. /\ Convert9(c).swarm = AddQuic(b.swarm) /\ Convert9(c).noAnnounce = AddQuic(b.noAnnounce)
        /\ Convert9(c).filters = b.filters /\ Convert9(c).bootstrap = b.bootstrap
    BY <1>2, <2>1 DEF IsConfig
  <2> QED BY <1>2, <1>5, <2>2
<1>6. CASE ~QuicFree(c)
  BY <1>2, <1>4, <1>6
<1> QED BY <1>5, <1>6

\* None is added a second time.
LEMMA BootstrapperAdded ==
  ASSUME NEW list \in Seq(Names)
  PROVE  /\ AddBootstrapper(list) \in Seq(Names)
         /\ IsInjective(list) => IsInjective(AddBootstrapper(list))
         /\ ~Contains(list, "quic-v1") => ~Contains(AddBootstrapper(list), "quic-v1")
         /\ AddBootstrapper(AddBootstrapper(list)) = AddBootstrapper(list)
         /\ P2p(list) = list => P2p(AddBootstrapper(list)) = AddBootstrapper(list)
<1>1. CASE ~Contains(list, "tcp") \/ Contains(list, "quic")
  BY <1>1 DEF AddBootstrapper
<1>2. CASE Contains(list, "tcp") /\ ~Contains(list, "quic")
  <2>1. PICK r : r = Append(list, "quic") /\ r = AddBootstrapper(list)
    BY <1>2 DEF AddBootstrapper
  <2>2. "quic" \in Names
    BY NamesAssumption
  <2>3. /\ r \in Seq(Names) /\ Len(r) = Len(list) + 1 /\ r[Len(list) + 1] = "quic"
        /\ \A i \in 1 .. Len(list) : r[i] = list[i]
        /\ Len(list) \in Nat
    BY <2>1, <2>2
  <2>4. \A x : Contains(r, x) <=> Contains(list, x) \/ x = "quic"
    BY <2>3 DEF Contains
  <2>5. ASSUME IsInjective(list) PROVE IsInjective(r)
    <3>1. \A j, k \in 1 .. Len(list) : list[j] = list[k] => j = k
      BY <2>5 DEF IsInjective
    <3>2. \A j \in 1 .. Len(list) : list[j] # "quic"
      BY <1>2 DEF Contains
    <3>3. DOMAIN r = 1 .. (Len(list) + 1)
      BY <2>3
    <3>4. \A j \in 1 .. (Len(list) + 1) : j = Len(list) + 1 \/ j \in 1 .. Len(list)
      BY <2>3
    <3>5. \A j, k \in DOMAIN r : r[j] = r[k] => j = k
      BY <2>3, <3>1, <3>2, <3>3, <3>4
    <3> QED BY <3>5, Zenon DEF IsInjective
  <2>6. AddBootstrapper(r) = r
    BY <2>4 DEF AddBootstrapper
  <2>7. ASSUME P2p(list) = list PROVE P2p(r) = r
    <3>1. /\ P2p(r) \in Seq(Names) /\ Len(P2p(r)) = Len(r)
          /\ \A k \in 1 .. Len(r) : P2p(r)[k] = Respelled[r[k]]
      BY <2>3, P2pIs
    <3>2. \A k \in 1 .. Len(list) : Respelled[list[k]] = list[k]
      BY <2>7, P2pIs
    <3>3. Respelled["quic"] = "quic"
      BY SpellingAssumption
    <3>4. \A k \in 1 .. Len(r) : P2p(r)[k] = r[k]
      BY <2>3, <3>1, <3>2, <3>3
    <3> QED BY <2>3, <3>1, <3>4
  <2> QED BY <2>1, <2>3, <2>4, <2>5, <2>6, <2>7
<1> QED BY <1>1, <1>2

\* 9-to-10 makes no bootstrapper of two that differ in more than their
\* spelling, leaves none in the old one and adds none a second time.
LEMMA BootstrapAdded ==
  ASSUME NEW list \in Seq(Names)
  PROVE  /\ Ver9to10Bootstrap(list) \in Seq(Names)
         /\ P2p(Ver9to10Bootstrap(list)) = Ver9to10Bootstrap(list)
         /\ OnceEach(list) => OnceEach(Ver9to10Bootstrap(list))
         /\ ~Contains(P2p(list), "quic-v1") => ~Contains(P2p(Ver9to10Bootstrap(list)), "quic-v1")
         /\ Ver9to10Bootstrap(Ver9to10Bootstrap(list)) = Ver9to10Bootstrap(list)
<1>1. PICK s \in Seq(Names) : s = P2p(list) /\ P2p(s) = s
  BY P2pIs
<1>2. PICK r \in Seq(Names) : r = AddBootstrapper(s) /\ P2p(r) = r
  BY <1>1, BootstrapperAdded
<1>3. Ver9to10Bootstrap(list) = r /\ Ver9to10Bootstrap(r) = AddBootstrapper(r)
  BY <1>1, <1>2 DEF Ver9to10Bootstrap
<1>4. /\ IsInjective(s) => IsInjective(r)
      /\ ~Contains(s, "quic-v1") => ~Contains(r, "quic-v1")
      /\ AddBootstrapper(r) = r
  BY <1>2, BootstrapperAdded
<1> QED BY <1>1, <1>2, <1>3, <1>4 DEF OnceEach

\* After 9-to-10 an owner who had no listener for QUIC has the companions.
LEMMA Accompanied ==
  ASSUME NEW f, NEW c, NEW d, IsLists(f), IsLists(c), IsLists(d), NEW v, v <= 12, SuccessorsIn(f, c, v),
         d.swarm = AddQuic(c.swarm)
  PROVE  Companions(f, d)
<1> SUFFICES ASSUME NEW k \in DOMAIN f.swarm, Ends(f.swarm[k], "tcp")
             PROVE  HasLike(d.swarm, CompanionOf(f.swarm[k]))
  BY DEF Companions, CompanionOf
<1>1. PICK a \in Address : a = f.swarm[k]
  BY ListsAre
<1>2. Contains(c.swarm, a)
  BY <1>1 DEF SuccessorsIn
<1>3. c.swarm \in Seq(Address)
  BY ListsAre
<1>4. Contains(AddQuic(c.swarm), CompanionOf(a))
  BY <1>1, <1>2, <1>3, AddQuicRule DEF Contains
<1>5. CompanionOf(a) \in Address
  BY <1>1, CompanionFacts
<1>6. d.swarm \in Seq(Address)
  BY ListsAre
<1> QED BY <1>1, <1>4, <1>5, <1>6, LikeContains

\* 9-to-10 preserves what ListsIn says, from version 9 or again.
LEMMA ListsThrough9 ==
  ASSUME NEW f, NEW l, NEW m, NEW e, NEW c, IsLists(f), IsConfig(c), ListsIn(f, l, e, c, 9)
  PROVE  ListsIn(f, m, e, Convert9(c), 10)
<1>1. PICK d : d = Convert9(c)
  OBVIOUS
<1>2. /\ c.swarm \in Seq(Address) /\ c.noAnnounce \in Seq(Address)
      /\ c.filters \in Seq(Address) /\ c.bootstrap \in Seq(Names) /\ IsLists(c)
  BY ListsAre DEF ListsIn
<1>3. /\ d.filters = c.filters /\ d.bootstrap = Ver9to10Bootstrap(c.bootstrap)
      /\ QuicFree(c) => d.swarm = AddQuic(c.swarm) /\ d.noAnnounce = AddQuic(c.noAnnounce)
      /\ ~QuicFree(c) => d.swarm = c.swarm /\ d.noAnnounce = c.noAnnounce
  BY <1>1, <1>2, ListsOf9
<1>4. /\ d.swarm \in Seq(Address) /\ Keeps(c.swarm, d.swarm) /\ Covers(d.swarm, c.swarm)
      /\ d.noAnnounce \in Seq(Address) /\ Keeps(c.filters, d.filters)
  <2>1. \A list \in Seq(Address) :
          /\ AddQuic(list) \in Seq(Address) /\ Keeps(list, AddQuic(list))
          /\ Covers(AddQuic(list), list)
    BY AddQuicRule, AddQuicKeeps DEF Covers
  <2>2. \A list : Keeps(list, list) /\ Covers(list, list)
    BY KeepsItself DEF Covers
  <2>3. CASE QuicFree(c)
    BY <1>2, <1>3, <2>1, <2>2, <2>3
  <2>4. CASE ~QuicFree(c)
    BY <1>2, <1>3, <2>2, <2>4
  <2> QED BY <2>3, <2>4
<1>5. IsLists(d)
  BY <1>2, <1>3, <1>4, ListsAre, BootstrapAdded
<1>6. OnceIn(f, d, 10)
  <2>1. QuicFree(c) => /\ \A k \in 1 .. Len(c.swarm) : ~Ends(c.swarm[k], "quic")
                       /\ \A k \in 1 .. Len(c.noAnnounce) : ~Ends(c.noAnnounce[k], "quic")
    <3>1. DOMAIN c.swarm = 1 .. Len(c.swarm) /\ DOMAIN c.noAnnounce = 1 .. Len(c.noAnnounce)
      BY <1>2
    <3> QED BY <3>1 DEF QuicFree
  <2>2. (Once(c.swarm) => Once(d.swarm)) /\ (Once(c.noAnnounce) => Once(d.noAnnounce))
    BY <1>2, <1>3, <2>1, AddQuicRule
  <2>3. (\A g \in {"swarm", "noAnnounce", "filters"} : Once(f[g])) =>
          \A g \in {"swarm", "noAnnounce", "filters"} : Once(d[g])
    BY <1>3, <2>2 DEF OnceIn, ListsIn
  <2>4. OnceEach(f.bootstrap) /\ ~Contains(P2p(f.bootstrap), "quic-v1") =>
          OnceEach(d.bootstrap) /\ ~Contains(P2p(d.bootstrap), "quic-v1")
    BY <1>2, <1>3, BootstrapAdded DEF OnceIn, ListsIn
  <2> QED BY <2>3, <2>4 DEF OnceIn
<1>7. KeepsIn(f, d)
  BY <1>4, KeepsInStep DEF ListsIn
<1>8. SuccessorsIn(f, d, 10)
  BY <1>4, SuccessorsStep DEF ListsIn
<1>9. NewIn(m, d, 10)
  <2>1. P2p(d.bootstrap) = d.bootstrap
    BY <1>2, <1>3, BootstrapAdded
  <2> QED BY <1>5, <2>1, NewInIs
<1>10. ASSUME NoQuicEdit(e) PROVE CompanionsIn(f, m, d, 10)
  <2> SUFFICES ASSUME QuicFree(f) PROVE Companions(f, d)
    BY DEF CompanionsIn
  <2>1. Companions(f, c) \/ QuicFree(c)
    BY <1>10 DEF ListsIn, CompanionsIn
  <2>2. CASE QuicFree(c)
    <3>1. SuccessorsIn(f, c, 9) /\ d.swarm = AddQuic(c.swarm) /\ 9 <= 12
      BY <1>3, <2>2 DEF ListsIn
    <3> QED BY <1>2, <1>5, <3>1, Accompanied
  <2>3. CASE Companions(f, c)
    BY <1>4, <2>3, CompanionsStep
  <2> QED BY <2>1, <2>2, <2>3
<1>11. ListsIn(f, m, e, d, 10)
  BY <1>5, <1>6, <1>7, <1>8, <1>9, <1>10 DEF ListsIn
<1> QED BY <1>1, <1>11

-----------------------------------------------------------------------------
(* 9-to-10 may be repeated                                                 *)

\* A config is its lists and its settings.
LEMMA SameConfig ==
  ASSUME NEW c, NEW d, IsConfig(c), IsConfig(d), SameSettings(c, d),
         c.swarm = d.swarm, c.noAnnounce = d.noAnnounce, c.filters = d.filters,
         c.bootstrap = d.bootstrap
  PROVE  c = d
<1> DEFINE F == {"swarm", "noAnnounce", "filters", "bootstrap", "connMgr", "reprovider",
                 "routing", "experimental", "headers"}
<1>1. c = [f \in F |-> c[f]] /\ d = [f \in F |-> d[f]]
  BY DEF IsConfig
<1>2. \A f \in F : c[f] = d[f]
  BY DEF SameSettings
<1> HIDE DEF F
<1> QED BY <1>1, <1>2

\* What 9-to-10 has converted it leaves alone.
LEMMA AddQuicTwice ==
  ASSUME NEW list \in Seq(Address), \A k \in 1 .. Len(AddQuic(list)) : ~Ends(AddQuic(list)[k], "quic")
  PROVE  AddQuic(AddQuic(list)) = AddQuic(list)
<1>1. \A x : Contains(AddQuic(list), x) => ~Ends(x, "quic")
  BY DEF Contains
<1>2. ASSUME NEW k \in 1 .. Len(list) PROVE ~Ends(list[k], "tcp")
  <2> SUFFICES ASSUME Ends(list[k], "tcp") PROVE FALSE
    OBVIOUS
  <2>1. Contains(AddQuic(list), CompanionOf(list[k]))
    BY AddQuicRule
  <2>2. list[k] \in Address
    OBVIOUS
  <2> QED BY <1>1, <2>1, <2>2, CompanionFacts
<1> QED BY <1>2, AddQuicRule

\* 9-to-10 leaves a config it has converted as it is: it may be repeated.
LEMMA Again ==
  ASSUME NEW c, IsConfig(c), IsLists(c)
  PROVE  Convert9(Convert9(c)) = Convert9(c)
<1>1. PICK d : d = Convert9(c)
  OBVIOUS
<1>2. PICK b : b = Convert9(d)
  OBVIOUS
<1>3. /\ c.swarm \in Seq(Address) /\ c.noAnnounce \in Seq(Address)
      /\ c.filters \in Seq(Address) /\ c.bootstrap \in Seq(Names)
  BY ListsAre
<1>4. IsConfig(d) /\ IsConfig(b) /\ SameSettings(b, d)
  BY <1>1, <1>2, Converted9 DEF SameSettings
<1>5. /\ d.filters = c.filters /\ d.bootstrap = Ver9to10Bootstrap(c.bootstrap)
      /\ QuicFree(c) => d.swarm = AddQuic(c.swarm) /\ d.noAnnounce = AddQuic(c.noAnnounce)
      /\ ~QuicFree(c) => d.swarm = c.swarm /\ d.noAnnounce = c.noAnnounce
  BY <1>1, ListsOf9
<1>6. d.swarm \in Seq(Address) /\ d.noAnnounce \in Seq(Address)
  BY <1>3, <1>5, AddQuicRule
<1>7. IsLists(d)
  BY <1>3, <1>5, <1>6, ListsAre, BootstrapAdded
<1>8. /\ b.filters = d.filters /\ b.bootstrap = Ver9to10Bootstrap(d.bootstrap)
      /\ QuicFree(d) => b.swarm = AddQuic(d.swarm) /\ b.noAnnounce = AddQuic(d.noAnnounce)
      /\ ~QuicFree(d) => b.swarm = d.swarm /\ b.noAnnounce = d.noAnnounce
  BY <1>2, <1>4, <1>7, ListsOf9
<1>9. b.bootstrap = d.bootstrap
  BY <1>3, <1>5, <1>8, BootstrapAdded
<1>10. b.swarm = d.swarm /\ b.noAnnounce = d.noAnnounce
  <2> SUFFICES ASSUME QuicFree(d) PROVE b.swarm = d.swarm /\ b.noAnnounce = d.noAnnounce
    BY <1>8
  <2>1. DOMAIN d.swarm = 1 .. Len(d.swarm) /\ DOMAIN d.noAnnounce = 1 .. Len(d.noAnnounce)
    BY <1>6
  <2>2. /\ \A k \in 1 .. Len(d.swarm) : ~Ends(d.swarm[k], "quic")
        /\ \A k \in 1 .. Len(d.noAnnounce) : ~Ends(d.noAnnounce[k], "quic")
    BY <2>1 DEF QuicFree
  <2>3. QuicFree(c)
    <3>1. CASE ~QuicFree(c)
      <4>1. d.swarm = c.swarm /\ d.noAnnounce = c.noAnnounce
        BY <1>5, <3>1
      <4> QED BY <4>1 DEF QuicFree
    <3> QED BY <3>1
  <2>4. d.swarm = AddQuic(c.swarm) /\ d.noAnnounce = AddQuic(c.noAnnounce)
    BY <1>5, <2>3
  <2>5. AddQuic(d.swarm) = d.swarm
    BY <1>3, <2>2, <2>4, AddQuicTwice
  <2>6. AddQuic(d.noAnnounce) = d.noAnnounce
    BY <1>3, <2>2, <2>4, AddQuicTwice
  <2> QED BY <1>8, <2>5, <2>6
<1>11. b = d
  BY <1>4, <1>8, <1>9, <1>10, SameConfig
<1> QED BY <1>1, <1>2, <1>11

-----------------------------------------------------------------------------
(* The lists of the config and of the backups, at every step               *)

\* The config of version 9.
LEMMA ListsStart ==
  ASSUME NEW f, IsLists(f), NEW l, NEW e PROVE ListsIn(f, l, e, f, 9)
<1>1. NewIn(l, f, 9)
  BY NewInIs
<1>2. OnceIn(f, f, 9)
  BY DEF OnceIn
<1>3. CompanionsIn(f, l, f, 9)
  BY DEF CompanionsIn
<1> QED BY <1>1, <1>2, <1>3, KeepsInStart, SuccessorsStart DEF ListsIn

\* Below version 13 the lists are as they are at any other version there, but
\* for what 9-to-10 adds.
LEMMA ListsLow ==
  ASSUME NEW f, NEW l, NEW m, NEW e, NEW c, NEW v \in 9 .. 12, NEW u \in 9 .. 12,
         ListsIn(f, l, e, c, v), u >= 10 /\ 9 \notin m => v >= 10 /\ 9 \notin l
  PROVE  ListsIn(f, m, e, c, u)
<1>1. NewIn(m, c, u)
  BY NewInIs DEF ListsIn
<1>2. OnceIn(f, c, u)
  BY DEF OnceIn, ListsIn
<1>3. SuccessorsIn(f, c, u)
  BY DEF SuccessorsIn, ListsIn
<1>4. NoQuicEdit(e) => CompanionsIn(f, m, c, u)
  BY DEF CompanionsIn, ListsIn
<1> QED BY <1>1, <1>2, <1>3, <1>4 DEF ListsIn

\* A migration may raise the version and leave what it found.
LEMMA ListsLost ==
  ASSUME NEW f, NEW l, NEW e, NEW c, NEW n \in 12 .. 15, ListsIn(f, l, e, c, n)
  PROVE  ListsIn(f, l \cup {n}, e, c, n + 1)
<1>1. NewIn(l \cup {n}, c, n + 1)
  BY NewInIs DEF ListsIn
<1>2. OnceIn(f, c, n + 1)
  BY DEF OnceIn, ListsIn
<1>3. SuccessorsIn(f, c, n + 1)
  BY DEF SuccessorsIn, ListsIn
<1>4. NoQuicEdit(e) => CompanionsIn(f, l \cup {n}, c, n + 1)
  BY DEF CompanionsIn, ListsIn
<1> QED BY <1>1, <1>2, <1>3, <1>4 DEF ListsIn

\* With another conversion lost, less has to hold.
LEMMA ListsLostMore ==
  ASSUME NEW f, NEW l, NEW n, NEW e, NEW c, NEW v, ListsIn(f, l, e, c, v)
  PROVE  ListsIn(f, l \cup {n}, e, c, v)
<1>1. NewIn(l \cup {n}, c, v)
  BY NewInIs DEF ListsIn
<1>2. NoQuicEdit(e) => CompanionsIn(f, l \cup {n}, c, v)
  BY DEF CompanionsIn, ListsIn
<1> QED BY <1>1, <1>2 DEF ListsIn

\* One address more.
LEMMA AppendedList ==
  ASSUME NEW list \in Seq(Address), NEW a \in Address, NEW r, r = Append(list, a)
  PROVE  /\ r \in Seq(Address) /\ Keeps(list, r) /\ Covers(r, list)
         /\ \A x : Contains(r, x) <=> Contains(list, x) \/ x = a
         /\ ~Contains(list, a) /\ Once(list) => Once(r)
<1>0. <<a>> \in Seq(Address)
  OBVIOUS
<1>1. PICK t \in Seq(Address) : t = <<a>>
  BY <1>0
<1>2. r = list \o t
  BY <1>1
<1>3. \A x : Contains(t, x) <=> x = a
  BY <1>1, ContainsOne
<1>4. Once(t)
  BY <1>1 DEF Once
<1>5. r \in Seq(Address) /\ \A x : Contains(r, x) <=> Contains(list, x) \/ x = a
  BY <1>2, <1>3, JoinedIn, Joined
<1>6. Ordered(list, r)
  BY <1>2, JoinedAhead DEF Ordered
<1>7. Keeps(list, r)
  BY <1>5, <1>6, KeepsMore
<1>8. ~Contains(list, a) /\ Once(list) => Once(r)
  BY <1>2, <1>3, <1>4, JoinedOnce
<1> QED BY <1>5, <1>7, <1>8 DEF Covers

\* An edit loses no successor.
LEMMA SuccessorsEdited ==
  ASSUME NEW f, NEW c, NEW d, IsLists(f), Keeps(c.swarm, d.swarm), SuccessorsIn(f, c, 12),
         Covers(d.swarm, c.swarm)
  PROVE  SuccessorsIn(f, d, 12)
<1>1. PICK v : v = 12 /\ v <= 12
  OBVIOUS
<1>2. SuccessorsIn(f, c, v) /\ (v <= 12 => v <= 12 /\ Covers(d.swarm, c.swarm))
  BY <1>1
<1>3. SuccessorsIn(f, d, v)
  BY <1>2, SuccessorsStep, Zenon
<1> QED BY <1>1, <1>3

\* An edit more says less about what edits cannot have done.
LEMMA FewerEdits == ASSUME NEW e \in Nat, NoQuicEdit(e + 1) PROVE NoQuicEdit(e)
BY DEF NoQuicEdit

\* Of what is new at a version, version 12 has the spelling.
LEMMA Spelled12 ==
  ASSUME NEW f, NEW l, NEW e, NEW c, ListsIn(f, l, e, c, 12), 9 \notin l
  PROVE  P2p(c.bootstrap) = c.bootstrap
<1>1. NewIn(l, c, 12) /\ 12 >= 10
  BY DEF ListsIn
<1> QED BY <1>1 DEF NewIn

LEMMA New12 ==
  ASSUME NEW l, NEW c, 9 \notin l => P2p(c.bootstrap) = c.bootstrap
  PROVE  NewIn(l, c, 12)
<1>1. PICK v \in Int : v = 12
  OBVIOUS
<1>2. ~(v >= 13) /\ ~(v >= 15) /\ v # 16
  BY <1>1
<1>3. NewIn(l, c, v)
  BY <1>2 DEF NewIn
<1> QED BY <1>1, <1>3

\* The owner adds a listener.
LEMMA ListsListener ==
  ASSUME NEW f, NEW l, NEW e \in Nat, NEW c, IsLists(f), IsConfig(c), ListsIn(f, l, e, c, 12),
         NEW a \in Extras, ~Contains(c.swarm, a), NEW d, d = [c EXCEPT !.swarm = Append(@, a)]
  PROVE  ListsIn(f, l, e + 1, d, 12)
<1>1. /\ d.swarm = Append(c.swarm, a) /\ d.noAnnounce = c.noAnnounce /\ d.filters = c.filters
      /\ d.bootstrap = c.bootstrap
  BY DEF IsConfig
<1>2. /\ c.swarm \in Seq(Address) /\ c.noAnnounce \in Seq(Address)
      /\ c.filters \in Seq(Address) /\ c.bootstrap \in Seq(Names) /\ IsLists(c)
  BY ListsAre DEF ListsIn
<1>3. a \in Address
  BY ExtrasAssumption DEF Address
<1>4. /\ d.swarm \in Seq(Address) /\ Keeps(c.swarm, d.swarm) /\ Covers(d.swarm, c.swarm)
      /\ \A x : Contains(d.swarm, x) <=> Contains(c.swarm, x) \/ x = a
      /\ Once(c.swarm) => Once(d.swarm)
  BY <1>1, <1>2, <1>3, AppendedList
<1>5. IsLists(d)
  BY <1>1, <1>2, <1>4, ListsAre
<1>6. OnceIn(f, d, 12)
  BY <1>1, <1>4 DEF OnceIn, ListsIn
<1>7. KeepsIn(f, d)
  BY <1>1, <1>4, KeepsItself, KeepsInStep DEF ListsIn
<1>8. SuccessorsIn(f, d, 12)
  <2>1. SuccessorsIn(f, c, 12)
    BY DEF ListsIn
  <2> QED BY <1>4, <2>1, SuccessorsEdited
<1>9. NewIn(l, d, 12)
  <2>1. 9 \notin l => P2p(d.bootstrap) = d.bootstrap
    BY <1>1, Spelled12
  <2> QED BY <2>1, New12
<1>10. ASSUME NoQuicEdit(e + 1) PROVE CompanionsIn(f, l, d, 12)
  <2>1. ~Ends(a, "quic")
    BY <1>10 DEF NoQuicEdit
  <2>2. CompanionsIn(f, l, c, 12)
    BY <1>10, FewerEdits DEF ListsIn
  <2>3. Companions(f, c) => Companions(f, d)
    BY <1>4, CompanionsStep
  <2>4. QuicFree(c) => QuicFree(d)
    <3>1. /\ DOMAIN c.swarm = 1 .. Len(c.swarm) /\ DOMAIN d.swarm = 1 .. Len(d.swarm)
      BY <1>2, <1>4
    <3>2. (\A k \in DOMAIN c.swarm : ~Ends(c.swarm[k], "quic")) =>
             \A k \in DOMAIN d.swarm : ~Ends(d.swarm[k], "quic")
      BY <1>4, <2>1, <3>1 DEF Contains
    <3> QED BY <1>1, <3>2 DEF QuicFree
  <2> QED BY <2>2, <2>3, <2>4 DEF CompanionsIn
<1> QED BY <1>5, <1>6, <1>7, <1>8, <1>9, <1>10 DEF ListsIn

\* The owner denies all that is listened to.
LEMMA ListsDenied ==
  ASSUME NEW f, NEW l, NEW e \in Nat, NEW c, IsLists(f), IsConfig(c), ListsIn(f, l, e, c, 12),
         NEW d, d = [c EXCEPT !.noAnnounce = c.swarm]
  PROVE  ListsIn(f, l, e + 1, d, 12)
<1>1. /\ d.swarm = c.swarm /\ d.noAnnounce = c.swarm /\ d.filters = c.filters
      /\ d.bootstrap = c.bootstrap
  BY DEF IsConfig
<1>2. IsLists(d) /\ IsLists(c)
  BY <1>1 DEF IsLists, ListsIn
<1>3. Keeps(c.swarm, d.swarm) /\ Keeps(c.filters, d.filters) /\ Covers(d.swarm, c.swarm)
  BY <1>1, KeepsItself DEF Covers
<1>4. OnceIn(f, d, 12)
  BY <1>1 DEF OnceIn, ListsIn
<1>5. KeepsIn(f, d)
  BY <1>3, KeepsInStep DEF ListsIn
<1>6. SuccessorsIn(f, d, 12)
  <2>1. SuccessorsIn(f, c, 12)
    BY DEF ListsIn
  <2> QED BY <1>3, <2>1, SuccessorsEdited
<1>7. NewIn(l, d, 12)
  <2>1. 9 \notin l => P2p(d.bootstrap) = d.bootstrap
    BY <1>1, Spelled12
  <2> QED BY <2>1, New12
<1>8. ASSUME NoQuicEdit(e + 1) PROVE CompanionsIn(f, l, d, 12)
  <2>1. CompanionsIn(f, l, c, 12)
    BY <1>8, FewerEdits DEF ListsIn
  <2>2. Companions(f, c) => Companions(f, d)
    BY <1>3, CompanionsStep
  <2>3. QuicFree(c) => QuicFree(d)
    BY <1>1 DEF QuicFree
  <2> QED BY <2>1, <2>2, <2>3 DEF CompanionsIn
<1> QED BY <1>2, <1>4, <1>5, <1>6, <1>7, <1>8 DEF ListsIn

\* Every step keeps what the lists of the config and of the backups have of
\* the owner's.
LEMMA ListsInvStep ==
  ListsInv /\ SettingsInv /\ LostForGood /\ ConfigTypes /\ [Next]_vars => ListsInv'
<1> SUFFICES ASSUME ListsInv, SettingsInv, LostForGood, ConfigTypes, [Next]_vars PROVE ListsInv'
  OBVIOUS
<1>0. /\ version \in 9 .. 16 /\ edits \in Nat
      /\ IsLists(first) /\ IsConfig(cfg)
      /\ \A n \in BackedUp : backup[n] # NoFile => IsConfig(backup[n])
  BY ConfigsAssumption DEF SettingsInv, ConfigTypes, FaultType
<1>c. ListsIn(first, lost, edits, cfg, version)
  BY DEF ListsInv
<1>b. \A n \in BackedUp : backup[n] # NoFile => ListsIn(first, lost, edits, backup[n], n)
  BY DEF ListsInv
<1>n. version <= 12 => \A n \in BackedUp : backup[n] = NoFile
  BY <1>0 DEF LostForGood, BackedUp
<1>1. CASE PinStep /\ UNCHANGED configVars
  <2>1. version' = version \/ (version \in 10 .. 11 /\ version' \in 10 .. 11)
    BY <1>1, PinVersions DEF ConfigTypes
  <2>2. /\ cfg' = cfg /\ backup' = backup /\ first' = first /\ lost' = lost /\ edits' = edits
    BY <1>1 DEF configVars
  <2>3. ListsIn(first, lost, edits, cfg, version')
    BY <1>c, <2>1, ListsLow
  <2> QED BY <1>b, <2>2, <2>3 DEF ListsInv
<1>2. CASE Apply9 \/ Apply9Killed
  <2>1. /\ version = 9 /\ cfg' = Convert9(cfg) /\ backup' = backup /\ first' = first /\ edits' = edits
        /\ version' = 10 \/ (version' = 9 /\ lost' = lost)
    BY <1>2 DEF Apply9, Apply9Killed
  <2>2. ListsIn(first, lost', edits, cfg', 10)
    BY <1>0, <1>c, <2>1, ListsThrough9
  <2>3. ListsIn(first, lost', edits, cfg', version')
    <3>1. version' = 9 => ListsIn(first, lost', edits, cfg', 9)
      BY <2>2, ListsLow
    <3> QED BY <2>1, <2>2, <3>1
  <2> QED BY <1>n, <2>1, <2>3 DEF ListsInv
<1>3. CASE Apply9Unsaved
  <2>1. /\ version = 9 /\ cfg' = cfg /\ backup' = backup /\ first' = first /\ edits' = edits
        /\ version' = 10 /\ 9 \in lost'
    BY <1>3 DEF Apply9Unsaved
  <2>2. ListsIn(first, lost', edits, cfg, 10)
    BY <1>c, <2>1, ListsLow
  <2> QED BY <1>n, <2>1, <2>2 DEF ListsInv
<1>4. CASE Revert9
  <2>1. /\ version = 10 /\ version' = 9
        /\ cfg' = cfg /\ backup' = backup /\ first' = first /\ lost' = lost /\ edits' = edits
    BY <1>4 DEF Revert9, configVars
  <2>2. ListsIn(first, lost, edits, cfg, 9)
    BY <1>c, <2>1, ListsLow
  <2> QED BY <1>b, <2>1, <2>2 DEF ListsInv
<1>5. CASE SwapCids
  <2>1. /\ version \in {11, 12} /\ version' \in {11, 12}
        /\ cfg' = cfg /\ backup' = backup /\ first' = first /\ lost' = lost /\ edits' = edits
    BY <1>5 DEF SwapCids, configVars
  <2>2. ListsIn(first, lost, edits, cfg, version')
    BY <1>c, <2>1, ListsLow
  <2> QED BY <1>b, <2>1, <2>2 DEF ListsInv
<1>6. CASE Edit
  <2>1. /\ version = 12 /\ version' = 12 /\ edits' = edits + 1
        /\ backup' = backup /\ first' = first /\ lost' = lost
        /\ \/ \E a \in Extras : ~Contains(cfg.swarm, a) /\ cfg' = [cfg EXCEPT !.swarm = Append(@, a)]
           \/ cfg' = [cfg EXCEPT !.noAnnounce = cfg.swarm]
    BY <1>6 DEF Edit
  <2>2. ListsIn(first, lost, edits, cfg, 12)
    BY <1>c, <2>1
  <2>3. ListsIn(first, lost, edits + 1, cfg', 12)
    <3>1. ASSUME NEW a \in Extras, ~Contains(cfg.swarm, a), cfg' = [cfg EXCEPT !.swarm = Append(@, a)]
          PROVE  ListsIn(first, lost, edits + 1, cfg', 12)
      BY <1>0, <2>2, <3>1, ListsListener
    <3>2. CASE cfg' = [cfg EXCEPT !.noAnnounce = cfg.swarm]
      BY <1>0, <2>2, <3>2, ListsDenied
    <3> QED BY <2>1, <3>1, <3>2
  <2> QED BY <1>n, <2>1, <2>3 DEF ListsInv
<1>7. ASSUME NEW n \in BackedUp, Apply(n) PROVE ListsInv'
  <2>1. /\ version = n /\ version' = n + 1 /\ lost' = lost /\ first' = first /\ edits' = edits
        /\ cfg' = Convert(n, cfg) /\ backup' = [backup EXCEPT ![n] = cfg]
    BY <1>7 DEF Apply, LostForGood, BackedUp
  <2>2. ListsIn(first, lost, edits, cfg', n + 1)
    BY <1>0, <1>c, <2>1, ConvertLists
  <2>3. \A m \in BackedUp : backup'[m] = IF m = n THEN cfg ELSE backup[m]
    BY <2>1 DEF ConfigTypes
  <2>4. \A m \in BackedUp : backup'[m] # NoFile => ListsIn(first, lost, edits, backup'[m], m)
    BY <1>b, <1>c, <2>1, <2>3
  <2> QED BY <2>1, <2>2, <2>4 DEF ListsInv
<1>8. ASSUME NEW n \in BackedUp, ApplyKilled(n) PROVE ListsInv'
  <2>1. /\ version = n /\ version' = n + 1 /\ first' = first /\ edits' = edits /\ backup' = backup
        /\ \/ cfg' = cfg /\ lost' = lost \cup {n}
           \/ cfg' = Convert(n, cfg) /\ lost' = lost
    BY <1>8 DEF ApplyKilled, LostForGood, BackedUp
  <2>2. ListsIn(first, lost', edits, cfg', n + 1)
    <3>1. CASE cfg' = cfg /\ lost' = lost \cup {n}
      BY <1>c, <2>1, <3>1, ListsLost DEF BackedUp
    <3>2. CASE cfg' = Convert(n, cfg) /\ lost' = lost
      BY <1>0, <1>c, <2>1, <3>2, ConvertLists
    <3> QED BY <2>1, <3>1, <3>2
  <2>3. \A m \in BackedUp : backup[m] # NoFile => ListsIn(first, lost', edits, backup[m], m)
    <3> SUFFICES ASSUME NEW m \in BackedUp, backup[m] # NoFile
                 PROVE  ListsIn(first, lost', edits, backup[m], m)
      OBVIOUS
    <3>1. ListsIn(first, lost, edits, backup[m], m)
      BY <1>b
    <3>2. ListsIn(first, lost \cup {n}, edits, backup[m], m)
      BY <3>1, ListsLostMore
    <3> QED BY <2>1, <3>1, <3>2
  <2> QED BY <2>1, <2>2, <2>3 DEF ListsInv
<1>9. ASSUME NEW n \in BackedUp, Revert(n) \/ RevertKilled(n) PROVE ListsInv'
  <2>1. /\ first' = first /\ edits' = edits /\ cfg' = backup[n] /\ backup[n] # NoFile
        /\ backup' = [backup EXCEPT ![n] = NoFile]
        /\ \/ version' = n /\ lost' = lost
           \/ version' = n + 1 /\ lost' = lost \cup {n}
    BY <1>9 DEF Revert, RevertKilled
  <2>2. ListsIn(first, lost, edits, cfg', n)
    BY <1>b, <2>1
  <2>3. ListsIn(first, lost', edits, cfg', version')
    <3>1. CASE version' = n /\ lost' = lost
      BY <2>2, <3>1
    <3>2. CASE version' = n + 1 /\ lost' = lost \cup {n}
      BY <2>2, <3>2, ListsLost DEF BackedUp
    <3> QED BY <2>1, <3>1, <3>2
  <2>4. \A m \in BackedUp : backup'[m] = IF m = n THEN NoFile ELSE backup[m]
    BY <2>1 DEF ConfigTypes
  <2>5. \A m \in BackedUp : backup'[m] # NoFile => ListsIn(first, lost', edits, backup'[m], m)
    <3> SUFFICES ASSUME NEW m \in BackedUp, backup'[m] # NoFile
                 PROVE  ListsIn(first, lost', edits, backup'[m], m)
      OBVIOUS
    <3>1. backup'[m] = backup[m] /\ ListsIn(first, lost, edits, backup[m], m)
      BY <1>b, <2>4
    <3>2. ListsIn(first, lost \cup {n}, edits, backup[m], m)
      BY <3>1, ListsLostMore
    <3> QED BY <2>1, <3>1, <3>2
  <2> QED BY <2>1, <2>3, <2>5 DEF ListsInv
<1>10. CASE UNCHANGED vars
  BY <1>c, <1>b, <1>10 DEF vars, configVars, ListsInv
<1> QED BY <1>1, <1>2, <1>3, <1>4, <1>5, <1>6, <1>7, <1>8, <1>9, <1>10 DEF Next

\* It holds at first.
LEMMA ListsInit == Init => ListsInv
<1> SUFFICES ASSUME Init PROVE ListsInv
  OBVIOUS
<1>1. /\ IsLists(first) /\ cfg = first /\ version = 9
      /\ \A n \in BackedUp : backup[n] = NoFile
  BY ConfigsAssumption DEF Init
<1> QED BY <1>1, ListsStart DEF ListsInv

\* The owner's addresses without /quic are in the config at every version, and
\* those that no rule is about in their order: for any lists of the owner's and
\* any upgrades, downgrades, edits, kills and failures.
THEOREM AddressesKept == Spec => []KeepsAddresses
<1>1. ListsInv => KeepsAddresses
  BY DEF ListsInv, ListsIn, KeepsIn, KeepsAddresses
<1> QED BY <1>1, ConfigInit, ListsInit, LostStep, SettingsStep, ListsInvStep, PTL DEF Spec

\* No migration, and no repetition of one, enters an address or a bootstrapper
\* twice where the owner has none twice, be it in two spellings.
THEOREM NoneEnteredTwice == Spec => []NoDuplicates
<1>1. ListsInv => NoDuplicates
  BY DEF ListsInv, ListsIn, OnceIn, NoDuplicates
<1> QED BY <1>1, ConfigInit, ListsInit, LostStep, SettingsStep, ListsInvStep, PTL DEF Spec

\* In a list without /quic, what is like an address is its successor.
LEMMA LikeHeld ==
  ASSUME NEW list \in Seq(Address), \A k \in DOMAIN list : ~Has(list[k], "quic"),
         NEW a, HasLike(list, a)
  PROVE  Contains(list, QuicV1(a))
<1>1. PICK k \in DOMAIN list : QuicV1(list[k]) = QuicV1(a)
  BY DEF HasLike
<1>2. list[k] \in Address /\ DOMAIN list = 1 .. Len(list)
  OBVIOUS
<1>3. QuicV1(list[k]) = list[k]
  BY <1>2, QuicV1Facts
<1> QED BY <1>1, <1>2, <1>3 DEF Contains

\* What the invariant says of new listeners.
LEMMA NewHeld == ListsInv /\ ConfigTypes => NewListeners
<1> SUFFICES ASSUME ListsInv, ConfigTypes PROVE NewListeners
  OBVIOUS
<1>0. /\ IsLists(cfg) /\ NewIn(lost, cfg, version) /\ SuccessorsIn(first, cfg, version)
      /\ NoQuicEdit(edits) => CompanionsIn(first, lost, cfg, version)
      /\ version \in 9 .. 16
  BY DEF ListsInv, ListsIn, ConfigTypes, FaultType
<1>1. cfg.swarm \in Seq(Address)
  BY <1>0, ListsAre
<1>2. version >= 13 /\ 12 \notin lost =>
        \A k \in DOMAIN cfg.swarm :
          Bare(cfg.swarm[k]) =>
            Contains(cfg.swarm, Front(cfg.swarm[k]) \o <<"quic-v1", "webtransport">>)
  BY <1>0 DEF NewIn
<1>3. version = 16 /\ 15 \notin lost =>
        \A k \in DOMAIN cfg.swarm :
          Ends(cfg.swarm[k], "quic-v1") =>
            Contains(cfg.swarm, Front(cfg.swarm[k]) \o <<"webrtc-direct">>)
  BY <1>0 DEF NewIn
<1>4. version >= 15 /\ 14 \notin lost =>
        \A f \in {"swarm", "noAnnounce"} : \A k \in DOMAIN cfg[f] : ~Has(cfg[f][k], "quic")
  BY <1>0 DEF NewIn
<1>5. ASSUME version >= 15, 14 \notin lost, NEW k \in DOMAIN first.swarm, first.swarm[k] # Junk
      PROVE  Contains(cfg.swarm, QuicV1(first.swarm[k]))
  <2>1. HasLike(cfg.swarm, first.swarm[k])
    BY <1>0, <1>5 DEF SuccessorsIn
  <2>2. \A j \in DOMAIN cfg.swarm : ~Has(cfg.swarm[j], "quic")
    BY <1>4, <1>5
  <2> QED BY <1>1, <2>1, <2>2, LikeHeld
<1>6. ASSUME version >= 15, 14 \notin lost, NEW k \in DOMAIN first.swarm,
             Ends(first.swarm[k], "tcp"), 9 \notin lost, QuicFree(first), NoQuicEdit(edits)
      PROVE  Contains(cfg.swarm, QuicV1(Front(first.swarm[k]) \o <<"udp", "quic">>))
  <2>1. PICK a : a = Front(first.swarm[k]) \o <<"udp", "quic">>
    OBVIOUS
  <2>2. version >= 10
    BY <1>0, <1>6
  <2>3. HasLike(cfg.swarm, a)
    BY <1>0, <1>6, <2>1, <2>2 DEF CompanionsIn, Companions
  <2>4. \A j \in DOMAIN cfg.swarm : ~Has(cfg.swarm[j], "quic")
    BY <1>4, <1>6
  <2> QED BY <1>1, <2>1, <2>3, <2>4, LikeHeld
<1>7. version >= 10 /\ 9 \notin lost => P2p(cfg.bootstrap) = cfg.bootstrap
  BY <1>0 DEF NewIn
<1> QED BY <1>2, <1>3, <1>4, <1>5, <1>6, <1>7 DEF NewListeners

\* A conversion that has reached the file has done its work: the bootstrappers
\* are spelled by /p2p, the listeners for WebTransport and WebRTC stand beside those for QUIC, no /quic is left from
\* version 15 on, and nothing that had it is without a successor.
THEOREM ListenersAdded == Spec => []NewListeners
BY NewHeld, ConfigInit, ListsInit, LostStep, SettingsStep, ListsInvStep, PTL DEF Spec

-----------------------------------------------------------------------------
(* What is denied stays denied                                             *)

\* What is denied stays denied in a conversion: the rules work element by
\* element, the same way in both lists.
LEMMA ConvertCovers ==
  ASSUME NEW n \in {9} \cup BackedUp, NEW c, IsConfig(c), IsLists(c), Covers(c.noAnnounce, c.swarm)
  PROVE  Covers(Convert(n, c).noAnnounce, Convert(n, c).swarm)
<1>1. c.swarm \in Seq(Address) /\ c.noAnnounce \in Seq(Address)
  BY ListsAre
<1>2. CASE n = 9
  <2>1. Convert(n, c) = Convert9(c)
    BY <1>2 DEF Convert
  <2>2. Covers(AddQuic(c.noAnnounce), AddQuic(c.swarm))
    BY <1>1, AddQuicCovers
  <2>3. CASE QuicFree(c)
    <3>1. Convert9(c).swarm = AddQuic(c.swarm) /\ Convert9(c).noAnnounce = AddQuic(c.noAnnounce)
      BY <2>3, ListsOf9
    <3> QED BY <2>1, <2>2, <3>1
  <2>4. CASE ~QuicFree(c)
    <3>1. Convert9(c).swarm = c.swarm /\ Convert9(c).noAnnounce = c.noAnnounce
      BY <2>4, ListsOf9
    <3> QED BY <2>1, <3>1
  <2> QED BY <2>3, <2>4
<1>3. CASE n = 12
  <2>1. Convert(n, c) = Convert12(c)
    BY <1>3 DEF Convert
  <2> QED BY <1>1, <2>1, ListsOf12, ConvertQuicAddrsCovers
<1>4. CASE n = 13
  <2>1. Convert(n, c) = Convert13(c)
    BY <1>4 DEF Convert
  <2> QED BY <2>1, ListsOf13
<1>5. CASE n = 14
  <2>1. Convert(n, c) = Convert14(c)
    BY <1>5 DEF Convert
  <2> QED BY <1>1, <2>1, ListsOf14, ReplaceQuicCovers
<1>6. CASE n = 15
  <2>1. Convert(n, c) = Convert15(c)
    BY <1>6 DEF Convert
  <2> QED BY <1>1, <2>1, ListsOf15, AddWebrtcCovers
<1> QED BY <1>2, <1>3, <1>4, <1>5, <1>6 DEF BackedUp

\* It is kept by every step to a higher version.
LEMMA DeniedStep ==
  ListsInv /\ SettingsInv /\ LostForGood /\ ConfigTypes /\ [Next]_vars =>
    [version' > version /\ Denied => Denied']_vars
<1> SUFFICES ASSUME ListsInv, SettingsInv, LostForGood, ConfigTypes, Next, version' > version,
                    Denied
             PROVE  Denied'
  OBVIOUS
<1>0. IsConfig(cfg) /\ IsLists(cfg) /\ version \in 9 .. 16 /\ \A n \in BackedUp : n \in 12 .. 15
  BY DEF ListsInv, ListsIn, SettingsInv, ConfigTypes, FaultType, BackedUp
<1>1. cfg' \in {cfg, Convert(9, cfg)} \cup {Convert(n, cfg) : n \in BackedUp}
  <2>1. CASE PinStep /\ UNCHANGED configVars
    BY <2>1 DEF configVars
  <2>2. CASE Apply9 \/ Apply9Unsaved \/ Apply9Killed
    BY <2>2 DEF Apply9, Apply9Unsaved, Apply9Killed, Convert
  <2>3. CASE Revert9 \/ SwapCids
    BY <2>3 DEF Revert9, SwapCids, configVars
  <2>4. CASE Edit
    BY <1>0, <2>4 DEF Edit
  <2>5. ASSUME NEW n \in BackedUp, Apply(n) \/ ApplyKilled(n)
        PROVE  cfg' = cfg \/ cfg' = Convert(n, cfg)
    BY <2>5 DEF Apply, ApplyKilled
  <2>6. ASSUME NEW n \in BackedUp, Revert(n) \/ RevertKilled(n)
        PROVE  FALSE
    BY <1>0, <2>6 DEF Revert, RevertKilled
  <2> QED BY <2>1, <2>2, <2>3, <2>4, <2>5, <2>6 DEF Next
<1>2. Covers(cfg.noAnnounce, cfg.swarm)
  <2>1. DOMAIN cfg.swarm = 1 .. Len(cfg.swarm)
    BY <1>0, ListsAre
  <2> QED BY <2>1 DEF Denied, Covers, Contains
<1>3. PICK d : d = cfg'
  OBVIOUS
<1>4. Covers(d.noAnnounce, d.swarm)
  BY <1>0, <1>1, <1>2, <1>3, ConvertCovers
<1>5. DOMAIN d.swarm = 1 .. Len(d.swarm)
  <2>1. IsLists(cfg)'
    BY ListsInvStep DEF ListsInv, ListsIn
  <2> QED BY <1>3, <2>1, ListsAre
<1> QED BY <1>3, <1>4, <1>5 DEF Denied, Covers, Contains

\* An owner who announces none of the listeners announces none that a migration
\* has added: each migration gives both lists the same counterparts.
THEOREM DeniedIsKept == Spec => DeniedStaysDenied
BY DeniedStep, ConfigInit, ListsInit, LostStep, SettingsStep, ListsInvStep, PTL
   DEF Spec, DeniedStaysDenied

-----------------------------------------------------------------------------
(* The config depends on the version alone                                 *)

\* Upgraded goes from version to version, and not further at version 9 than
\* at version 10.
LEMMA UpgradedSteps ==
  ASSUME first \in Configs
  PROVE  /\ Upgraded(10) = Convert9(first)
         /\ \A v \in 10 .. 12 : Upgraded(v) = Upgraded(10)
         /\ \A n \in BackedUp : Upgraded(n + 1) = Convert(n, Upgraded(n))
         /\ Converts9(first) => Convert9(Upgraded(10)) = Upgraded(10)
<1>1. Upgraded(10) = Convert9(first)
  BY SMTT(30) DEF Upgraded, Convert
<1>2. \A v \in 10 .. 12 : Upgraded(v) = Upgraded(10)
  BY DEF Upgraded
<1>3. ASSUME NEW n \in BackedUp PROVE Upgraded(n + 1) = Convert(n, Upgraded(n))
  BY <1>3, n \in {12, 13, 14, 15} DEF Upgraded, BackedUp
<1>4. Converts9(first) => Convert9(Upgraded(10)) = Upgraded(10)
  BY <1>1, ConfigsAssumption, Again
<1> QED BY <1>1, <1>2, <1>3, <1>4

\* Every step leads to the config of its version, or to a lost one.
LEMMA PathStep ==
  PathInv /\ SettingsInv /\ LostForGood /\ ConfigTypes /\ [Next]_vars => PathInv'
<1> SUFFICES ASSUME PathInv, SettingsInv, LostForGood, ConfigTypes, [Next]_vars,
                    (edits = 0 /\ Converts9(first))'
             PROVE  PathInv'
  BY DEF PathInv
<1> DEFINE U(v) == Upgraded(v)
<1>0. /\ first' = first /\ edits = 0 /\ edits' = edits /\ Converts9(first)
      /\ version \in 9 .. 16
  BY DEF Next, Apply9, Apply9Unsaved, Apply9Killed, Revert9, SwapCids, Edit, Apply, ApplyKilled,
         Revert, RevertKilled, vars, configVars, ConfigTypes, FaultType
<1>u. /\ U(10) = Convert9(first)
      /\ \A v \in 10 .. 12 : U(v) = U(10)
      /\ \A n \in BackedUp : U(n + 1) = Convert(n, U(n))
      /\ Convert9(U(10)) = U(10)
  BY <1>0, UpgradedSteps DEF SettingsInv
<1>v. \A v : Upgraded(v)' = U(v)
  BY <1>0 DEF Upgraded
<1>p. /\ version <= 12 => cfg \in {first, U(10)}
      /\ version \in 10 .. 12 /\ 9 \notin lost => cfg = U(10)
      /\ backup[12] # NoFile => backup[12] \in {first, U(10)}
      /\ lost = {} =>
           /\ version >= 10 => cfg = U(version)
           /\ \A n \in BackedUp : backup[n] # NoFile => backup[n] = U(n)
  BY <1>0 DEF PathInv
<1> DEFINE Path ==
       /\ version' <= 12 => cfg' \in {first, U(10)}
       /\ version' \in 10 .. 12 /\ 9 \notin lost' => cfg' = U(10)
       /\ backup'[12] # NoFile => backup'[12] \in {first, U(10)}
       /\ lost' = {} =>
            /\ version' >= 10 => cfg' = U(version')
            /\ \A n \in BackedUp : backup'[n] # NoFile => backup'[n] = U(n)
<1> SUFFICES Path
  BY <1>0, <1>v DEF PathInv
<1> HIDE DEF U
<1>1. CASE PinStep /\ UNCHANGED configVars
  <2>1. version' = version \/ (version \in 10 .. 11 /\ version' \in 10 .. 11)
    BY <1>1, PinVersions DEF ConfigTypes
  <2> QED BY <1>1, <1>u, <1>p, <2>1 DEF configVars
<1>2. CASE Apply9 \/ Apply9Unsaved \/ Apply9Killed
  <2>1. Convert9(cfg) = U(10) /\ version = 9
    BY <1>2, <1>u, <1>p DEF Apply9, Apply9Unsaved, Apply9Killed
  <2>2. \A n \in BackedUp : backup'[n] = NoFile
    BY <1>2 DEF Apply9, Apply9Unsaved, Apply9Killed, LostForGood, BackedUp
  <2> QED BY <1>2, <1>p, <2>1, <2>2 DEF Apply9, Apply9Unsaved, Apply9Killed, BackedUp
<1>3. CASE Revert9 \/ SwapCids
  BY <1>3, <1>0, <1>u, <1>p DEF Revert9, SwapCids, configVars
<1>4. CASE Edit
  BY <1>4, <1>0 DEF Edit
<1>5. ASSUME NEW n \in BackedUp, Apply(n) PROVE Path
  <2>1. /\ version = n /\ version' = n + 1 /\ lost' = lost /\ cfg' = Convert(n, cfg)
        /\ backup' = [backup EXCEPT ![n] = cfg]
    BY <1>5 DEF Apply, LostForGood, BackedUp
  <2>2. lost = {} => cfg = U(n) /\ cfg' = U(n + 1)
    BY <2>1, <1>u, <1>p DEF BackedUp
  <2>3. \A m \in BackedUp : backup'[m] = IF m = n THEN cfg ELSE backup[m]
    BY <2>1 DEF ConfigTypes
  <2> QED BY <2>1, <2>2, <2>3, <1>p DEF BackedUp
<1>6. ASSUME NEW n \in BackedUp, ApplyKilled(n) PROVE Path
  <2>1. /\ version = n /\ version' = n + 1 /\ backup' = backup
        /\ \/ lost' = lost \cup {n}
           \/ lost' = lost /\ cfg' = Convert(n, cfg)
    BY <1>6 DEF ApplyKilled, LostForGood, BackedUp
  <2>2. lost = {} => Convert(n, cfg) = U(n + 1)
    BY <2>1, <1>u, <1>p DEF BackedUp
  <2> QED BY <2>1, <2>2, <1>p DEF BackedUp
<1>7. ASSUME NEW n \in BackedUp, Revert(n) PROVE Path
  <2>1. /\ version = n + 1 /\ version' = n /\ lost' = lost /\ cfg' = backup[n] /\ backup[n] # NoFile
        /\ backup' = [backup EXCEPT ![n] = NoFile]
    BY <1>7 DEF Revert
  <2>2. lost \subseteq {9, 10, 11} \cup 12 .. (n - 1)
    BY <2>1 DEF LostForGood, BackedUp
  <2>3. n = 12 /\ 9 \notin lost => lost = {}
    BY <2>1, <2>2 DEF LostForGood, BackedUp
  <2>4. \A m \in BackedUp : backup'[m] = IF m = n THEN NoFile ELSE backup[m]
    BY <2>1 DEF ConfigTypes
  <2>5. lost = {} => cfg' = U(n)
    BY <2>1, <1>p
  <2> QED BY <2>1, <2>3, <2>4, <2>5, <1>p, <1>u DEF BackedUp
<1>8. ASSUME NEW n \in BackedUp, RevertKilled(n) PROVE Path
  <2>1. version' = n + 1 /\ lost' # {} /\ backup' = [backup EXCEPT ![n] = NoFile]
    BY <1>8 DEF RevertKilled
  <2>2. backup'[12] # NoFile => backup'[12] = backup[12]
    BY <2>1 DEF ConfigTypes, BackedUp
  <2> QED BY <2>1, <2>2, <1>p DEF BackedUp
<1>9. CASE UNCHANGED vars
  BY <1>9, <1>p DEF vars, configVars
<1> QED BY <1>1, <1>2, <1>3, <1>4, <1>5, <1>6, <1>7, <1>8, <1>9 DEF Next

\* Without an edit, and when every conversion has reached the file, the config
\* at each version is the same whatever ups and downs led to it, for any
\* configs.
THEOREM ConfigFollowsVersion == Spec => []PathIndependent
<1>1. Init => PathInv /\ ConfigTypes /\ LostForGood /\ SettingsInv
  BY ConfigInit DEF Init, PathInv, BackedUp
<1>2. PathInv /\ SettingsInv /\ ConfigTypes => PathIndependent
  <2> SUFFICES ASSUME PathInv, SettingsInv, ConfigTypes, lost = {}, edits = 0, Converts9(first)
               PROVE  cfg = Upgraded(version) \/ (version = 9 /\ cfg = Upgraded(10))
    BY DEF PathIndependent
  <2>1. Upgraded(9) = first
    BY DEF Upgraded
  <2>2. version = 9 \/ version >= 10
    BY DEF ConfigTypes, FaultType
  <2> QED BY <2>1, <2>2 DEF PathInv
<1> QED BY <1>1, <1>2, LostStep, SettingsStep, PathStep, PTL DEF Spec

=============================================================================

----------------------------- MODULE IpnsRecords -----------------------------
(***************************************************************************)
(* Migration 6-to-7: the IPNS record of each of the node's keys is copied  *)
(* from where the daemons up to version 6 keep it to where those from      *)
(* version 7 on do, and back.  Neither direction deletes its source.       *)
(* PhasedConfig has the control of Apply and of Revert.                    *)
(***************************************************************************)
EXTENDS Integers

CONSTANTS
  Keys, Self,   \* the node's own key and those of the keystore
  MaxSeq        \* bound on how often a key is published

ASSUME KeysAssumption == Self \in Keys
ASSUME SeqAssumption == MaxSeq \in Nat \ {0}

VARIABLES
  oldRec, newRec,  \* what was published with each key, by number; 0 is no record
  todo,            \* the keys the run in progress has yet to come to
  \* observation only
  published,       \* the latest of each key
  swallowed        \* an error of Revert's was not seen

recordVars == <<oldRec, newRec, todo, published, swallowed>>

RecordsInit(version) ==
  /\ published \in [Keys -> 0 .. 1]
  /\ oldRec = IF version <= 6 THEN published ELSE [k \in Keys |-> 0]
  /\ newRec = IF version > 6 THEN published ELSE [k \in Keys |-> 0]
  /\ todo = {} /\ swallowed = "no"

RecordsOK ==
  /\ {oldRec, newRec, published} \subseteq [Keys -> 0 .. MaxSeq]
  /\ todo \subseteq Keys
  /\ swallowed \in {"yes", "no"}

\* Self comes before the keys of the keystore.
Turn(k) == k \in todo /\ (Self \in todo => k = Self)

\* Mistake: a record that is there is not replaced.
ApplyForKeyOnce(k) ==
  /\ Turn(k)
  /\ todo' = todo \ {k}
  /\ newRec' = IF oldRec[k] = 0 \/ newRec[k] # 0 THEN newRec ELSE [newRec EXCEPT ![k] = oldRec[k]]
  /\ UNCHANGED <<oldRec, published, swallowed>>

\* Without a record there is nothing to do.
ApplyForKey(k) ==
  /\ Turn(k)
  /\ todo' = todo \ {k}
  /\ newRec' = IF oldRec[k] = 0 THEN newRec ELSE [newRec EXCEPT ![k] = oldRec[k]]
  /\ UNCHANGED <<oldRec, published, swallowed>>

RevertForKey(k) ==
  /\ Turn(k)
  /\ todo' = todo \ {k}
  /\ oldRec' = IF newRec[k] = 0 THEN oldRec ELSE [oldRec EXCEPT ![k] = newRec[k]]
  /\ UNCHANGED <<newRec, published, swallowed>>

\* Revert does not look at what revertForKey returns.
RevertForKeyFails(k) ==
  /\ Turn(k)
  /\ todo' = todo \ {k}
  /\ swallowed' = "yes"
  /\ UNCHANGED <<oldRec, newRec, published>>

\* A daemon of the version publishes.
Publish(k, version) ==
  /\ published[k] < MaxSeq
  /\ published' = [published EXCEPT ![k] = @ + 1]
  /\ IF version <= 6
     THEN oldRec' = [oldRec EXCEPT ![k] = published'[k]] /\ UNCHANGED newRec
     ELSE newRec' = [newRec EXCEPT ![k] = published'[k]] /\ UNCHANGED oldRec
  /\ UNCHANGED <<todo, swallowed>>

=============================================================================

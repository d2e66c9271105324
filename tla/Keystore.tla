------------------------------ MODULE Keystore ------------------------------
(***************************************************************************)
(* Migration 8-to-9: the files of the keystore, which are named after      *)
(* their keys, are renamed to the base32 encoding of the name behind the   *)
(* prefix "key_", and back.  Neither Apply nor Revert takes the            *)
(* repository's lock or looks at the version, so runs overlap with each    *)
(* other and with a daemon that creates keys.                              *)
(*                                                                         *)
(* A file name is abstract: what matters is whether `decode' accepts it,   *)
(* and what encode and decode make of it.  The content of a file is the    *)
(* name its owner gave to the key in it.  ReadDir's order, which depends   *)
(* on the names, is any order.                                             *)
(***************************************************************************)
EXTENDS Integers

CONSTANTS
  Procs,
  Owners,     \* the names an owner may give to a key
  Base,       \* the names that may have to be encoded
  Decodable,  \* the file names that decode accepts
  Enc, Dec,   \* what encode and decode return
  BadName,    \* a decoded name that is no file's: empty, or below a missing
              \* directory
  NoKey,      \* there is no such file
  MaxFaults   \* bound on kills and failing operations

Names == Base \cup Decodable

ASSUME CodecAssumption ==
  /\ Owners \subseteq Base
  /\ Enc \in [Base -> Decodable]
  /\ Dec \in [Decodable -> Base \cup {BadName}]
  /\ \A n \in Base : Dec[Enc[n]] = n
ASSUME SentinelAssumption == BadName \notin Names /\ NoKey \notin Owners
ASSUME BoundAssumption == MaxFaults \in Nat

VARIABLES
  version,
  files,      \* the keystore: whose key is in the file of each name
  pc, op,
  todo,       \* per process: the names ReadDir returned and still to do
  \* observation only
  owned,      \* the keys their owners rely on
  alone,      \* whether no one else has changed the keystore since p started
  outcome,    \* how p's last run ended
  faults

vars == <<version, files, pc, op, todo, owned, alone, outcome, faults>>

Blank == 0               \* the version file, truncated

TypeOK ==
  /\ version \in {8, 9, Blank}
  /\ files \in [Names -> Owners \cup {NoKey}]
  /\ pc \in [Procs -> {"idle", "rename", "truncate", "write"}]
  /\ op \in [Procs -> {"apply", "revert"}]
  /\ todo \in [Procs -> SUBSET Names]
  /\ owned \subseteq Owners
  /\ alone \in [Procs -> {"yes", "no"}]
  /\ outcome \in [Procs -> {"none", "applied", "reverted", "error"}]
  /\ faults \in 0 .. MaxFaults

\* A repository of version 8 with any keys.
Init ==
  /\ version = 8
  /\ owned \in SUBSET Owners
  /\ files = [n \in Names |-> IF n \in owned THEN n ELSE NoKey]
  /\ pc = [p \in Procs |-> "idle"]
  /\ op = [p \in Procs |-> "apply"]
  /\ todo = [p \in Procs |-> {}]
  /\ alone = [p \in Procs |-> "no"]
  /\ outcome = [p \in Procs |-> "none"]
  /\ faults = 0

-----------------------------------------------------------------------------

Goto(p, where) == pc' = [pc EXCEPT ![p] = where] /\ UNCHANGED outcome

End(p, how) == /\ pc' = [pc EXCEPT ![p] = "idle"]
               /\ outcome' = [outcome EXCEPT ![p] = how]

\* p is at work on the repository, and no one is alone but p.
Disturb(p) == alone' = [q \in Procs |-> IF q = p THEN alone[q] ELSE "no"]

Fault == faults < MaxFaults /\ faults' = faults + 1

\* Apply skips the names that are encoded already, Revert the others.
Skip(p, n) == IF op[p] = "apply" THEN n \in Decodable ELSE n \notin Decodable

Codec(p, n) == IF op[p] = "apply" THEN Enc[n] ELSE Dec[n]

Renamed(n, dest) == [files EXCEPT ![dest] = files[n], ![n] = NoKey]

-----------------------------------------------------------------------------
(* Mistakes the properties must catch                                      *)

\* The first name that needs nothing ends the loop.
RenameBreaks(p, n) ==
  /\ pc[p] = "rename" /\ n \in todo[p]
  /\ \/ /\ Skip(p, n)
        /\ Goto(p, "truncate")
        /\ todo' = [todo EXCEPT ![p] = {}]
        /\ UNCHANGED <<files, alone>>
     \/ /\ ~Skip(p, n) /\ files[n] # NoKey /\ Codec(p, n) # BadName
        /\ files' = Renamed(n, Codec(p, n))
        /\ todo' = [todo EXCEPT ![p] = @ \ {n}]
        /\ Disturb(p)
        /\ Goto(p, "rename")
  /\ UNCHANGED <<version, op, owned, faults>>

\* The rename is a copy that overwrites its target with whatever it reads,
\* nothing included.
RenameCopies(p, n) ==
  /\ pc[p] = "rename" /\ n \in todo[p]
  /\ IF Skip(p, n) THEN UNCHANGED <<files, alone>>
     ELSE files' = Renamed(n, Codec(p, n)) /\ Disturb(p)
  /\ Goto(p, "rename")
  /\ todo' = [todo EXCEPT ![p] = @ \ {n}]
  /\ UNCHANGED <<version, op, owned, faults>>

-----------------------------------------------------------------------------
(* Apply and Revert: encodeDecode, then WriteVersion                       *)

\* ioutil.ReadDir
ReadDir(p, o) ==
  /\ pc[p] = "idle"
  /\ op' = [op EXCEPT ![p] = o]
  /\ todo' = [todo EXCEPT ![p] = {n \in Names : files[n] # NoKey}]
  /\ alone' = [q \in Procs |-> IF q = p /\ \A r \in Procs \ {p} : pc[r] = "idle"
                               THEN "yes" ELSE "no"]
  /\ pc' = [pc EXCEPT ![p] = "rename"]
  /\ outcome' = [outcome EXCEPT ![p] = "none"]
  /\ UNCHANGED <<version, files, owned, faults>>

\* The next name is skipped, or its file renamed, over another if there is
\* one.  A file that is gone, or a name that cannot be one, is an error.
Rename(p, n) ==
  /\ pc[p] = "rename" /\ n \in todo[p]
  /\ todo' = [todo EXCEPT ![p] = @ \ {n}]
  /\ \/ /\ Skip(p, n)
        /\ Goto(p, "rename")
        /\ UNCHANGED <<files, alone>>
     \/ /\ ~Skip(p, n) /\ files[n] # NoKey /\ Codec(p, n) # BadName
        /\ files' = Renamed(n, Codec(p, n))
        /\ Disturb(p)
        /\ Goto(p, "rename")
     \/ /\ ~Skip(p, n) /\ (files[n] = NoKey \/ Codec(p, n) = BadName)
        /\ End(p, "error")
        /\ UNCHANGED <<files, alone>>
  /\ UNCHANGED <<version, op, owned, faults>>

LoopEnds(p) ==
  /\ pc[p] = "rename" /\ todo[p] = {}
  /\ Goto(p, "truncate")
  /\ UNCHANGED <<version, files, op, todo, owned, alone, faults>>

TruncateVersion(p) ==
  /\ pc[p] = "truncate"
  /\ version' = Blank
  /\ Disturb(p)
  /\ Goto(p, "write")
  /\ UNCHANGED <<files, op, todo, owned, faults>>

WriteVersion(p) ==
  /\ pc[p] = "write"
  /\ version' = IF op[p] = "apply" THEN 9 ELSE 8
  /\ Disturb(p)
  /\ End(p, IF op[p] = "apply" THEN "applied" ELSE "reverted")
  /\ UNCHANGED <<files, op, todo, owned, faults>>

\* ReadDir (before anything is renamed), os.Rename or WriteVersion fails.
OperationFails(p) ==
  /\ pc[p] # "idle"
  /\ Fault
  /\ End(p, "error")
  /\ UNCHANGED <<version, files, op, todo, owned, alone>>

Kill(p) ==
  /\ pc[p] # "idle"
  /\ Fault
  /\ End(p, "none")
  /\ UNCHANGED <<version, files, op, todo, owned, alone>>

\* A daemon creates a key, in the format of the version it finds.
AddKey(k) ==
  /\ version \in {8, 9}
  /\ k \in Owners \ owned
  /\ LET name == IF version = 8 THEN k ELSE Enc[k]
     IN files[name] = NoKey /\ files' = [files EXCEPT ![name] = k]
  /\ owned' = owned \cup {k}
  /\ alone' = [p \in Procs |-> "no"]
  /\ UNCHANGED <<version, pc, op, todo, outcome, faults>>

Next ==
  \/ \E p \in Procs : \/ \E o \in {"apply", "revert"} : ReadDir(p, o)
                      \/ \E n \in Names : Rename(p, n)
                      \/ LoopEnds(p) \/ TruncateVersion(p) \/ WriteVersion(p)
                      \/ OperationFails(p) \/ Kill(p)
  \/ \E k \in Owners : AddKey(k)

Spec == Init /\ [][Next]_vars

-----------------------------------------------------------------------------

\* "No data lost. Ever.": each key is still in some file.
KeysSurvive == \A k \in owned : \E n \in Names : files[n] = k

\* No key has a name that looks like an encoded one.
Unambiguous == owned \cap Decodable = {}

\* As long as no key is named like an encoded one, overlapping runs without
\* a lock, kills and failing renames cost no key, although each rename may
\* replace a file.
KeysSurviveIfPlain == Unambiguous => KeysSurvive

\* Every key is where a daemon of version v looks for it.
Found(v) == \A k \in owned : files[IF v = 8 THEN k ELSE Enc[k]] = k

\* A run that nobody disturbs and that reports success has renamed all that
\* was to be renamed, whatever mixture of names earlier runs have left: an
\* interrupted or disturbed migration is repaired by running it again.
AloneIsComplete ==
  Unambiguous =>
    \A p \in Procs :
      alone[p] = "yes" =>
        /\ outcome[p] = "applied" => version = 9 /\ Found(9)
        /\ outcome[p] = "reverted" => version = 8 /\ Found(8)

-----------------------------------------------------------------------------
(* The inductive invariant behind KeysSurviveIfPlain                       *)

\* The file of a key has one of its two names.
OwnNames ==
  \A n \in Names : files[n] # NoKey => files[n] \in owned /\ n \in {files[n], Enc[files[n]]}

KeysInv == TypeOK /\ (Unambiguous => OwnNames /\ KeysSurvive)

-----------------------------------------------------------------------------
(* The inductive invariant behind AloneIsComplete                          *)

\* The names that p has to do: what is not among them has the form p wants.
Rest(p, names) == \A n \in Names \ names : files[n] # NoKey => Skip(p, n)

\* What a run that nobody disturbs has achieved.
Progress(p) ==
  /\ pc[p] = "rename" => Rest(p, todo[p])
  /\ pc[p] \in {"truncate", "write"} => Rest(p, {})
  /\ outcome[p] = "applied" => op[p] = "apply" /\ version = 9 /\ Rest(p, {})
  /\ outcome[p] = "reverted" => op[p] = "revert" /\ version = 8 /\ Rest(p, {})
  /\ outcome[p] \in {"applied", "reverted"} => pc[p] = "idle"

AloneInv == Unambiguous => \A p \in Procs : alone[p] = "yes" => Progress(p)

=============================================================================

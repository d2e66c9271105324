-------------------------- MODULE VersionedConfig --------------------------
(***************************************************************************)
(* What the config migrations promise: a repository is a version and a     *)
(* config; step i turns version i into version i + 1 and converts the      *)
(* config in the same instant; undoing it brings back, in one instant, the *)
(* version i and the config as it was before step i.                       *)
(***************************************************************************)
EXTENDS Integers

CONSTANTS First, Last, MaxEdits, NoFile

VARIABLES ver, cfg, prior, edit

Steps == First .. (Last - 1)

Init ==
  /\ ver \in First .. Last
  /\ cfg = [rev |-> 0, conv |-> [i \in Steps |-> IF i < ver THEN 1 ELSE 0]]
  /\ prior = [i \in Steps |-> NoFile]
  /\ edit = 0

Upgrade(i) ==
  /\ ver = i
  /\ ver' = i + 1
  /\ cfg' = [cfg EXCEPT !.conv[i] = @ + 1]
  /\ prior' = [prior EXCEPT ![i] = cfg]
  /\ UNCHANGED edit

Downgrade(i) ==
  /\ ver = i + 1
  /\ prior[i] # NoFile
  /\ ver' = i
  /\ cfg' = prior[i]
  /\ UNCHANGED <<prior, edit>>

Edit ==
  /\ edit < MaxEdits
  /\ edit' = edit + 1
  /\ cfg' = [cfg EXCEPT !.rev = edit + 1]
  /\ UNCHANGED <<ver, prior>>

Next == Edit \/ \E i \in Steps : Upgrade(i) \/ Downgrade(i)

Spec == Init /\ [][Next]_<<ver, cfg, prior, edit>>

=============================================================================

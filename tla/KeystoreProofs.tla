--------------------------- MODULE KeystoreProofs ---------------------------
(***************************************************************************)
(* No key is lost by migration 8-to-9 while no key is named like an        *)
(* encoded one: for any keys, any codec that decodes what it has encoded,  *)
(* and any number of overlapping runs, kills and failures.  And a run that *)
(* nobody disturbs leaves no key under a name of the other form.           *)
(***************************************************************************)
EXTENDS Keystore, TLAPS

\* A rename within a plain keystore replaces, if anything, another copy of
\* the same key: the new name belongs to the same owner as the old one.
LEMMA RenameKeepsOwner ==
  ASSUME TypeOK, Unambiguous, OwnNames,
         NEW p \in Procs, NEW n \in Names,
         ~Skip(p, n), files[n] # NoKey, Codec(p, n) # BadName
  PROVE  /\ Codec(p, n) \in Names \ {n}
         /\ Codec(p, n) \in {files[n], Enc[files[n]]}
         /\ files[Codec(p, n)] \in {NoKey, files[n]}
  <1> DEFINE k == files[n]
             d == Codec(p, n)
  <1>1. k \in owned /\ k \in Owners /\ k \in Base /\ n \in {k, Enc[k]}
    BY CodecAssumption DEF OwnNames, TypeOK
  <1>2. k \notin Decodable /\ Enc[k] \in Decodable /\ Dec[Enc[k]] = k
    BY <1>1, CodecAssumption DEF Unambiguous
  <1>3. d \in Names \ {n} /\ d \in {k, Enc[k]}
    <2>1. CASE op[p] = "apply"
      BY <2>1, <1>1, <1>2 DEF Skip, Codec, Names
    <2>2. CASE op[p] = "revert"
      BY <2>2, <1>1, <1>2 DEF Skip, Codec, Names
    <2> QED
      BY <2>1, <2>2 DEF TypeOK
  <1>4. files[d] \in {NoKey, k}
    <2> SUFFICES ASSUME files[d] # NoKey PROVE files[d] = k
      OBVIOUS
    <2> DEFINE j == files[d]
    <2>1. j \in owned /\ j \in Owners /\ j \in Base /\ d \in {j, Enc[j]}
      BY <1>3, CodecAssumption DEF OwnNames, TypeOK
    <2>2. j \notin Decodable /\ Enc[j] \in Decodable /\ Dec[Enc[j]] = j
      BY <2>1, CodecAssumption DEF Unambiguous
    <2> QED
      BY <1>2, <1>3, <2>1, <2>2
  <1> QED
    BY <1>3, <1>4

\* Every step keeps the invariant; only a rename and a new key touch a file.
LEMMA KeysInvStep == KeysInv /\ [Next]_vars => KeysInv'
  <1> SUFFICES ASSUME KeysInv, [Next]_vars PROVE KeysInv'
    OBVIOUS
  <1> USE CodecAssumption, SentinelAssumption, BoundAssumption
  <1> USE DEF KeysInv
  <1>r. ASSUME NEW p \in Procs, NEW n \in Names, Rename(p, n) PROVE KeysInv'
    <2>1. CASE UNCHANGED files
      <3>1. TypeOK'
        BY <1>r, <2>1 DEF Rename, TypeOK, Goto, End, Disturb
      <3> QED
        BY <1>r, <2>1, <3>1 DEF Rename, Unambiguous, OwnNames, KeysSurvive
    <2>2. CASE /\ ~Skip(p, n) /\ files[n] # NoKey /\ Codec(p, n) # BadName
               /\ files' = Renamed(n, Codec(p, n))
               /\ Disturb(p)
               /\ Goto(p, "rename")
      <3>1. Codec(p, n) \in Names
        BY <2>2 DEF Skip, Codec, Names, TypeOK
      <3>2. TypeOK'
        BY <1>r, <2>2, <3>1 DEF Rename, Renamed, TypeOK, Goto, Disturb
      <3>3. ASSUME Unambiguous' PROVE OwnNames' /\ KeysSurvive'
        <4>1. Unambiguous /\ OwnNames /\ KeysSurvive /\ owned' = owned
          BY <1>r, <3>3 DEF Rename, Unambiguous
        <4> DEFINE d == Codec(p, n)
        <4>2. /\ d \in Names \ {n}
              /\ d \in {files[n], Enc[files[n]]}
              /\ files[d] \in {NoKey, files[n]}
          BY <2>2, <4>1, RenameKeepsOwner
        <4>3. /\ files'[d] = files[n]
              /\ files'[n] = NoKey
              /\ \A m \in Names \ {d, n} : files'[m] = files[m]
          BY <2>2, <4>2 DEF Renamed, TypeOK
        <4>4. OwnNames'
          BY <2>2, <4>1, <4>2, <4>3 DEF OwnNames
        <4>5. KeysSurvive'
          <5> SUFFICES ASSUME NEW k \in owned PROVE \E m \in Names : files'[m] = k
            BY <4>1 DEF KeysSurvive
          <5>1. PICK m \in Names : files[m] = k
            BY <4>1 DEF KeysSurvive
          <5>2. k # NoKey
            BY DEF TypeOK
          <5> QED
            BY <5>1, <5>2, <4>2, <4>3
        <4> QED
          BY <4>4, <4>5
      <3> QED
        BY <3>2, <3>3
    <2> QED
      BY <1>r, <2>1, <2>2 DEF Rename
  <1>a. ASSUME NEW k \in Owners, AddKey(k) PROVE KeysInv'
    <2> DEFINE name == IF version = 8 THEN k ELSE Enc[k]
    <2>1. /\ name \in Names /\ files[name] = NoKey
          /\ files' = [files EXCEPT ![name] = k]
          /\ owned' = owned \cup {k}
      BY <1>a DEF AddKey, Names
    <2>2. TypeOK'
      BY <1>a, <2>1 DEF AddKey, TypeOK
    <2>3. ASSUME Unambiguous' PROVE OwnNames' /\ KeysSurvive'
      <3>1. Unambiguous /\ OwnNames /\ KeysSurvive
        BY <2>1, <2>3 DEF Unambiguous
      <3>2. /\ files'[name] = k
            /\ \A m \in Names \ {name} : files'[m] = files[m]
        BY <2>1 DEF TypeOK
      <3>3. OwnNames'
        BY <2>1, <3>1, <3>2 DEF OwnNames
      <3>4. KeysSurvive'
        <4> SUFFICES ASSUME NEW j \in owned' PROVE \E m \in Names : files'[m] = j
          BY DEF KeysSurvive
        <4>1. CASE j = k
          BY <4>1, <2>1, <3>2
        <4>2. CASE j \in owned
          <5>1. PICK m \in Names : files[m] = j
            BY <4>2, <3>1 DEF KeysSurvive
          <5>2. j # NoKey
            BY <4>2 DEF TypeOK
          <5> QED
            BY <5>1, <5>2, <2>1, <3>2
        <4> QED
          BY <4>1, <4>2, <2>1
      <3> QED
        BY <3>3, <3>4
    <2> QED
      BY <2>2, <2>3
  <1>o. ASSUME TypeOK', UNCHANGED <<files, owned>> PROVE KeysInv'
    BY <1>o DEF Unambiguous, OwnNames, KeysSurvive
  <1>1. ASSUME NEW p \in Procs, NEW o \in {"apply", "revert"}, ReadDir(p, o) PROVE KeysInv'
    BY <1>1, <1>o DEF ReadDir, TypeOK
  <1>2. ASSUME NEW p \in Procs, LoopEnds(p) PROVE KeysInv'
    BY <1>2, <1>o DEF LoopEnds, TypeOK, Goto
  <1>3. ASSUME NEW p \in Procs, TruncateVersion(p) PROVE KeysInv'
    BY <1>3, <1>o DEF TruncateVersion, TypeOK, Goto, Disturb
  <1>4. ASSUME NEW p \in Procs, WriteVersion(p) PROVE KeysInv'
    BY <1>4, <1>o DEF WriteVersion, TypeOK, End, Disturb
  <1>5. ASSUME NEW p \in Procs, OperationFails(p) PROVE KeysInv'
    BY <1>5, <1>o DEF OperationFails, TypeOK, End, Fault
  <1>6. ASSUME NEW p \in Procs, Kill(p) PROVE KeysInv'
    BY <1>6, <1>o DEF Kill, TypeOK, End, Fault
  <1>7. CASE UNCHANGED vars
    BY <1>7, <1>o DEF vars, TypeOK
  <1> QED
    BY <1>1, <1>2, <1>3, <1>4, <1>5, <1>6, <1>7, <1>r, <1>a DEF Next

\* Apply and Revert of 8-to-9 lose no key, although they take no lock and
\* os.Rename replaces files, unless a key is named like an encoded one.
THEOREM NoKeyIsLost == Spec => []KeysSurviveIfPlain
  <1> USE CodecAssumption, SentinelAssumption, BoundAssumption
  <1>1. Init => KeysInv
    BY DEF Init, KeysInv, TypeOK, OwnNames, KeysSurvive, Names, Blank
  <1>2. KeysInv => KeysSurviveIfPlain
    BY DEF KeysInv, KeysSurviveIfPlain
  <1> QED
    BY <1>1, <1>2, KeysInvStep, PTL DEF Spec

-----------------------------------------------------------------------------
(* A run that nobody disturbs                                              *)

\* While p is alone, the only steps that touch a file or the version are its
\* own; a rename moves a file to a name that p skips.
LEMMA AloneStep == KeysInv /\ AloneInv /\ [Next]_vars => AloneInv'
  <1> SUFFICES ASSUME KeysInv, AloneInv, [Next]_vars, Unambiguous',
                      NEW p \in Procs, alone'[p] = "yes"
               PROVE  Progress(p)'
    BY DEF AloneInv
  <1> USE CodecAssumption, SentinelAssumption
  <1>o. ASSUME alone[p] = "yes", Unambiguous, UNCHANGED <<version, files>>,
               pc'[p] = pc[p], op'[p] = op[p], todo'[p] = todo[p], outcome'[p] = outcome[p]
        PROVE  Progress(p)'
    BY <1>o DEF AloneInv, Progress, Rest, Skip
  <1>1. ASSUME NEW q \in Procs, NEW o \in {"apply", "revert"}, ReadDir(q, o) PROVE Progress(p)'
    <2>1. q = p
      BY <1>1 DEF ReadDir
    <2>2. pc'[p] = "rename" /\ outcome'[p] = "none" /\ files' = files
          /\ todo'[p] = {n \in Names : files[n] # NoKey}
      BY <1>1, <2>1 DEF ReadDir, KeysInv, TypeOK
    <2> QED BY <2>2 DEF Progress, Rest
  <1>2. ASSUME NEW q \in Procs, NEW n \in Names, Rename(q, n) PROVE Progress(p)'
    <2>1. Unambiguous /\ alone[p] = "yes"
      BY <1>2 DEF Rename, Unambiguous, Disturb, KeysInv, TypeOK
    <2>2. Progress(p)
      BY <2>1 DEF AloneInv
    <2>3. CASE q # p
      BY <1>2, <1>o, <2>1, <2>3 DEF Rename, Disturb, Goto, End, KeysInv, TypeOK
    <2>4. CASE q = p
      <3>1. /\ pc[p] = "rename" /\ Rest(p, todo[p]) /\ op'[p] = op[p]
            /\ todo'[p] = todo[p] \ {n} /\ outcome[p] \notin {"applied", "reverted"}
        BY <1>2, <2>2, <2>4 DEF Rename, KeysInv, TypeOK, Progress
      <3>2. CASE Skip(p, n) /\ Goto(p, "rename") /\ UNCHANGED files
        <4>1. Rest(p, todo[p] \ {n})
          BY <3>1, <3>2 DEF Rest
        <4>2. Rest(p, todo[p])'
          BY <3>1, <3>2, <4>1 DEF Rest, Skip
        <4> QED BY <3>1, <3>2, <4>2 DEF Progress, Goto, KeysInv, TypeOK
      <3>3. CASE /\ ~Skip(p, n) /\ files[n] # NoKey /\ Codec(p, n) # BadName
                 /\ files' = Renamed(n, Codec(p, n)) /\ Goto(p, "rename")
        <4> DEFINE d == Codec(p, n)
        <4>1. /\ d \in Names \ {n} /\ d \in {files[n], Enc[files[n]]}
          BY <2>1, <3>3, RenameKeepsOwner DEF KeysInv
        <4>2. Skip(p, d)
          <5>1. files[n] \in owned /\ files[n] \notin Decodable /\ Enc[files[n]] \in Decodable
            BY <2>1, <3>3 DEF KeysInv, OwnNames, TypeOK, Unambiguous
          <5>2. CASE op[p] = "apply"
            BY <5>1, <5>2, <3>3 DEF Skip, Codec, Names
          <5>3. CASE op[p] = "revert"
            <6>1. n \in Decodable /\ n \in {files[n], Enc[files[n]]} /\ files[n] \in Base
              BY <2>1, <3>3, <5>1, <5>3 DEF Skip, KeysInv, OwnNames, TypeOK
            <6>2. d = files[n]
              BY <5>1, <5>3, <6>1 DEF Codec
            <6> QED BY <5>1, <5>3, <6>2 DEF Skip
          <5> QED BY <5>2, <5>3 DEF KeysInv, TypeOK
        <4>3. /\ files'[n] = NoKey
              /\ \A m \in Names \ {d, n} : files'[m] = files[m]
          BY <3>3, <4>1 DEF Renamed, KeysInv, TypeOK
        <4>4. \A m \in Names \ todo'[p] : files'[m] # NoKey => Skip(p, m)
          BY <3>1, <4>2, <4>3 DEF Rest
        <4>5. Rest(p, todo[p])'
          BY <3>1, <4>4 DEF Rest, Skip
        <4> QED BY <3>1, <3>3, <4>5 DEF Progress, Goto, KeysInv, TypeOK
      <3>4. CASE End(p, "error")
        BY <3>1, <3>4 DEF Progress, End, KeysInv, TypeOK
      <3> QED BY <1>2, <2>4, <3>2, <3>3, <3>4 DEF Rename
    <2> QED BY <2>3, <2>4
  <1>3. ASSUME NEW q \in Procs, LoopEnds(q) PROVE Progress(p)'
    <2>1. Unambiguous /\ alone[p] = "yes" /\ Progress(p)
      BY <1>3 DEF LoopEnds, Unambiguous, AloneInv
    <2>2. CASE q # p
      BY <1>3, <1>o, <2>1, <2>2 DEF LoopEnds, Goto, KeysInv, TypeOK
    <2>3. CASE q = p
      BY <1>3, <2>1, <2>3 DEF LoopEnds, Goto, Progress, Rest, Skip, KeysInv, TypeOK
    <2> QED BY <2>2, <2>3
  <1>4. ASSUME NEW q \in Procs, TruncateVersion(q) \/ WriteVersion(q) PROVE Progress(p)'
    <2>1. q = p /\ alone[p] = "yes"
      BY <1>4 DEF TruncateVersion, WriteVersion, Disturb
    <2>2. Unambiguous /\ Progress(p)
      BY <1>4, <2>1 DEF TruncateVersion, WriteVersion, Unambiguous, AloneInv
    <2>3. Rest(p, {})' /\ op'[p] = op[p] /\ op[p] \in {"apply", "revert"}
      BY <1>4, <2>1, <2>2 DEF TruncateVersion, WriteVersion, Progress, Rest, Skip, KeysInv, TypeOK
    <2>4. CASE TruncateVersion(p)
      BY <2>2, <2>3, <2>4 DEF TruncateVersion, Goto, Progress, KeysInv, TypeOK
    <2>5. CASE WriteVersion(p)
      BY <2>2, <2>3, <2>5 DEF WriteVersion, End, Progress, KeysInv, TypeOK
    <2> QED BY <1>4, <2>1, <2>4, <2>5
  <1>5. ASSUME NEW q \in Procs, OperationFails(q) \/ Kill(q) PROVE Progress(p)'
    <2>1. Unambiguous /\ alone[p] = "yes"
      BY <1>5 DEF OperationFails, Kill, Unambiguous
    <2>2. CASE q # p
      BY <1>5, <1>o, <2>1, <2>2 DEF OperationFails, Kill, End, KeysInv, TypeOK
    <2>3. CASE q = p
      BY <1>5, <2>3 DEF OperationFails, Kill, End, Progress, KeysInv, TypeOK
    <2> QED BY <2>2, <2>3
  <1>6. ASSUME NEW k \in Owners, AddKey(k) PROVE Progress(p)'
    BY <1>6 DEF AddKey
  <1>7. CASE UNCHANGED vars
    BY <1>7, <1>o DEF vars, Unambiguous
  <1> QED BY <1>1, <1>2, <1>3, <1>4, <1>5, <1>6, <1>7 DEF Next

\* If all the names have the form of version v, each key is where a daemon of
\* that version looks for it.
LEMMA RestIsFound ==
  ASSUME KeysInv, Unambiguous, NEW p \in Procs, Rest(p, {})
  PROVE  Found(IF op[p] = "apply" THEN 9 ELSE 8)
  <1> SUFFICES ASSUME NEW k \in owned
               PROVE  files[IF op[p] = "apply" THEN Enc[k] ELSE k] = k
    BY DEF Found
  <1>1. PICK n \in Names : files[n] = k
    BY DEF KeysInv, KeysSurvive
  <1>2. k # NoKey /\ n \in {k, Enc[k]} /\ Skip(p, n)
    BY <1>1, SentinelAssumption DEF KeysInv, OwnNames, TypeOK, Rest
  <1>3. k \notin Decodable /\ Enc[k] \in Decodable
    BY CodecAssumption DEF KeysInv, TypeOK, Unambiguous
  <1> QED BY <1>1, <1>2, <1>3 DEF Skip

\* A run of 8-to-9 that nobody disturbs and that returns nil leaves every key
\* under the name that the daemon of its version looks for, whatever mixture
\* earlier runs have left, for any keys, codec, runs and faults.
THEOREM RunningAloneIsComplete == Spec => []AloneIsComplete
  <1>1. Init => KeysInv /\ AloneInv
    BY CodecAssumption, SentinelAssumption, BoundAssumption
       DEF Init, KeysInv, TypeOK, OwnNames, KeysSurvive, Names, Blank, AloneInv
  <1>2. KeysInv /\ AloneInv => AloneIsComplete
    <2> SUFFICES ASSUME KeysInv, AloneInv, Unambiguous, NEW p \in Procs, alone[p] = "yes"
                 PROVE  /\ outcome[p] = "applied" => version = 9 /\ Found(9)
                        /\ outcome[p] = "reverted" => version = 8 /\ Found(8)
      BY DEF AloneIsComplete
    <2>1. Progress(p)
      BY DEF AloneInv
    <2>2. CASE outcome[p] = "applied"
      <3>1. op[p] = "apply" /\ version = 9 /\ Rest(p, {})
        BY <2>1, <2>2 DEF Progress
      <3> QED BY <3>1, <2>2, RestIsFound
    <2>3. CASE outcome[p] = "reverted"
      <3>1. op[p] = "revert" /\ version = 8 /\ Rest(p, {})
        BY <2>1, <2>3 DEF Progress
      <3> QED BY <3>1, <2>3, RestIsFound
    <2> QED BY <2>2, <2>3
  <1> QED
    BY <1>1, <1>2, KeysInvStep, AloneStep, PTL DEF Spec

=============================================================================

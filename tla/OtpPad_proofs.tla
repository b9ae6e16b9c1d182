---------------------------- MODULE OtpPad_proofs ----------------------------
(***************************************************************************)
(* Proofs about OtpPad, for any number of processes, pad files, copies,    *)
(* state directories, messages and power failures.                         *)
(*                                                                         *)
(* The argument has two layers.  Typed is inductive on its own: it says    *)
(* that a command past its first step has the operands that step chose.    *)
(* Guarded, inductive relative to Typed, says what a process owns at each  *)
(* step: the lock of its pad, the record it created and the marker it set, *)
(* and that what has been released is covered by synchronised state.       *)
(***************************************************************************)
EXTENDS OtpPad, TLAPS

\* Steps of a command that has passed Check, has created the ledger record,
\* has synchronised it, has written the marker, has synchronised that.
Claimed  == {"ledgersync", "mark", "marksync", "stream", "commit", "dirsync"}
Checked  == {"auth", "stage", "reserve"} \cup Claimed
Recorded == Claimed \ {"ledgersync"}
Marked   == Recorded \ {"mark"}
Sealed   == Marked \ {"marksync"}
Holding  == {"check", "wipe", "wipesync"} \cup Checked

-----------------------------------------------------------------------------
(* The first layer.                                                        *)

JobTyped ==
    \A p \in Proc : pc[p] \notin {"idle", "done"} =>
        /\ job[p].op \in AllOps /\ job[p].pad \in PadFile
        /\ job[p].op \in {"encrypt", "decrypt"} =>
              job[p].dir \in StateDir /\ job[p].out \in Path
        /\ job[p].op = "encrypt" => job[p].msg \in Message
        /\ job[p].op = "decrypt" => job[p].in \in Path
        /\ pc[p] \in Checked => job[p].op \in {"encrypt", "decrypt"}
        /\ pc[p] = "auth" => job[p].op = "decrypt"
        /\ pc[p] \in {"inspect", "report"} => job[p].dir \in StateDir
        /\ pc[p] \in {"commit", "dirsync"} => staged[p] \in Message

EnvelopeTyped(c) == c.kind = "envelope" => c.id \in PadId /\ c.msg \in Message

FileTyped ==
    \A o \in Path : EnvelopeTyped(file[o]) /\ EnvelopeTyped(fileDisk[o])

Typed == TypeOK /\ JobTyped /\ FileTyped

LEMMA InitTyped == Init => Typed
  BY PadAssumption DEF Init, Typed, TypeOK, JobTyped, FileTyped, EnvelopeTyped,
     Retained, NoJob, Nothing, Job, Content, Kind, Marker, Step, Result, Release

LEMMA DamagedContent ==
    ASSUME NEW i \in PadId
    PROVE  Damaged(i) \in Content /\ EnvelopeTyped(Damaged(i))
  BY DEF Damaged, Content, Kind, EnvelopeTyped

LEMMA NextTyped == Typed /\ [Next]_vars => Typed'
<1> SUFFICES ASSUME Typed, [Next]_vars PROVE Typed'
  OBVIOUS
<1> USE PadAssumption DEF Typed, TypeOK, JobTyped, FileTyped, EnvelopeTyped,
        Volatile, ledgerVars, fileVars, AllOps, Checked, Claimed, Step
<1>1. ASSUME NEW p \in Proc, BeginEncrypt(p) PROVE Typed'
  BY <1>1 DEF BeginEncrypt, Job, AllOps
<1>2. ASSUME NEW p \in Proc, BeginDecrypt(p) PROVE Typed'
  BY <1>2 DEF BeginDecrypt, Job, AllOps, Content
<1>3. ASSUME NEW p \in Proc, BeginDestroy(p) PROVE Typed'
  <2>1. PICK f \in PadFile :
           job' = [job EXCEPT ![p] = [NoJob EXCEPT !.op = "destroy", !.pad = f]]
    BY <1>3, Zenon DEF BeginDestroy
  <2> DEFINE j == [NoJob EXCEPT !.op = "destroy", !.pad = f]
  <2>2. j \in Job /\ j.op = "destroy" /\ j.pad = f
    BY DEF Job, NoJob
  <2>3. job' = [job EXCEPT ![p] = j]
    BY <2>1
  <2>4. pc' = [pc EXCEPT ![p] = "lock"] /\ Volatile
        /\ UNCHANGED <<header, staged, result, lock>>
    BY <1>3, Zenon DEF BeginDestroy
  <2> HIDE DEF j
  <2> QED
    BY <2>2, <2>3, <2>4
<1>4. ASSUME NEW p \in Proc, BeginInfo(p) PROVE Typed'
  <2>1. PICK f \in PadFile, d \in StateDir :
           job' = [job EXCEPT ![p] =
                      [NoJob EXCEPT !.op = "info", !.pad = f, !.dir = d]]
    BY <1>4, Zenon DEF BeginInfo
  <2> DEFINE j == [NoJob EXCEPT !.op = "info", !.pad = f, !.dir = d]
  <2>2. j \in Job /\ j.op = "info" /\ j.pad = f /\ j.dir = d
    BY DEF Job, NoJob
  <2>3. job' = [job EXCEPT ![p] = j]
    BY <2>1
  <2>4. pc' = [pc EXCEPT ![p] = "inspect"] /\ Volatile
        /\ UNCHANGED <<header, staged, result, lock>>
    BY <1>4, Zenon DEF BeginInfo
  <2> HIDE DEF j
  <2> QED
    BY <2>2, <2>3, <2>4
<1>5. ASSUME NEW p \in Proc, Lock(p) PROVE Typed'
  BY <1>5 DEF Lock
<1>6. ASSUME NEW p \in Proc, Check(p) PROVE Typed'
  BY <1>6 DEF Check, Return, Goto, Unlocked, Result
<1>7. ASSUME NEW p \in Proc, Authenticate(p) PROVE Typed'
  BY <1>7 DEF Authenticate, Return, Goto, Unlocked, Result
<1>8. ASSUME NEW p \in Proc, Stage(p) PROVE Typed'
  BY <1>8 DEF Stage, Return, Goto, Unlocked, Result
<1>9. ASSUME NEW p \in Proc, ReserveCreate(p) PROVE Typed'
  BY <1>9 DEF ReserveCreate, Return, Goto, Unlocked, Result, UseOf, RoleFor,
     Usage, Role
<1>10. ASSUME NEW p \in Proc, ReserveSync(p) PROVE Typed'
  BY <1>10 DEF ReserveSync, Return, Goto, Unlocked, Result, RecordSynced,
     UseOf, RoleFor, Usage, Role
<1>11. ASSUME NEW p \in Proc, Mark(p) PROVE Typed'
  BY <1>11 DEF Mark, Return, Goto, Unlocked, Result, Marker
<1>12. ASSUME NEW p \in Proc, MarkSync(p) PROVE Typed'
  BY <1>12 DEF MarkSync, Return, Goto, Unlocked, Result, PadSynced, Marker
<1>13. ASSUME NEW p \in Proc, EncryptStream(p) PROVE Typed'
  BY <1>13 DEF EncryptStream
<1>14. ASSUME NEW p \in Proc, DecryptStream(p) PROVE Typed'
  <2> DEFINE c == file[job[p].in]
  <2>1. job[p].op = "decrypt" /\ c \in Content
    BY <1>14 DEF DecryptStream
  <2>2. Authentic(c, header[p]) => c.msg \in Message
    BY <1>14 DEF DecryptStream, Authentic
  <2>3. CASE Authentic(c, header[p])
    BY <1>14, <2>1, <2>2, <2>3 DEF DecryptStream
  <2>4. CASE ~Authentic(c, header[p])
    BY <1>14, <2>1, <2>4 DEF DecryptStream, Return, Unlocked, Result
  <2> QED
    BY <2>3, <2>4
<1>15. ASSUME NEW p \in Proc, Commit(p) PROVE Typed'
  <2>1. CASE NameTaken(job[p].out)
    BY <1>15, <2>1 DEF Commit, Return, Unlocked, Result
  <2>2. CASE ~NameTaken(job[p].out)
    <3>1. job[p].dir \in StateDir /\ staged[p] \in Message
          /\ job[p].pad \in PadFile
      BY <1>15 DEF Commit
    <3>2. Output(p) \in Content /\ EnvelopeTyped(Output(p))
      BY <3>1 DEF Output, Envelope, Plaintext, Content, Kind
    <3>3. UseOf(p) \in Usage
      BY <3>1 DEF UseOf, RoleFor, Usage, Role
    <3>4. released' \subseteq Release
      BY <1>15, <2>2, <3>1, <3>3 DEF Commit, Release
    <3> QED
      BY <1>15, <2>2, <3>2, <3>4 DEF Commit, Goto
  <2> QED
    BY <2>1, <2>2
<1>16. ASSUME NEW p \in Proc, DirSync(p) PROVE Typed'
  <2>1. TypeOK'
    BY <1>16 DEF DirSync, Return, Unlocked, Result, PublishedButNotDurable
  <2>2. JobTyped' /\ FileTyped'
    BY <1>16 DEF DirSync, Return
  <2> QED
    BY <2>1, <2>2
<1>17. ASSUME NEW p \in Proc, Wipe(p) PROVE Typed'
  BY <1>17 DEF Wipe, Return, Goto, Unlocked, Result, Marker
<1>18. ASSUME NEW p \in Proc, WipeSync(p) PROVE Typed'
  BY <1>18 DEF WipeSync, Return, Goto, Unlocked, Result, PadSynced, Marker
<1>19. ASSUME NEW p \in Proc, Inspect(p) PROVE Typed'
  BY <1>19 DEF Inspect, Return, Goto, Unlocked, Result
<1>20. ASSUME NEW p \in Proc, Report(p) PROVE Typed'
  BY <1>20 DEF Report, Return, Goto, Unlocked, Result
<1>21. ASSUME NEW p \in Proc, Fail(p) PROVE Typed'
  BY <1>21 DEF Fail, Return, Goto, Unlocked, Result, Burn
<1>22. ASSUME NEW p \in Proc, Kill(p) PROVE Typed'
  BY <1>22 DEF Kill, Return, Goto, Unlocked, Result
<1>23. ASSUME PowerLoss PROVE Typed'
  BY <1>23 DEF PowerLoss, Result
<1>24. ASSUME CopyPad PROVE Typed'
  BY <1>24 DEF CopyPad, procVars
<1>25. ASSUME Disturb PROVE Typed'
  <2>1. PICK o \in Path :
           \/ \E i \in PadId : file' = [file EXCEPT ![o] = Damaged(i)]
           \/ file' = [file EXCEPT ![o] = Foreign]
    BY <1>25 DEF Disturb
  <2>3. Foreign \in Content /\ EnvelopeTyped(Foreign)
    BY DEF Foreign, Content, Kind
  <2>4. \E c \in Content : EnvelopeTyped(c) /\ file' = [file EXCEPT ![o] = c]
    BY <2>1, <2>3, DamagedContent
  <2>5. file' \in [Path -> Content] /\ \A q \in Path : EnvelopeTyped(file'[q])
    BY <2>4
  <2> QED
    BY <1>25, <2>5 DEF Disturb, procVars
<1>26. ASSUME UNCHANGED vars PROVE Typed'
  BY <1>26 DEF vars
<1> QED
  BY <1>1, <1>2, <1>3, <1>4, <1>5, <1>6, <1>7, <1>8, <1>9, <1>10, <1>11,
     <1>12, <1>13, <1>14, <1>15, <1>16, <1>17, <1>18, <1>19, <1>20, <1>21,
     <1>22, <1>23, <1>24, <1>25, <1>26 DEF Next, Run, Begin, Progress,
     Environment

\* Every value the program keeps has its type, and a command past its first
\* step has the pad, directory and paths it was given (lib.rs:959, 1115, 1206).
THEOREM TypeCorrect == Spec => []TypeOK
<1>1. Typed => TypeOK
  BY DEF Typed
<1> QED
  BY InitTyped, NextTyped, <1>1, PTL DEF Spec

-----------------------------------------------------------------------------
(* The second layer.                                                       *)

\* From Check on a process holds the lock of its pad.
LockHeld == \A p \in Proc : pc[p] \in Holding => lock[job[p].pad] = p

\* So nobody else changes the marker: fresh until Mark, consumed after it.
MarkerKnown ==
    \A p \in Proc :
        LET f == job[p].pad IN
        /\ pc[p] \in Checked =>
              /\ RoleOf[f] = RoleFor(job[p].op)
              /\ mark[f] = IF pc[p] \in Marked THEN "consumed" ELSE "fresh"
        /\ pc[p] \in Sealed => markDisk[f] = "consumed"

\* A claimed record is in the ledger and, once synchronised, on disk.
RecordHeld ==
    /\ Retained \subseteq durableDir
    /\ \A d \in StateDir : ledgerDisk[d] \subseteq ledger[d]
    /\ \A p \in Proc :
          /\ pc[p] \in Claimed => UseOf(p) \in ledger[job[p].dir]
          /\ pc[p] \in Recorded => UseOf(p) \in ledgerDisk[job[p].dir]

\* create_new gave each record to one process.
OneClaimant ==
    \A p, q \in Proc :
        /\ pc[p] \in Claimed /\ pc[q] \in Claimed
        /\ job[p].dir = job[q].dir /\ UseOf(p) = UseOf(q)
        => p = q

\* What has been released is on record and its pad is spent, both on disk.
Covered ==
    \A r \in released :
        /\ r.dir \in Retained => r.use \in ledgerDisk[r.dir]
        /\ mark[r.pad] \in {"consumed", "wiped"}
        /\ markDisk[r.pad] \in {"consumed", "wiped"}

\* A claim that has not been used yet, and a pad that has not.
ClaimUnused ==
    \A p \in Proc : \A r \in released :
        /\ pc[p] \in Claimed \ {"dirsync"} /\ r.dir \in Retained =>
              ~(r.dir = job[p].dir /\ r.use = UseOf(p))
        /\ pc[p] \in Checked \ {"dirsync"} => r.pad # job[p].pad

Guarded ==
    /\ LockHeld /\ MarkerKnown /\ RecordHeld /\ OneClaimant
    /\ Covered /\ ClaimUnused /\ SingleUse /\ OneOutputPerPadFile

LEMMA InitGuarded == Init => Guarded
  BY PadAssumption DEF Init, Guarded, LockHeld, MarkerKnown, RecordHeld,
     OneClaimant, Covered, ClaimUnused, SingleUse, OneOutputPerPadFile,
     Holding, Checked, Claimed, Recorded, Marked, Sealed

\* A command that returns, for whatever reason, and changes nothing shared.
LEMMA ReturnGuarded ==
    ASSUME Typed, Guarded, NEW p \in Proc, NEW r, pc[p] # "idle", Return(p, r),
           UNCHANGED <<mark, markDisk, ledgerVars, released>>
    PROVE  Guarded'
<1> USE DEF Typed, TypeOK, Guarded, Return, Unlocked, ledgerVars,
        Holding, Checked, Claimed, Recorded, Marked, Sealed
<1>1. LockHeld' /\ MarkerKnown'
  BY DEF LockHeld, MarkerKnown, JobTyped
<1>2. RecordHeld' /\ OneClaimant'
  BY DEF RecordHeld, OneClaimant, UseOf
<1>3. Covered' /\ ClaimUnused'
  BY DEF Covered, ClaimUnused, UseOf
<1>4. SingleUse' /\ OneOutputPerPadFile'
  BY DEF SingleUse, OneOutputPerPadFile
<1> QED
  BY <1>1, <1>2, <1>3, <1>4

\* A command that starts: it owns nothing yet.
LEMMA BeginGuarded ==
    ASSUME Typed, Guarded, NEW p \in Proc, NEW j, NEW s \in {"lock", "inspect"},
           pc[p] = "idle", job' = [job EXCEPT ![p] = j],
           pc' = [pc EXCEPT ![p] = s], UNCHANGED lock, Volatile
    PROVE  Guarded'
<1> USE DEF Typed, TypeOK, Guarded, Volatile, ledgerVars,
        Holding, Checked, Claimed, Recorded, Marked, Sealed
<1>1. LockHeld' /\ MarkerKnown'
  BY DEF LockHeld, MarkerKnown
<1>2. RecordHeld' /\ OneClaimant'
  BY DEF RecordHeld, OneClaimant, UseOf
<1>3. Covered' /\ ClaimUnused'
  BY DEF Covered, ClaimUnused, UseOf
<1>4. SingleUse' /\ OneOutputPerPadFile'
  BY DEF SingleUse, OneOutputPerPadFile
<1> QED
  BY <1>1, <1>2, <1>3, <1>4

\* A power failure keeps what was on disk: records of a retained directory,
\* and markers that agree on disk and in memory.
LEMMA PowerLossKeeps ==
    ASSUME Typed, RecordHeld, PowerLoss
    PROVE  /\ \A d \in Retained : ledgerDisk[d] \subseteq ledgerDisk'[d]
           /\ \A f \in PadFile : mark'[f] \in {mark[f], markDisk[f]}
           /\ markDisk' = mark' /\ released' = released
  BY PadAssumption DEF Typed, TypeOK, RecordHeld, PowerLoss, Retained

LEMMA NextGuarded == Typed /\ Typed' /\ Guarded /\ [Next]_vars => Guarded'
<1> SUFFICES ASSUME Typed, Typed', Guarded, [Next]_vars PROVE Guarded'
  OBVIOUS
<1> USE PadAssumption DEF Typed, TypeOK, JobTyped, Guarded, Volatile, ledgerVars,
        Goto, UseOf, Holding, Checked, Claimed, Recorded, Marked, Sealed
<1>1. ASSUME NEW p \in Proc, Begin(p) PROVE Guarded'
  <2>1. /\ \E j : job' = [job EXCEPT ![p] = j]
        /\ \E s \in {"lock", "inspect"} : pc' = [pc EXCEPT ![p] = s]
        /\ pc[p] = "idle" /\ UNCHANGED lock /\ Volatile
    BY <1>1, Zenon DEF Begin, BeginEncrypt, BeginDecrypt, BeginDestroy, BeginInfo
  <2> QED
    BY <2>1, BeginGuarded, Zenon
<1>2. ASSUME NEW p \in Proc, Lock(p) PROVE Guarded'
  <2>1. LockHeld' /\ MarkerKnown' /\ RecordHeld' /\ OneClaimant'
    BY <1>2 DEF Lock, LockHeld, MarkerKnown, RecordHeld, OneClaimant
  <2>2. Covered' /\ ClaimUnused' /\ SingleUse' /\ OneOutputPerPadFile'
    BY <1>2 DEF Lock, Covered, ClaimUnused, SingleUse, OneOutputPerPadFile
  <2> QED
    BY <2>1, <2>2
<1>3. ASSUME NEW p \in Proc, pc[p] = "check", NEW s \in {"auth", "stage"},
             Goto(p, s), Volatile, RoleOf[job[p].pad] = RoleFor(job[p].op),
             mark[job[p].pad] = "fresh"
      PROVE  Guarded'
  <2>1. LockHeld' /\ MarkerKnown' /\ RecordHeld' /\ OneClaimant'
    BY <1>3 DEF LockHeld, MarkerKnown, RecordHeld, OneClaimant
  <2>2. ClaimUnused'
    BY <1>3 DEF ClaimUnused, Covered
  <2>3. Covered' /\ SingleUse' /\ OneOutputPerPadFile'
    BY <1>3 DEF Covered, SingleUse, OneOutputPerPadFile
  <2> QED
    BY <2>1, <2>2, <2>3
<1>4. ASSUME NEW p \in Proc, NEW s \in {"stage", "reserve", "wipe", "report", "commit"},
             \/ pc[p] = "check" /\ s = "wipe"
             \/ pc[p] = "auth" /\ s = "stage"
             \/ pc[p] = "stage" /\ s = "reserve"
             \/ pc[p] = "stream" /\ s = "commit"
             \/ pc[p] = "inspect" /\ s = "report",
             pc' = [pc EXCEPT ![p] = s], UNCHANGED <<job, lock>>, Volatile
      PROVE  Guarded'
  <2>1. LockHeld' /\ MarkerKnown' /\ RecordHeld' /\ OneClaimant'
    BY <1>4 DEF LockHeld, MarkerKnown, RecordHeld, OneClaimant
  <2>2. Covered' /\ ClaimUnused' /\ SingleUse' /\ OneOutputPerPadFile'
    BY <1>4 DEF Covered, ClaimUnused, SingleUse, OneOutputPerPadFile
  <2> QED
    BY <2>1, <2>2
<1>5. ASSUME NEW p \in Proc, Check(p) PROVE Guarded'
  BY <1>3, <1>4, <1>5, ReturnGuarded DEF Check, Valid
<1>6. ASSUME NEW p \in Proc, Authenticate(p) \/ Stage(p) \/ Inspect(p) PROVE Guarded'
  BY <1>4, <1>6, ReturnGuarded DEF Authenticate, Stage, Inspect
<1>7. ASSUME NEW p \in Proc, Report(p) \/ Fail(p) \/ Kill(p) \/ DirSync(p)
      PROVE  Guarded'
  BY <1>7, ReturnGuarded DEF Report, Fail, Burn, Kill, DirSync
<1>8. ASSUME NEW p \in Proc, EncryptStream(p) \/ DecryptStream(p) PROVE Guarded'
  BY <1>4, <1>8, ReturnGuarded DEF EncryptStream, DecryptStream
<1>9. ASSUME NEW p \in Proc, ReserveCreate(p) PROVE Guarded'
  <2>1. CASE RecordExists(p)
    BY <1>9, <2>1, ReturnGuarded DEF ReserveCreate
  <2>2. CASE ~RecordExists(p)
    <3> USE <1>9, <2>2 DEF ReserveCreate
    <3>1. LockHeld' /\ MarkerKnown'
      BY DEF LockHeld, MarkerKnown
    <3>2. RecordHeld'
      BY DEF RecordHeld
    <3>3. OneClaimant'
      BY DEF OneClaimant, RecordHeld, RecordExists
    <3>4. ClaimUnused'
      <4>1. \A r \in released : r.dir \in Retained =>
               ~(r.dir = job[p].dir /\ r.use = UseOf(p))
        <5>1. \A d \in StateDir : ledgerDisk[d] \subseteq ledger[d]
          BY DEF RecordHeld
        <5>2. \A r \in released : r.dir \in Retained =>
                 r.dir \in StateDir /\ r.use \in ledgerDisk[r.dir]
          BY DEF Covered, Retained
        <5>3. UseOf(p) \notin ledger[job[p].dir]
          BY <2>2 DEF RecordExists
        <5>4. ASSUME NEW r \in released, r.dir \in Retained,
                     r.dir = job[p].dir, r.use = UseOf(p)
              PROVE  FALSE
          <6>1. r.dir \in StateDir /\ r.use \in ledgerDisk[r.dir]
            BY <5>2, <5>4, Zenon
          <6>2. r.use \in ledger[r.dir]
            BY <5>1, <6>1, Zenon
          <6> QED
            BY <5>3, <5>4, <6>2, Zenon
        <5> QED
          BY <5>4, Zenon
      <4> QED
        BY <4>1 DEF ClaimUnused
    <3>5. Covered' /\ SingleUse' /\ OneOutputPerPadFile'
      BY DEF Covered, SingleUse, OneOutputPerPadFile
    <3> QED
      BY <3>1, <3>2, <3>3, <3>4, <3>5
  <2> QED
    BY <2>1, <2>2
<1>10. ASSUME NEW p \in Proc, ReserveSync(p) PROVE Guarded'
  <2> USE <1>10 DEF ReserveSync
  <2>1. LockHeld' /\ MarkerKnown' /\ OneClaimant'
    BY DEF LockHeld, MarkerKnown, OneClaimant
  <2>2. RecordHeld'
    BY DEF RecordHeld, RecordSynced
  <2>3. Covered'
    BY DEF Covered, RecordSynced
  <2>4. ClaimUnused' /\ SingleUse' /\ OneOutputPerPadFile'
    BY DEF ClaimUnused, SingleUse, OneOutputPerPadFile
  <2> QED
    BY <2>1, <2>2, <2>3, <2>4
<1>11. ASSUME NEW p \in Proc, Mark(p) PROVE Guarded'
  <2> USE <1>11 DEF Mark
  <2>1. LockHeld' /\ RecordHeld' /\ OneClaimant'
    BY DEF LockHeld, RecordHeld, OneClaimant
  <2>2. MarkerKnown'
    BY DEF MarkerKnown, LockHeld
  <2>3. Covered'
    BY DEF Covered
  <2>4. ClaimUnused' /\ SingleUse' /\ OneOutputPerPadFile'
    BY DEF ClaimUnused, SingleUse, OneOutputPerPadFile
  <2> QED
    BY <2>1, <2>2, <2>3, <2>4
<1>12. ASSUME NEW p \in Proc, MarkSync(p) PROVE Guarded'
  <2> USE <1>12 DEF MarkSync, PadSynced
  <2>1. LockHeld' /\ RecordHeld' /\ OneClaimant'
    BY DEF LockHeld, RecordHeld, OneClaimant
  <2>2. MarkerKnown'
    BY DEF MarkerKnown, LockHeld
  <2>3. Covered'
    BY DEF Covered
  <2>4. ClaimUnused' /\ SingleUse' /\ OneOutputPerPadFile'
    BY DEF ClaimUnused, SingleUse, OneOutputPerPadFile
  <2> QED
    BY <2>1, <2>2, <2>3, <2>4
<1>13. ASSUME NEW p \in Proc, Commit(p) PROVE Guarded'
  <2>1. CASE NameTaken(job[p].out)
    BY <1>13, <2>1, ReturnGuarded DEF Commit
  <2>2. CASE ~NameTaken(job[p].out)
    <3> DEFINE new == [by |-> p, pad |-> job[p].pad, dir |-> job[p].dir,
                       use |-> UseOf(p), msg |-> staged[p]]
    <3>1. /\ pc[p] = "commit" /\ Goto(p, "dirsync")
          /\ released' = released \cup {new}
          /\ UNCHANGED <<mark, markDisk, ledgerVars>>
      BY <1>13, <2>2, Zenon DEF Commit
    <3>2. /\ new.pad = job[p].pad /\ new.dir = job[p].dir
          /\ new.use = UseOf(p)
      OBVIOUS
    <3> HIDE DEF new
    <3>3. LockHeld' /\ MarkerKnown' /\ RecordHeld' /\ OneClaimant'
      BY <3>1 DEF LockHeld, MarkerKnown, RecordHeld, OneClaimant
    <3>4. Covered'
      <4>1. /\ UseOf(p) \in ledgerDisk[job[p].dir]
            /\ mark[job[p].pad] = "consumed" /\ markDisk[job[p].pad] = "consumed"
        BY <3>1 DEF MarkerKnown, RecordHeld
      <4> QED
        BY <3>1, <3>2, <4>1 DEF Covered
    <3>5. ClaimUnused'
      BY <3>1, <3>2 DEF ClaimUnused, OneClaimant, LockHeld
    <3>6. /\ \A r \in released : r.dir \in Retained =>
                 ~(r.dir = new.dir /\ r.use = new.use)
          /\ \A r \in released : r.pad # new.pad
      BY <3>1, <3>2, Zenon DEF ClaimUnused, Claimed, Checked
    <3>7. SingleUse'
      <4>1. \A r, s \in released :
               r.dir \in Retained /\ r.dir = s.dir /\ r.use = s.use => r = s
        BY Zenon DEF SingleUse
      <4> QED
        BY <3>1, <3>6, <4>1, Zenon DEF SingleUse
    <3>8. OneOutputPerPadFile'
      <4>1. \A r, s \in released : r.pad = s.pad => r = s
        BY Zenon DEF OneOutputPerPadFile
      <4> QED
        BY <3>1, <3>6, <4>1, Zenon DEF OneOutputPerPadFile
    <3> QED
      BY <3>3, <3>4, <3>5, <3>7, <3>8
  <2> QED
    BY <2>1, <2>2
<1>14. ASSUME NEW p \in Proc, Wipe(p) PROVE Guarded'
  <2> USE <1>14 DEF Wipe
  <2>1. LockHeld' /\ RecordHeld' /\ OneClaimant'
    BY DEF LockHeld, RecordHeld, OneClaimant
  <2>2. MarkerKnown'
    BY DEF MarkerKnown, LockHeld
  <2>3. Covered'
    BY DEF Covered
  <2>4. ClaimUnused' /\ SingleUse' /\ OneOutputPerPadFile'
    BY DEF ClaimUnused, SingleUse, OneOutputPerPadFile
  <2> QED
    BY <2>1, <2>2, <2>3, <2>4
<1>15. ASSUME NEW p \in Proc, WipeSync(p) PROVE Guarded'
  <2> USE <1>15 DEF WipeSync, PadSynced, Return, Unlocked
  <2>1. LockHeld' /\ RecordHeld' /\ OneClaimant'
    BY DEF LockHeld, RecordHeld, OneClaimant
  <2>2. MarkerKnown'
    BY DEF MarkerKnown, LockHeld
  <2>3. Covered'
    BY DEF Covered
  <2>4. ClaimUnused' /\ SingleUse' /\ OneOutputPerPadFile'
    BY DEF ClaimUnused, SingleUse, OneOutputPerPadFile
  <2> QED
    BY <2>1, <2>2, <2>3, <2>4
<1>16. ASSUME PowerLoss PROVE Guarded'
  <2>1. \A p \in Proc : pc'[p] \in {"idle", "done"}
    BY <1>16 DEF PowerLoss
  <2>2. LockHeld' /\ MarkerKnown' /\ OneClaimant' /\ ClaimUnused'
    BY <2>1 DEF LockHeld, MarkerKnown, OneClaimant, ClaimUnused
  <2>3. RecordHeld'
    BY <1>16, <2>1 DEF PowerLoss, RecordHeld
  <2>4. Covered'
    BY <1>16, PowerLossKeeps DEF Covered, Release
  <2>5. SingleUse' /\ OneOutputPerPadFile'
    BY <1>16 DEF PowerLoss, SingleUse, OneOutputPerPadFile
  <2> QED
    BY <2>2, <2>3, <2>4, <2>5
<1>17. ASSUME CopyPad PROVE Guarded'
  <2> USE <1>17 DEF CopyPad, procVars
  <2>1. LockHeld' /\ RecordHeld' /\ OneClaimant'
    BY DEF LockHeld, RecordHeld, OneClaimant
  <2>2. MarkerKnown'
    BY DEF MarkerKnown
  <2>3. Covered'
    BY DEF Covered
  <2>4. ClaimUnused' /\ SingleUse' /\ OneOutputPerPadFile'
    BY DEF ClaimUnused, SingleUse, OneOutputPerPadFile
  <2> QED
    BY <2>1, <2>2, <2>3, <2>4
<1>18. ASSUME Disturb \/ UNCHANGED vars PROVE Guarded'
  <2> USE <1>18 DEF Disturb, procVars, vars
  <2>1. LockHeld' /\ MarkerKnown' /\ RecordHeld' /\ OneClaimant'
    BY DEF LockHeld, MarkerKnown, RecordHeld, OneClaimant
  <2>2. Covered' /\ ClaimUnused' /\ SingleUse' /\ OneOutputPerPadFile'
    BY DEF Covered, ClaimUnused, SingleUse, OneOutputPerPadFile
  <2> QED
    BY <2>1, <2>2
<1> QED
  BY <1>1, <1>2, <1>5, <1>6, <1>7, <1>8, <1>9, <1>10, <1>11, <1>12, <1>13,
     <1>14, <1>15, <1>16, <1>17, <1>18, Zenon
     DEF Next, Run, Progress, Environment

LEMMA SpecGuarded == Spec => [](Typed /\ Guarded)
  BY InitTyped, NextTyped, InitGuarded, NextGuarded, PTL DEF Spec

\* "Exact single use" (README.md:6): through a retained state directory no pad
\* identifier is used twice in one role, for any number of racing processes,
\* copies, kills and power failures.
THEOREM NoSecondUse == Spec => []SingleUse
<1>1. Guarded => SingleUse
  BY DEF Guarded
<1> QED
  BY SpecGuarded, <1>1, PTL

\* The marker alone (README.md:111, "two reuse barriers"): one pad file never
\* yields two outputs, whatever state directories the commands name.
THEOREM OneOutput == Spec => []OneOutputPerPadFile
<1>1. Guarded => OneOutputPerPadFile
  BY DEF Guarded
<1> QED
  BY SpecGuarded, <1>1, PTL

\* "Fail closed" (README.md:108): before an output has a name, its reservation
\* and its marker are on disk.
THEOREM FailClosed == Spec => []ReservedBeforeReleased
<1>1. Guarded => ReservedBeforeReleased
  BY DEF Guarded, Covered, ReservedBeforeReleased
<1> QED
  BY SpecGuarded, <1>1, PTL

-----------------------------------------------------------------------------
(* The third layer: what a receiver has, or publishes, some sender sent.   *)

Sent(id, m)  == \E s \in released : s.use = <<id, "sender">> /\ s.msg = m
SentSome(id) == \E s \in released : s.use = <<id, "sender">>

\* Envelopes exist only because a sender published them.
FilesBacked ==
    \A o \in Path : \A c \in {file[o], fileDisk[o]} :
        c.kind = "envelope" => Sent(c.id, c.msg)

\* Past authentication the pad's identifier is that of an envelope; past the
\* second pass the staged plaintext is that of an envelope.
DecryptBacked ==
    \A p \in Proc : job[p].op = "decrypt" =>
        /\ pc[p] \in Checked => header[p] = IdOf[job[p].pad]
        /\ pc[p] \in Checked \ {"auth"} => SentSome(IdOf[job[p].pad])
        /\ pc[p] \in {"commit", "dirsync"} => Sent(IdOf[job[p].pad], staged[p])

\* The receiver's record and marker were paid for with an authentic envelope.
UseBacked ==
    /\ \A d \in StateDir : \A u \in ledger[d] :
          u[2] = "receiver" => SentSome(u[1])
    /\ \A f \in PadFile :
          RoleOf[f] = "receiver" /\ "consumed" \in {mark[f], markDisk[f]} =>
              SentSome(IdOf[f])

Backed == FilesBacked /\ DecryptBacked /\ UseBacked /\ PlaintextIsAuthentic

LEMMA InitBacked == Init => Backed
  BY PadAssumption DEF Init, Backed, FilesBacked, DecryptBacked, UseBacked,
     PlaintextIsAuthentic, Sent, SentSome, NoJob, Nothing, Checked, Claimed

\* A step after which whoever is past authentication was there before, and
\* every envelope, record and marker is one that was there before.
OldFiles ==
    \A o \in Path : \A c \in {file'[o], fileDisk'[o]} :
        c.kind = "envelope" => c \in {file[o], fileDisk[o]}

OldUse ==
    /\ \A d \in StateDir : ledger'[d] \subseteq ledger[d]
    /\ \A f \in PadFile : "consumed" \in {mark'[f], markDisk'[f]} =>
          \E g \in PadFile : /\ IdOf[g] = IdOf[f] /\ RoleOf[g] = RoleOf[f]
                             /\ "consumed" \in {mark[g], markDisk[g]}

OldJobs ==
    \A p \in Proc : pc'[p] \in Checked /\ job'[p].op = "decrypt" =>
        /\ job'[p] = job[p] /\ header'[p] = header[p]
        /\ \/ pc[p] \in Checked \ {"auth"}
           \/ pc[p] = "auth" /\ (pc'[p] = "auth" \/ SentSome(IdOf[job[p].pad]))
           \/ pc[p] = "check" /\ pc'[p] = "auth" /\ header[p] = IdOf[job[p].pad]
        /\ pc'[p] \in {"commit", "dirsync"} =>
              Sent(IdOf[job[p].pad], staged'[p])

LEMMA QuietBacked ==
    ASSUME Typed, Typed', Backed, released' = released, OldFiles, OldUse, OldJobs
    PROVE  Backed'
<1> USE DEF Sent, SentSome
<1>1. FilesBacked'
  BY DEF FilesBacked, OldFiles, Backed
<1>2. DecryptBacked'
  <2> SUFFICES ASSUME NEW p \in Proc, job'[p].op = "decrypt", pc'[p] \in Checked
               PROVE  /\ header'[p] = IdOf[job'[p].pad]
                      /\ pc'[p] # "auth" => SentSome(IdOf[job[p].pad])'
                      /\ pc'[p] \in {"commit", "dirsync"} =>
                            Sent(IdOf[job[p].pad], staged[p])'
    BY DEF DecryptBacked, Checked, Claimed
  <2>1. job'[p] = job[p] /\ header'[p] = header[p] /\ job[p].op = "decrypt"
    BY DEF OldJobs
  <2>2. pc'[p] \in {"commit", "dirsync"} => Sent(IdOf[job[p].pad], staged[p])'
    BY <2>1 DEF OldJobs
  <2>3. \/ pc[p] \in Checked \ {"auth"}
        \/ pc[p] = "auth" /\ (pc'[p] = "auth" \/ SentSome(IdOf[job[p].pad]))
        \/ pc[p] = "check" /\ pc'[p] = "auth" /\ header[p] = IdOf[job[p].pad]
    BY DEF OldJobs
  <2>4. pc[p] \in Checked =>
           /\ header[p] = IdOf[job[p].pad]
           /\ pc[p] # "auth" => SentSome(IdOf[job[p].pad])
    BY <2>1 DEF DecryptBacked, Backed
  <2>5. pc[p] = "auth" => pc[p] \in Checked
    BY DEF Checked
  <2> QED
    BY <2>1, <2>2, <2>3, <2>4, <2>5
<1>3. UseBacked'
  <2>1. ASSUME NEW d \in StateDir, NEW u \in ledger'[d], u[2] = "receiver"
        PROVE  SentSome(u[1])'
    BY <2>1 DEF UseBacked, OldUse, Backed
  <2>2. ASSUME NEW f \in PadFile, RoleOf[f] = "receiver",
               "consumed" \in {mark'[f], markDisk'[f]}
        PROVE  SentSome(IdOf[f])'
    <3>1. PICK g \in PadFile : /\ IdOf[g] = IdOf[f] /\ RoleOf[g] = RoleOf[f]
                               /\ "consumed" \in {mark[g], markDisk[g]}
      BY <2>2 DEF OldUse
    <3> QED
      BY <2>2, <3>1 DEF UseBacked, Backed
  <2> QED
    BY <2>1, <2>2 DEF UseBacked
<1>4. PlaintextIsAuthentic'
  BY DEF PlaintextIsAuthentic, Backed
<1> QED
  BY <1>1, <1>2, <1>3, <1>4 DEF Backed

LEMMA NextBacked ==
    Typed /\ Typed' /\ Guarded /\ Backed /\ [Next]_vars => Backed'
<1> SUFFICES ASSUME Typed, Typed', Guarded, Backed, [Next]_vars PROVE Backed'
  OBVIOUS
<1> USE DEF Volatile, ledgerVars, fileVars
<1>1. ASSUME UNCHANGED <<mark, markDisk, ledger>> PROVE OldUse
  BY <1>1 DEF OldUse
<1>2. ASSUME UNCHANGED <<file, fileDisk>> PROVE OldFiles
  BY <1>2 DEF OldFiles
<1>3. ASSUME NEW p \in Proc, NEW r, Return(p, r) PROVE OldJobs
  <2>1. \A q \in Proc : pc'[q] \in Checked =>
           /\ q # p /\ pc'[q] = pc[q] /\ job'[q] = job[q]
           /\ header'[q] = header[q] /\ staged'[q] = staged[q]
    BY <1>3 DEF Return, Checked, Claimed, Typed, TypeOK
  <2> QED
    BY <2>1 DEF OldJobs, Backed, DecryptBacked, Checked, Claimed
<1>4. ASSUME NEW p \in Proc, NEW s, pc' = [pc EXCEPT ![p] = s],
             UNCHANGED <<job, header, staged>>,
             job[p].op = "decrypt" =>
                /\ s \in Checked \ {"auth"} => pc[p] \in Checked \ {"auth"}
                /\ s \in {"commit", "dirsync"} => pc[p] \in {"commit", "dirsync"}
                /\ s = "auth" => pc[p] = "check" /\ header[p] = IdOf[job[p].pad]
      PROVE  OldJobs
  BY <1>4 DEF OldJobs, Backed, DecryptBacked, Checked, Claimed, Typed, TypeOK
<1>5. ASSUME NEW p \in Proc, Begin(p) PROVE Backed'
  <2>1. UNCHANGED staged /\ Volatile
    BY <1>5, Zenon DEF Begin, BeginEncrypt, BeginDecrypt, BeginDestroy, BeginInfo
  <2>2. pc' \in [Proc -> Step] /\ pc'[p] \notin Checked
        /\ \A q \in Proc \ {p} : UNCHANGED <<pc[q], job[q], header[q]>>
    BY <1>5 DEF Begin, BeginEncrypt, BeginDecrypt, BeginDestroy, BeginInfo,
       Typed, TypeOK, Checked, Claimed
  <2>3. OldJobs
    BY <2>1, <2>2 DEF OldJobs, Backed, DecryptBacked, Checked, Claimed
  <2> QED
    BY <1>1, <1>2, <2>1, <2>3, QuietBacked
<1>6. ASSUME NEW p \in Proc, Lock(p) \/ Check(p) \/ Stage(p) \/ Inspect(p) \/ Report(p)
      PROVE  Backed'
  <2>1. Volatile
    BY <1>6, Zenon DEF Lock, Check, Stage, Inspect, Report
  <2>2. OldJobs
    <3>1. CASE Lock(p) \/ Stage(p) \/ Inspect(p) \/ Report(p)
      BY <1>3, <1>4, <3>1 DEF Lock, Stage, Inspect, Report, Goto, Checked, Claimed
    <3>2. CASE Check(p)
      BY <1>3, <1>4, <3>2 DEF Check, Goto, Checked, Claimed
    <3> QED
      BY <1>6, <3>1, <3>2
  <2> QED
    BY <1>1, <1>2, <2>1, <2>2, QuietBacked
<1>7. ASSUME NEW p \in Proc, Fail(p) \/ Kill(p) \/ DirSync(p) PROVE Backed'
  <2>1. OldFiles
    BY <1>7 DEF OldFiles, Fail, Kill, DirSync, Typed, TypeOK
  <2>2. UNCHANGED <<mark, markDisk, ledger, released>>
    BY <1>7, Zenon DEF Fail, Burn, Kill, DirSync
  <2>3. OldJobs
    BY <1>3, <1>7 DEF Fail, Kill, DirSync
  <2> QED
    BY <1>1, <2>1, <2>2, <2>3, QuietBacked
<1>8. ASSUME NEW p \in Proc, Authenticate(p) PROVE Backed'
  <2> DEFINE c == file[job[p].in]
  <2>1. job[p].in \in Path /\ pc[p] = "auth"
    BY <1>8 DEF Authenticate, Typed, JobTyped
  <2>2. CASE Authentic(c, header[p])
    <3>1. SentSome(header[p])
      BY <2>1, <2>2 DEF Authentic, Backed, FilesBacked, Sent, SentSome
    <3>2. pc' = [pc EXCEPT ![p] = "stage"] /\ UNCHANGED <<job, header, staged>>
      BY <1>8, <2>2 DEF Authenticate, Goto
    <3>3. job[p].op = "decrypt" => header[p] = IdOf[job[p].pad]
      BY <2>1 DEF Backed, DecryptBacked, Checked
    <3>4. OldJobs
      BY <2>1, <3>1, <3>2, <3>3 DEF OldJobs, Backed, DecryptBacked, Checked,
         Claimed, Typed, TypeOK
    <3> QED
      BY <1>1, <1>2, <1>8, <3>4, QuietBacked DEF Authenticate
  <2>3. CASE ~Authentic(c, header[p])
    BY <1>1, <1>2, <1>3, <1>8, <2>3, QuietBacked DEF Authenticate
  <2> QED
    BY <2>2, <2>3
<1>9. ASSUME NEW p \in Proc, ReserveCreate(p) PROVE Backed'
  <2>1. CASE RecordExists(p)
    BY <1>1, <1>2, <1>3, <1>9, <2>1, QuietBacked DEF ReserveCreate
  <2>2. CASE ~RecordExists(p)
    <3>1. /\ pc[p] = "reserve" /\ pc' = [pc EXCEPT ![p] = "ledgersync"]
          /\ ledger' = [ledger EXCEPT ![job[p].dir] = @ \cup {UseOf(p)}]
          /\ UNCHANGED <<mark, markDisk, fileVars, job, header, staged, released>>
      BY <1>9, <2>2 DEF ReserveCreate, Goto
    <3>2. FilesBacked' /\ PlaintextIsAuthentic'
      BY <3>1 DEF Backed, FilesBacked, PlaintextIsAuthentic, Sent
    <3>3. DecryptBacked'
      BY <3>1 DEF Backed, DecryptBacked, Checked, Claimed, Sent, SentSome,
         Typed, TypeOK
    <3>4. RoleFor(job[p].op) = "receiver" => SentSome(IdOf[job[p].pad])
      BY <3>1 DEF RoleFor, Backed, DecryptBacked, Typed, JobTyped, Checked
    <3>5. \A d \in StateDir : \A u \in ledger'[d] : u \in ledger[d] \/ u = UseOf(p)
      BY <3>1 DEF Typed, TypeOK
    <3>6. UseBacked'
      <4>1. UseOf(p)[1] = IdOf[job[p].pad] /\ UseOf(p)[2] = RoleFor(job[p].op)
        BY DEF UseOf
      <4>2. \A d \in StateDir : \A u \in ledger'[d] :
               u[2] = "receiver" => SentSome(u[1])
        BY <3>4, <3>5, <4>1 DEF Backed, UseBacked
      <4> QED
        BY <3>1, <4>2 DEF Backed, UseBacked, SentSome
    <3> QED
      BY <3>2, <3>3, <3>6 DEF Backed
  <2> QED
    BY <2>1, <2>2
<1>10. ASSUME NEW p \in Proc, ReserveSync(p) PROVE Backed'
  <2>1. OldJobs
    BY <1>4, <1>10 DEF ReserveSync, Goto, Checked, Claimed
  <2> QED
    BY <1>1, <1>2, <1>10, <2>1, QuietBacked DEF ReserveSync
<1>11. ASSUME NEW p \in Proc, Mark(p) PROVE Backed'
  <2>1. /\ pc[p] = "mark" /\ pc' = [pc EXCEPT ![p] = "marksync"]
        /\ mark' = [mark EXCEPT ![job[p].pad] = "consumed"]
        /\ UNCHANGED <<markDisk, ledger, fileVars, job, header, staged, released>>
    BY <1>11 DEF Mark, Goto
  <2>2. FilesBacked' /\ PlaintextIsAuthentic'
    BY <2>1 DEF Backed, FilesBacked, PlaintextIsAuthentic, Sent
  <2>3. DecryptBacked'
    BY <2>1 DEF Backed, DecryptBacked, Checked, Claimed, Sent, SentSome,
       Typed, TypeOK
  <2>4. RoleOf[job[p].pad] = "receiver" => SentSome(IdOf[job[p].pad])
    BY <2>1 DEF Guarded, MarkerKnown, RoleFor, Backed, DecryptBacked, Typed,
       JobTyped, Checked, Claimed
  <2>5. \A f \in PadFile : mark'[f] = mark[f] \/ f = job[p].pad
    BY <2>1 DEF Typed, TypeOK
  <2>6. UseBacked'
    BY <2>1, <2>4, <2>5 DEF Backed, UseBacked, SentSome
  <2> QED
    BY <2>2, <2>3, <2>6 DEF Backed
<1>12. ASSUME NEW p \in Proc, MarkSync(p) PROVE Backed'
  <2>1. OldJobs
    BY <1>4, <1>12 DEF MarkSync, Goto, Checked, Claimed
  <2>2. OldUse
    BY <1>12 DEF OldUse, MarkSync, PadSynced, Typed, TypeOK
  <2> QED
    BY <1>2, <1>12, <2>1, <2>2, QuietBacked DEF MarkSync
<1>13. ASSUME NEW p \in Proc, EncryptStream(p) PROVE Backed'
  <2>1. OldJobs
    BY <1>13 DEF EncryptStream, OldJobs, Backed, DecryptBacked, Checked, Claimed,
       Typed, TypeOK
  <2> QED
    BY <1>1, <1>2, <1>13, <2>1, QuietBacked DEF EncryptStream
<1>14. ASSUME NEW p \in Proc, DecryptStream(p) PROVE Backed'
  <2> DEFINE c == file[job[p].in]
  <2>1. job[p].in \in Path /\ pc[p] = "stream" /\ job[p].op = "decrypt"
    BY <1>14 DEF DecryptStream, Typed, JobTyped
  <2>2. CASE Authentic(c, header[p])
    <3>1. Sent(header[p], c.msg)
      BY <2>1, <2>2 DEF Authentic, Backed, FilesBacked
    <3>2. /\ pc' = [pc EXCEPT ![p] = "commit"] /\ UNCHANGED <<job, header>>
          /\ staged' = [staged EXCEPT ![p] = c.msg]
      BY <1>14, <2>2 DEF DecryptStream
    <3>3. header[p] = IdOf[job[p].pad]
      BY <2>1 DEF Backed, DecryptBacked, Checked, Claimed
    <3>4. OldJobs
      BY <2>1, <3>1, <3>2, <3>3 DEF OldJobs, Backed, DecryptBacked, Checked,
         Claimed, Typed, TypeOK
    <3> QED
      BY <1>1, <1>2, <1>14, <3>4, QuietBacked DEF DecryptStream
  <2>3. CASE ~Authentic(c, header[p])
    BY <1>1, <1>2, <1>3, <1>14, <2>3, QuietBacked DEF DecryptStream
  <2> QED
    BY <2>2, <2>3
<1>15. ASSUME NEW p \in Proc, Commit(p) PROVE Backed'
  <2>1. CASE NameTaken(job[p].out)
    BY <1>1, <1>2, <1>3, <1>15, <2>1, QuietBacked DEF Commit
  <2>2. CASE ~NameTaken(job[p].out)
    <3> DEFINE new == [by |-> p, pad |-> job[p].pad, dir |-> job[p].dir,
                       use |-> UseOf(p), msg |-> staged[p]]
    <3>1. /\ pc[p] = "commit" /\ pc' = [pc EXCEPT ![p] = "dirsync"]
          /\ released' = released \cup {new}
          /\ file' = [file EXCEPT ![job[p].out] = Output(p)]
          /\ UNCHANGED <<mark, markDisk, ledger, fileDisk, job, header, staged>>
      BY <1>15, <2>2 DEF Commit, Goto
    <3>2. new.use = UseOf(p) /\ new.msg = staged[p]
      OBVIOUS
    <3>3. \/ job[p].op = "encrypt" /\ UseOf(p) = <<IdOf[job[p].pad], "sender">>
             /\ Output(p) = Envelope(IdOf[job[p].pad], staged[p])
          \/ job[p].op = "decrypt" /\ UseOf(p) = <<IdOf[job[p].pad], "receiver">>
             /\ Output(p).kind = "plaintext"
      BY <3>1 DEF UseOf, RoleFor, Output, Plaintext, Typed, JobTyped, Checked, Claimed
    <3>4. \A o \in Path : file'[o] = file[o] \/ file'[o] = Output(p)
      BY <3>1 DEF Typed, TypeOK
    <3> HIDE DEF new
    <3>5. FilesBacked'
      <4> SUFFICES ASSUME NEW o \in Path, NEW c \in {file'[o], fileDisk'[o]},
                          c.kind = "envelope"
                   PROVE  Sent(c.id, c.msg)'
        BY DEF FilesBacked
      <4>1. CASE c \in {file[o], fileDisk[o]}
        BY <3>1, <4>1 DEF Backed, FilesBacked, Sent
      <4>2. CASE c = Output(p)
        <5>1. /\ c = Envelope(IdOf[job[p].pad], staged[p])
              /\ UseOf(p) = <<IdOf[job[p].pad], "sender">>
          BY <3>3, <4>2
        <5>2. c.id = IdOf[job[p].pad] /\ c.msg = staged[p]
          BY <5>1 DEF Envelope
        <5> QED
          BY <3>1, <3>2, <5>1, <5>2 DEF Sent
      <4> QED
        BY <3>1, <3>4, <4>1, <4>2
    <3>6. DecryptBacked'
      BY <3>1 DEF Backed, DecryptBacked, Checked, Claimed, Sent, SentSome,
         Typed, TypeOK
    <3>7. UseBacked'
      BY <3>1 DEF Backed, UseBacked, SentSome
    <3>8. job[p].op = "decrypt" => Sent(IdOf[job[p].pad], staged[p])
      BY <3>1 DEF Backed, DecryptBacked
    <3>9. PlaintextIsAuthentic'
      <4>1. \A r \in released : r.use[2] = "receiver" => Sent(r.use[1], r.msg)
        BY DEF Backed, PlaintextIsAuthentic, Sent
      <4>2. new.use[2] = "receiver" => Sent(new.use[1], new.msg)
        BY <3>2, <3>3, <3>8
      <4>3. \A r \in released' : r.use[2] = "receiver" => Sent(r.use[1], r.msg)
        BY <3>1, <4>1, <4>2
      <4> QED
        BY <3>1, <4>3 DEF PlaintextIsAuthentic, Sent
    <3> QED
      BY <3>5, <3>6, <3>7, <3>9 DEF Backed
  <2> QED
    BY <2>1, <2>2
<1>16. ASSUME NEW p \in Proc, Wipe(p) \/ WipeSync(p) PROVE Backed'
  <2>1. OldJobs
    BY <1>3, <1>4, <1>16 DEF Wipe, WipeSync, Goto, Checked, Claimed
  <2>2. OldUse
    BY <1>16 DEF OldUse, Wipe, WipeSync, PadSynced, Typed, TypeOK
  <2> QED
    BY <1>2, <1>16, <2>1, <2>2, QuietBacked DEF Wipe, WipeSync
<1>17. ASSUME PowerLoss PROVE Backed'
  <2>1. OldJobs
    BY <1>17 DEF OldJobs, PowerLoss, Checked, Claimed
  <2>2. OldFiles
    BY <1>17 DEF OldFiles, PowerLoss
  <2>3. OldUse
    BY <1>17 DEF OldUse, PowerLoss, Guarded, RecordHeld
  <2> QED
    BY <1>17, <2>1, <2>2, <2>3, QuietBacked DEF PowerLoss
<1>18. ASSUME CopyPad PROVE Backed'
  <2>1. OldJobs
    BY <1>18 DEF OldJobs, CopyPad, procVars, Backed, DecryptBacked, Checked, Claimed
  <2>2. OldUse
    BY <1>18 DEF OldUse, CopyPad, Typed, TypeOK
  <2> QED
    BY <1>2, <1>18, <2>1, <2>2, QuietBacked DEF CopyPad
<1>19. ASSUME Disturb \/ UNCHANGED vars PROVE Backed'
  <2>1. OldJobs
    BY <1>19 DEF OldJobs, Disturb, vars, procVars, Backed, DecryptBacked, Checked, Claimed
  <2>2. OldFiles
    <3>1. ASSUME NEW o \in Path, file[o].kind = "none",
                 file' = [file EXCEPT ![o] = Foreign], UNCHANGED fileDisk
          PROVE  OldFiles
      BY <3>1 DEF OldFiles, Foreign, Typed, TypeOK
    <3>2. ASSUME NEW o \in Path, UNCHANGED fileDisk, NEW i \in PadId,
                 file' = [file EXCEPT ![o] = Damaged(i)]
          PROVE  OldFiles
      <4>1. file'[o].kind = "damaged" /\ \A q \in Path \ {o} : file'[q] = file[q]
        BY <3>2 DEF Typed, TypeOK, Content, Damaged
      <4> QED
        BY <3>2, <4>1 DEF OldFiles
    <3>3. CASE UNCHANGED vars
      BY <1>2, <3>3 DEF vars
    <3> QED
      BY <1>19, <3>1, <3>2, <3>3 DEF Disturb
  <2> QED
    BY <1>1, <1>19, <2>1, <2>2, QuietBacked DEF Disturb, vars
<1> QED
  BY <1>5, <1>6, <1>7, <1>8, <1>9, <1>10, <1>11, <1>12, <1>13, <1>14, <1>15,
     <1>16, <1>17, <1>18, <1>19, Zenon DEF Next, Run, Progress, Environment

LEMMA SpecBacked == Spec => [](Typed /\ Guarded /\ Backed)
  BY InitTyped, NextTyped, InitGuarded, NextGuarded, InitBacked, NextBacked,
     PTL DEF Spec

\* "Authenticate before plaintext" (README.md:106): whatever happens to an
\* envelope between the two passes, a published plaintext is one that a sender
\* encrypted under the same identifier.
THEOREM OnlyAuthenticPlaintext == Spec => []PlaintextIsAuthentic
<1>1. Backed => PlaintextIsAuthentic
  BY DEF Backed
<1> QED
  BY SpecBacked, <1>1, PTL

\* "Authentication failure occurs before receiver usage is reserved"
\* (lib.rs:1114): nothing but a real envelope burns a receiver pad.
THEOREM OnlyEnvelopesBurn == Spec => []NoBurnWithoutEnvelope
<1>1. Backed => NoBurnWithoutEnvelope
  BY DEF Backed, UseBacked, SentSome, NoBurnWithoutEnvelope
<1> QED
  BY SpecBacked, <1>1, PTL

-----------------------------------------------------------------------------
(* Answers, and what a step may never do.                                  *)

Plain == {"refused", "used", "exists", "error"}

\* A command has no result before it is done, and one that has published is
\* past the point where an error is reported that says otherwise.
Answered ==
    /\ \A p \in Proc : pc[p] # "done" => result[p] = "none"
    /\ \A r \in released : pc[r.by] \in {"dirsync", "done"} /\ result[r.by] \notin Plain

\* What a step of a command does to results: nothing, or the command returns.
Ends(p) ==
    \/ pc'[p] # "done" /\ result' = result
    \/ pc'[p] = "done" /\ \E r \in Result : /\ result' = [result EXCEPT ![p] = r]
                                            /\ pc[p] = "dirsync" => r \notin Plain

\* A command changes its own program counter only.  It publishes with the step
\* that leads to the synchronisation of the directory, and ends with the next.
LEMMA RunEnds ==
    ASSUME Typed, NEW p \in Proc, Run(p)
    PROVE  /\ Ends(p) /\ pc[p] # "done"
           /\ \E s \in Step : pc' = [pc EXCEPT ![p] = s] /\ (pc[p] = "dirsync" => s = "done")
           /\ \/ released' = released
              \/ /\ pc[p] = "commit" /\ pc'[p] = "dirsync"
                 /\ \E r : r.by = p /\ released' = released \cup {r}
<1> USE DEF Typed, TypeOK, Volatile, Ends, Return, Goto, Step, Result, Plain
<1>1. CASE Begin(p)
  <2>1. /\ \E s \in {"lock", "inspect"} : pc' = [pc EXCEPT ![p] = s]
        /\ pc[p] = "idle" /\ UNCHANGED result /\ UNCHANGED released
    BY <1>1, Zenon DEF Begin, BeginEncrypt, BeginDecrypt, BeginDestroy, BeginInfo, Volatile
  <2> QED
    BY <2>1
<1>2. CASE Lock(p) \/ Check(p) \/ Authenticate(p) \/ Stage(p)
  BY <1>2 DEF Lock, Check, Authenticate, Stage
<1>3. CASE ReserveCreate(p) \/ ReserveSync(p) \/ Mark(p) \/ MarkSync(p)
  BY <1>3 DEF ReserveCreate, ReserveSync, Mark, MarkSync
<1>4. CASE EncryptStream(p) \/ DecryptStream(p)
  BY <1>4 DEF EncryptStream, DecryptStream
<1>5. CASE Commit(p)
  <2>1. CASE NameTaken(job[p].out)
    BY <1>5, <2>1 DEF Commit
  <2>2. CASE ~NameTaken(job[p].out)
    <3> DEFINE new == [by |-> p, pad |-> job[p].pad, dir |-> job[p].dir,
                       use |-> UseOf(p), msg |-> staged[p]]
    <3>1. /\ pc[p] = "commit" /\ Goto(p, "dirsync")
          /\ released' = released \cup {new} /\ new.by = p
      BY <1>5, <2>2 DEF Commit
    <3> HIDE DEF new
    <3> QED
      BY <3>1
  <2> QED
    BY <2>1, <2>2
<1>6. CASE DirSync(p)
  BY <1>6 DEF DirSync, PublishedButNotDurable
<1>7. CASE Wipe(p) \/ WipeSync(p) \/ Inspect(p) \/ Report(p)
  BY <1>7 DEF Wipe, WipeSync, Inspect, Report
<1>8. CASE Fail(p) \/ Kill(p)
  BY <1>8 DEF Fail, Kill
<1> QED
  BY <1>1, <1>2, <1>3, <1>4, <1>5, <1>6, <1>7, <1>8 DEF Run, Progress

LEMMA NextAnswered == Typed /\ Answered /\ [Next]_vars => Answered'
<1> SUFFICES ASSUME Typed, Answered, [Next]_vars PROVE Answered'
  OBVIOUS
<1>1. ASSUME NEW p \in Proc, Run(p) PROVE Answered'
  <2>1. PICK s \in Step : pc' = [pc EXCEPT ![p] = s] /\ (pc[p] = "dirsync" => s = "done")
    BY <1>1, RunEnds
  <2>2. Ends(p) /\ pc[p] # "done"
    BY <1>1, RunEnds
  <2>3. \A q \in Proc : q # p => pc'[q] = pc[q] /\ result'[q] = result[q]
    BY <2>1, <2>2 DEF Ends, Typed, TypeOK
  <2>4. pc'[p] = s
    BY <2>1 DEF Typed, TypeOK
  <2>5. \A q \in Proc : pc'[q] # "done" => result'[q] = "none"
    BY <2>2, <2>3 DEF Ends, Answered
  <2>6. ASSUME NEW r \in released
        PROVE  pc'[r.by] \in {"dirsync", "done"} /\ result'[r.by] \notin Plain
    <3>1. /\ r.by \in Proc /\ pc[r.by] \in {"dirsync", "done"} /\ result[r.by] \notin Plain
      BY DEF Typed, TypeOK, Release, Answered
    <3>2. CASE r.by # p
      BY <2>3, <3>1, <3>2
    <3>3. CASE r.by = p
      BY <2>1, <2>2, <2>4, <3>1, <3>3 DEF Ends, Typed, TypeOK
    <3> QED
      BY <3>2, <3>3
  <2>7. CASE released' = released
    BY <2>5, <2>6, <2>7 DEF Answered
  <2>8. CASE released' # released
    <3>1. PICK r : r.by = p /\ released' = released \cup {r}
      BY <1>1, <2>8, RunEnds
    <3>2. pc[p] = "commit" /\ pc'[p] = "dirsync"
      BY <1>1, <2>8, RunEnds
    <3>3. result'[p] = "none"
      BY <2>5, <3>2
    <3> QED
      BY <2>5, <2>6, <3>1, <3>2, <3>3 DEF Answered, Plain
  <2> QED
    BY <2>7, <2>8
<1>2. ASSUME PowerLoss PROVE Answered'
  BY <1>2 DEF PowerLoss, Answered, Plain, Typed, TypeOK, Release
<1>3. ASSUME CopyPad \/ Disturb \/ UNCHANGED vars PROVE Answered'
  BY <1>3 DEF CopyPad, Disturb, procVars, vars, Answered
<1> QED
  BY <1>1, <1>2, <1>3 DEF Next, Environment

\* PublishedButNotDurable is an answer of its own (lib.rs:205): after any other
\* error the command has published nothing, whatever raced it or failed.
THEOREM ErrorsAreHonest == Spec => []ErrorMeansUnpublished
<1>1. Init => Answered
  BY DEF Init, Answered
<1>2. Answered => ErrorMeansUnpublished
  BY DEF Answered, Plain, ErrorMeansUnpublished
<1>3. Spec => []Typed
  BY InitTyped, NextTyped, PTL DEF Spec
<1> QED
  BY <1>1, <1>2, <1>3, NextAnswered, PTL DEF Spec

\* "Existing output files are never overwritten": persist_noclobber decides when
\* the output gets its name, however long ago the name was looked at.
THEOREM NothingIsOverwritten == Spec => NeverOverwrites
<1> DEFINE Kept == \A o \in Path :
        (\E p \in Proc : Run(p)) /\ file[o].kind # "none" => file'[o] = file[o]
<1>1. ASSUME Typed, NEW p \in Proc, Run(p), NEW o \in Path, file[o].kind # "none"
      PROVE  file'[o] = file[o]
  <2> USE DEF Volatile, fileVars
  <2>1. CASE Commit(p)
    BY <1>1, <2>1 DEF Commit, NameTaken, Typed, TypeOK
  <2>2. CASE Begin(p) \/ (Progress(p) /\ ~Commit(p)) \/ Fail(p) \/ Kill(p)
    BY <2>2, Zenon DEF Begin, BeginEncrypt, BeginDecrypt, BeginDestroy, BeginInfo,
       Progress, Lock, Check, Authenticate, Stage, ReserveCreate, ReserveSync, Mark,
       MarkSync, EncryptStream, DecryptStream, DirSync, Wipe, WipeSync, Inspect,
       Report, Fail, Kill
  <2> QED
    BY <1>1, <2>1, <2>2 DEF Run
<1>2. Typed /\ [Next]_vars => [Kept]_vars
  BY <1>1
<1>3. Spec => []Typed
  BY InitTyped, NextTyped, PTL DEF Spec
<1>4. Spec => [][Kept]_vars
  BY <1>2, <1>3, PTL DEF Spec
<1> QED
  BY <1>4 DEF NeverOverwrites

\* "Deliberately never repaired or rolled back": no step of the tool takes a
\* record out of a ledger, and no power failure one that was synchronised.
THEOREM RecordsStay == Spec => ReservationIsForever
<1> DEFINE Kept == \A d \in Retained :
        /\ ledgerDisk[d] \subseteq ledger'[d]
        /\ (\E p \in Proc : Run(p)) => ledger[d] \subseteq ledger'[d]
<1>1. ASSUME Typed, NEW p \in Proc, Run(p), NEW d \in StateDir
      PROVE  ledger[d] \subseteq ledger'[d]
  <2> USE DEF Volatile, ledgerVars
  <2>1. CASE ReserveCreate(p)
    BY <1>1, <2>1 DEF ReserveCreate, Typed, TypeOK
  <2>2. CASE Begin(p) \/ (Progress(p) /\ ~ReserveCreate(p)) \/ Fail(p) \/ Kill(p)
    <3>1. ledger' = ledger
      BY <2>2, Zenon DEF Begin, BeginEncrypt, BeginDecrypt, BeginDestroy, BeginInfo,
         Progress, Lock, Check, Authenticate, Stage, Commit, ReserveSync, Mark,
         MarkSync, EncryptStream, DecryptStream, DirSync, Wipe, WipeSync, Inspect,
         Report, Fail, Burn, Kill
    <3> QED
      BY <3>1
  <2> QED
    BY <1>1, <2>1, <2>2 DEF Run
<1>2. ASSUME Typed, Guarded, [Next]_vars PROVE Kept
  <2> SUFFICES ASSUME NEW d \in Retained
               PROVE  /\ ledgerDisk[d] \subseteq ledger'[d]
                      /\ (\E p \in Proc : Run(p)) => ledger[d] \subseteq ledger'[d]
    OBVIOUS
  <2>1. d \in StateDir /\ d \in durableDir /\ ledgerDisk[d] \subseteq ledger[d]
    BY <1>2 DEF Guarded, RecordHeld, Retained
  <2>2. CASE \E p \in Proc : Run(p)
    BY <1>1, <1>2, <2>1, <2>2
  <2>3. CASE ~ \E p \in Proc : Run(p)
    <3>1. CASE PowerLoss
      BY <2>1, <2>3, <3>1 DEF PowerLoss
    <3>2. CASE CopyPad \/ Disturb \/ UNCHANGED vars
      BY <2>1, <2>3, <3>2 DEF CopyPad, Disturb, ledgerVars, vars
    <3> QED
      BY <1>2, <2>3, <3>1, <3>2 DEF Next, Environment
  <2> QED
    BY <2>2, <2>3
<1>3. Typed /\ Guarded /\ [Next]_vars => [Kept]_vars
  BY <1>2
<1>4. Spec => [][Kept]_vars
  BY <1>3, SpecGuarded, PTL DEF Spec
<1> QED
  BY <1>4 DEF ReservationIsForever

\* pad info reads the marker under a shared lock and the ledger after it has
\* dropped it: "fresh" is nevertheless never said of a pad that was used.
THEOREM InfoIsHonest == Spec => FreshIsHonest
<1> DEFINE Honest == \A p \in Proc :
        result'[p] = "fresh" /\ result[p] # "fresh" /\ job[p].dir \in Retained =>
            \A r \in released :
                r.dir = job[p].dir => r.use # <<IdOf[job[p].pad], RoleOf[job[p].pad]>>
<1>1. ASSUME Typed, [Next]_vars, NEW p \in Proc, result'[p] = "fresh", result[p] # "fresh"
      PROVE  Report(p) /\ ~IsReservedIn(job[p].pad, job[p].dir)
  <2> USE DEF Typed, TypeOK, Return, Goto
  <2>1. ASSUME NEW q \in Proc, Run(q) PROVE p = q
    <3>1. Ends(q)
      BY <1>1, <2>1, RunEnds
    <3> QED
      BY <1>1, <3>1 DEF Ends
  <2>2. CASE Run(p)
    <3>1. ~ Begin(p)
      BY <1>1, Zenon DEF Begin, BeginEncrypt, BeginDecrypt, BeginDestroy, BeginInfo
    <3>2. ~ (Lock(p) \/ Check(p) \/ Authenticate(p) \/ Stage(p) \/ ReserveCreate(p))
      BY <1>1 DEF Lock, Check, Authenticate, Stage, ReserveCreate
    <3>3. ~ (ReserveSync(p) \/ Mark(p) \/ MarkSync(p) \/ EncryptStream(p) \/ DecryptStream(p))
      BY <1>1 DEF ReserveSync, Mark, MarkSync, EncryptStream, DecryptStream
    <3>4. ~ (Commit(p) \/ DirSync(p) \/ Wipe(p) \/ WipeSync(p) \/ Inspect(p))
      BY <1>1 DEF Commit, DirSync, Wipe, WipeSync, Inspect, PublishedButNotDurable
    <3>5. ~ (Fail(p) \/ Kill(p))
      BY <1>1 DEF Fail, Kill
    <3>6. Report(p)
      BY <2>2, <3>1, <3>2, <3>3, <3>4, <3>5 DEF Run, Progress
    <3> QED
      BY <1>1, <3>6 DEF Report
  <2>3. ~ (Environment \/ UNCHANGED vars)
    BY <1>1 DEF Environment, PowerLoss, CopyPad, Disturb, procVars, vars
  <2> QED
    BY <1>1, <2>1, <2>2, <2>3 DEF Next
<1>2. ASSUME Typed, Guarded, [Next]_vars, NEW p \in Proc, NEW r \in released,
             result'[p] = "fresh", result[p] # "fresh", job[p].dir \in Retained,
             r.dir = job[p].dir
      PROVE  r.use # <<IdOf[job[p].pad], RoleOf[job[p].pad]>>
  <2>1. <<IdOf[job[p].pad], RoleOf[job[p].pad]>> \notin ledger[job[p].dir]
    BY <1>1, <1>2 DEF IsReservedIn
  <2>2. r.use \in ledgerDisk[r.dir] /\ ledgerDisk[r.dir] \subseteq ledger[r.dir]
    BY <1>2 DEF Guarded, Covered, RecordHeld, Retained
  <2> QED
    BY <1>2, <2>1, <2>2
<1>3. Typed /\ Guarded /\ [Next]_vars => [Honest]_vars
  BY <1>2
<1>4. Spec => [][Honest]_vars
  BY <1>3, SpecGuarded, PTL DEF Spec
<1> QED
  BY <1>4 DEF FreshIsHonest

-----------------------------------------------------------------------------
(* Refinement: every step is a step of OtpPromise or changes nothing there.*)

Key(d, u) == [dir |-> d, use |-> u]

LEMMA ReservedMember ==
    \A d \in StateDir, u \in Usage : Key(d, u) \in ReservedKeys <=> u \in ledger[d]
  BY DEF ReservedKeys, Key

\* Publishing one more output adds one to what the promise sees.
PublishedAs(r) == [key |-> Key(r.dir, r.use), msg |-> r.msg]

LEMMA PublishedImage == PublishedOutputs = {PublishedAs(r) : r \in released}
  BY DEF PublishedOutputs, PublishedAs, Key

LEMMA InitPromise == Init => P!PromiseInit
  BY DEF Init, P!PromiseInit, ReservedKeys, PublishedOutputs

LEMMA StutterPromise ==
    ASSUME UNCHANGED <<ledger, released>>
    PROVE  UNCHANGED <<ReservedKeys, PublishedOutputs>>
  BY DEF ReservedKeys, PublishedOutputs

LEMMA ReservePromise ==
    ASSUME Typed, NEW p \in Proc, ReserveCreate(p)
    PROVE  \/ \E k \in P!Key : P!Reserve(k)
           \/ UNCHANGED <<ReservedKeys, PublishedOutputs>>
<1>1. CASE RecordExists(p)
  BY <1>1, StutterPromise DEF ReserveCreate, Volatile, ledgerVars
<1>2. CASE ~RecordExists(p)
  <2> DEFINE d == job[p].dir
             u == UseOf(p)
             k == Key(d, u)
  <2>1. /\ d \in StateDir /\ u \in Usage /\ u \notin ledger[d]
        /\ ledger' = [ledger EXCEPT ![d] = @ \cup {u}] /\ released' = released
    BY <1>2, PadAssumption DEF ReserveCreate, RecordExists, Typed, TypeOK, JobTyped,
       UseOf, Usage, RoleFor, Role, Checked
  <2>2. k \in P!Key /\ k \notin ReservedKeys
    BY <2>1, ReservedMember DEF P!Key, Key
  <2>3. ReservedKeys' = ReservedKeys \cup {k}
    BY <2>1 DEF ReservedKeys, Key, Typed, TypeOK
  <2>4. PublishedOutputs' = PublishedOutputs
    BY <2>1 DEF PublishedOutputs
  <2> QED
    BY <2>2, <2>3, <2>4 DEF P!Reserve
<1> QED
  BY <1>1, <1>2

LEMMA CommitPromise ==
    ASSUME Typed, Guarded, Backed, NEW p \in Proc, Commit(p)
    PROVE  \/ \E k \in P!Key, m \in Message : P!Publish(k, m)
           \/ UNCHANGED <<ReservedKeys, PublishedOutputs>>
<1>1. CASE NameTaken(job[p].out)
  BY <1>1, StutterPromise DEF Commit, Volatile, ledgerVars
<1>2. CASE ~NameTaken(job[p].out)
  <2> DEFINE d == job[p].dir
             u == UseOf(p)
             k == Key(d, u)
             m == staged[p]
             new == [by |-> p, pad |-> job[p].pad, dir |-> d, use |-> u, msg |-> m]
  <2>1. /\ pc[p] = "commit" /\ d \in StateDir /\ m \in Message
        /\ released' = released \cup {new} /\ ledger' = ledger
    BY <1>2 DEF Commit, ledgerVars, Typed, JobTyped, Checked, Claimed
  <2>2. u \in ledger[d] /\ u \in Usage
    BY <2>1, PadAssumption DEF Guarded, RecordHeld, Claimed, Typed, TypeOK
  <2>3. k \in P!Key /\ k \in ReservedKeys
    BY <2>1, <2>2, ReservedMember DEF P!Key, Key
  <2>4. d \in Retained => ~P!Published(k)
    <3>1. d \in Retained => \A r \in released : ~(r.dir = d /\ r.use = u)
      BY <2>1 DEF Guarded, ClaimUnused, Claimed
    <3> QED
      BY <3>1 DEF P!Published, PublishedOutputs, Key
  <2>5. u[2] = "receiver" =>
           \E o \in PublishedOutputs : o.key.use = <<u[1], "sender">> /\ o.msg = m
    <3>1. u[1] = IdOf[job[p].pad] /\ u[2] = RoleFor(job[p].op)
      BY DEF UseOf
    <3>2. u[2] = "receiver" => Sent(u[1], m)
      BY <2>1, <3>1 DEF Backed, DecryptBacked, RoleFor, Typed, JobTyped, Checked, Claimed
    <3>3. \A r \in released : /\ PublishedAs(r).key.use = r.use
                              /\ PublishedAs(r).msg = r.msg
      BY DEF PublishedAs, Key
    <3> QED
      BY <3>2, <3>3, PublishedImage DEF Sent
  <2>6. PublishedOutputs' = PublishedOutputs \cup {[key |-> k, msg |-> m]}
    <3>1. PublishedAs(new) = [key |-> k, msg |-> m]
      BY DEF PublishedAs
    <3>2. PublishedOutputs' = {PublishedAs(r) : r \in released \cup {new}}
      BY <2>1 DEF PublishedOutputs, PublishedAs, Key
    <3> HIDE DEF new, k, m
    <3> QED
      BY <3>1, <3>2, PublishedImage
  <2>7. ReservedKeys' = ReservedKeys
    BY <2>1 DEF ReservedKeys
  <2>8. k.dir = d /\ k.use = u
    BY DEF Key
  <2> QED
    BY <2>1, <2>3, <2>4, <2>5, <2>6, <2>7, <2>8 DEF P!Publish
<1> QED
  BY <1>1, <1>2

LEMMA PowerLossPromise ==
    ASSUME Typed, Guarded, PowerLoss
    PROVE  P!Forget
<1>1. PublishedOutputs' = PublishedOutputs
  BY DEF PowerLoss, PublishedOutputs
<1>2. \A d \in StateDir : ledger'[d] \subseteq ledger[d]
  BY DEF PowerLoss, Guarded, RecordHeld
<1> DEFINE K == ReservedKeys \ ReservedKeys'
<1>3. ReservedKeys' = ReservedKeys \ K
  BY <1>2 DEF ReservedKeys
<1>4. ASSUME NEW k \in K, k.dir \in Retained PROVE ~P!Published(k)
  <2>1. /\ k \in [dir : StateDir, use : Usage] /\ k.use \notin ledger'[k.dir]
    BY DEF ReservedKeys
  <2>2. ledgerDisk[k.dir] \subseteq ledger'[k.dir]
    BY <1>4, <2>1, PowerLossKeeps DEF PowerLoss, Guarded
  <2>3. \A r \in released : r.dir \in Retained => r.use \in ledgerDisk[r.dir]
    BY DEF Guarded, Covered
  <2>4. \A r \in released : ~(r.dir = k.dir /\ r.use = k.use)
    BY <1>4, <2>1, <2>2, <2>3
  <2>5. \A r \in released : /\ PublishedAs(r).key.dir = r.dir
                            /\ PublishedAs(r).key.use = r.use
    BY DEF PublishedAs, Key
  <2> QED
    BY <2>4, <2>5, PublishedImage DEF P!Published
<1> HIDE DEF K
<1>5. K \in SUBSET ReservedKeys
  BY DEF K
<1> QED
  BY <1>1, <1>3, <1>4, <1>5 DEF P!Forget

LEMMA NextPromise ==
    Typed /\ Guarded /\ Backed /\ [Next]_vars =>
        [P!PromiseNext]_<<ReservedKeys, PublishedOutputs>>
<1> SUFFICES ASSUME Typed, Guarded, Backed, [Next]_vars
             PROVE  [P!PromiseNext]_<<ReservedKeys, PublishedOutputs>>
  OBVIOUS
<1>1. ASSUME NEW p \in Proc, ReserveCreate(p)
      PROVE  [P!PromiseNext]_<<ReservedKeys, PublishedOutputs>>
  BY <1>1, ReservePromise DEF P!PromiseNext
<1>2. ASSUME NEW p \in Proc, Commit(p)
      PROVE  [P!PromiseNext]_<<ReservedKeys, PublishedOutputs>>
  BY <1>2, CommitPromise DEF P!PromiseNext
<1>3. CASE PowerLoss
  BY <1>3, PowerLossPromise DEF P!PromiseNext
<1>4. ASSUME NEW p \in Proc, Begin(p) \/ Fail(p) \/ Kill(p)
      PROVE  UNCHANGED <<ledger, released>>
  BY <1>4, Zenon DEF Begin, BeginEncrypt, BeginDecrypt, BeginDestroy, BeginInfo,
     Fail, Burn, Kill, Volatile, ledgerVars
<1>5. ASSUME NEW p \in Proc, Progress(p), ~ReserveCreate(p), ~Commit(p)
      PROVE  UNCHANGED <<ledger, released>>
  BY <1>5, Zenon DEF Progress, Lock, Check, Authenticate, Stage, ReserveSync, Mark,
     MarkSync, EncryptStream, DecryptStream, DirSync, Wipe, WipeSync, Inspect,
     Report, Volatile, ledgerVars
<1>6. CASE CopyPad \/ Disturb \/ UNCHANGED vars
  BY <1>6, StutterPromise, Zenon DEF CopyPad, Disturb, vars, ledgerVars
<1> QED
  BY <1>1, <1>2, <1>3, <1>4, <1>5, <1>6, StutterPromise
     DEF Next, Run, Environment

\* The tool implements OtpPromise: a key is claimed before it is published,
\* published at most once, and forgotten only while unpublished.
THEOREM ImplementsPromise == Spec => KeepsPromise
<1>1. Spec => P!PromiseInit /\ [][P!PromiseNext]_<<ReservedKeys, PublishedOutputs>>
  BY SpecBacked, InitPromise, NextPromise, PTL DEF Spec
<1> QED
  BY <1>1 DEF KeepsPromise, P!Promise
=============================================================================

--------------------------- MODULE OtpPairs_proofs ---------------------------
(* Proofs about OtpPairs, for any number of commands, names and            *)
(* directories and any number of power failures.                           *)
EXTENDS OtpPairs, TLAPS

\* The disk is behind what processes see, never different from it.
DiskBehind == \A o \in Path : disk[o] \in {Free, entry[o]}

Has(p, o, role)  == entry[o] = Pad(p, role)
Keeps(p, o, role) == entry[o] = Pad(p, role) /\ disk[o] = Pad(p, role)

\* What a command has published so far, by its next step.
Stage ==
    \A p \in Proc :
        /\ pc[p] = "sync_receiver" => Has(p, receiver[p], "receiver")
        /\ pc[p] \in {"commit_sender", "sync_sender"} =>
              Keeps(p, receiver[p], "receiver")
        /\ pc[p] = "sync_sender" => Has(p, sender[p], "sender")
        /\ result[p] # "none" => pc[p] = "done"

\* The names a command may have used so far.
Reach(p) ==
    CASE pc[p] \in {"sync_receiver", "commit_sender"} -> {receiver[p]}
      [] pc[p] = "sync_sender" -> {receiver[p], sender[p]}
      [] pc[p] = "done" -> Named(p)
      [] OTHER -> {}

Within == \A p \in Proc, o \in Path : p \in entry[o].by => o \in Reach(p)

IInv == TypeOK /\ DiskBehind /\ Stage /\ Within /\ SenderHasReceiver /\ SuccessIsAPair

LEMMA PadFacts ==
    /\ \A p, r : Pad(p, r) # Free /\ Pad(p, r).by = {p}
    /\ \A p, q, r, t : Pad(p, r) = Pad(q, t) => p = q /\ r = t
    /\ \A p : Pad(p, "sender") # Foreign /\ Pad(p, "receiver") # Foreign
    /\ Free.by = {} /\ Foreign.by = {} /\ Foreign # Free
    /\ Free \in Entry /\ Foreign \in Entry
    /\ \A p \in Proc : Pad(p, "sender") \in Entry /\ Pad(p, "receiver") \in Entry
<1>1. \A p, r : Pad(p, r).by = {p} /\ Pad(p, r).role = r
  BY DEF Pad
<1>2. Free.by = {} /\ Foreign.by = {} /\ Foreign.role = "foreign" /\ Free.role = "none"
  BY DEF Free, Foreign
<1>3. Free \in Entry /\ Foreign \in Entry
      /\ \A p \in Proc : Pad(p, "sender") \in Entry /\ Pad(p, "receiver") \in Entry
  BY DEF Free, Foreign, Pad, Entry
<1>4. \A p : {p} # {}
  OBVIOUS
<1>5. \A p, r : Pad(p, r) # Free
  BY <1>1, <1>2, <1>4
<1>6. \A p, q, r, t : Pad(p, r) = Pad(q, t) => p = q /\ r = t
  <2> SUFFICES ASSUME NEW p, NEW q, NEW r, NEW t, Pad(p, r) = Pad(q, t)
               PROVE  p = q /\ r = t
    OBVIOUS
  <2>1. {p} = {q} /\ r = t
    BY <1>1
  <2> QED
    BY <2>1
<1>7. \A p : Pad(p, "sender") # Foreign /\ Pad(p, "receiver") # Foreign
  BY <1>1, <1>2, <1>4
<1> QED
  BY <1>1, <1>2, <1>3, <1>5, <1>6, <1>7

LEMMA InitIInv == Init => IInv
<1> SUFFICES ASSUME Init PROVE IInv
  OBVIOUS
<1>1. TypeOK
  BY PairsAssumption, PadFacts DEF Init, TypeOK, Step, Result
<1>2. DiskBehind /\ Stage /\ Within /\ SenderHasReceiver /\ SuccessIsAPair
  BY PadFacts DEF Init, DiskBehind, Stage, Within, SenderHasReceiver, SuccessIsAPair
<1> QED
  BY <1>1, <1>2 DEF IInv

\* A step that changes no file: what matters is what it reports.
LEMMA QuietIInv ==
    ASSUME IInv, NEW p \in Proc, UNCHANGED <<entry, disk, sender, receiver, losses>>,
           NEW s \in Step, NEW r \in Result,
           pc' = [pc EXCEPT ![p] = s], result' = [result EXCEPT ![p] = r],
           pc[p] # "done",
           r # "none" => s = "done", r # "ok",
           s = "sync_receiver" => Has(p, receiver[p], "receiver"),
           s = "commit_sender" => Keeps(p, receiver[p], "receiver"),
           s # "sync_sender",
           \A o \in Path : p \in entry[o].by => o \in Reach(p)'
    PROVE  IInv'
<1> USE DEF IInv
<1>1. TypeOK'
  BY DEF TypeOK
<1>2. DiskBehind' /\ SenderHasReceiver'
  BY DEF DiskBehind, SenderHasReceiver
<1>3. Stage'
  BY DEF Stage, TypeOK, Has, Keeps
<1>4. Within'
  <2>1. \A q \in Proc \ {p} : pc'[q] = pc[q] /\ result'[q] = result[q]
    BY DEF TypeOK
  <2>2. \A q \in Proc \ {p} : Reach(q)' = Reach(q)
    BY <2>1 DEF Reach, Named
  <2> QED
    BY <2>2 DEF Within
<1>5. SuccessIsAPair'
  BY DEF SuccessIsAPair, TypeOK
<1> QED
  BY <1>1, <1>2, <1>3, <1>4, <1>5

\* Publishing at a free name: nothing published before is disturbed.
LEMMA PublishIInv ==
    ASSUME IInv, NEW p \in Proc, NEW o \in Path, NEW role \in {"sender", "receiver"},
           NEW s \in {"sync_receiver", "sync_sender"},
           ~Taken(o), Publish(p, o, role),
           UNCHANGED <<disk, sender, receiver, losses, result>>,
           pc' = [pc EXCEPT ![p] = s], pc[p] # "done",
           s = "sync_receiver" => /\ o = receiver[p] /\ role = "receiver"
                                  /\ pc[p] = "commit_receiver",
           s = "sync_sender" => /\ o = sender[p] /\ role = "sender"
                                /\ pc[p] = "commit_sender"
    PROVE  IInv'
<1> USE PairsAssumption, PadFacts DEF IInv, Taken, Publish
<1>0. TypeOK /\ Pad(p, role) \in Entry
  OBVIOUS
<1>1. TypeOK'
  BY <1>0 DEF TypeOK, Step
<1>2. \A q \in Path : entry[q] # Free => entry'[q] = entry[q]
  BY <1>0 DEF TypeOK
<1>3. entry'[o] = Pad(p, role) /\ \A q \in Path \ {o} : entry'[q] = entry[q]
  BY <1>0 DEF TypeOK
<1>4. DiskBehind'
  BY <1>2, <1>3 DEF DiskBehind
<1>5. /\ pc'[p] = s /\ \A q \in Proc \ {p} : pc'[q] = pc[q]
      /\ \A q \in Proc : sender[q] \in Path /\ receiver[q] \in Path
  BY <1>0 DEF TypeOK
<1>6. \A q \in Proc, n \in Path, r \in {"sender", "receiver"} :
         /\ Has(q, n, r) => Has(q, n, r)'
         /\ Keeps(q, n, r) => Keeps(q, n, r)'
  BY <1>2 DEF Has, Keeps
<1>7. Stage'
  <2>1. ASSUME NEW q \in Proc \ {p}
        PROVE  /\ pc'[q] = "sync_receiver" => Has(q, receiver[q], "receiver")'
               /\ pc'[q] \in {"commit_sender", "sync_sender"} =>
                     Keeps(q, receiver[q], "receiver")'
               /\ pc'[q] = "sync_sender" => Has(q, sender[q], "sender")'
               /\ result'[q] # "none" => pc'[q] = "done"
    BY <1>5, <1>6, <2>1 DEF Stage, Has, Keeps
  <2>2. result'[p] = "none"
    BY DEF Stage
  <2>3. Has(p, o, role)'
    BY <1>3 DEF Has
  <2>4. s = "sync_sender" => Keeps(p, receiver[p], "receiver")'
    BY <1>5, <1>6 DEF Stage, Keeps
  <2> QED
    BY <1>5, <2>1, <2>2, <2>3, <2>4 DEF Stage, Has, Keeps
<1>8. Within'
  <2>1. ASSUME NEW q \in Proc \ {p}, NEW n \in Path, q \in entry'[n].by
        PROVE  n \in Reach(q)'
    <3>1. n # o
      BY <1>3, <2>1
    <3>2. Reach(q)' = Reach(q)
      BY <1>5 DEF Reach, Named
    <3> QED
      BY <1>3, <2>1, <3>1, <3>2 DEF Within
  <2>2. ASSUME NEW n \in Path, p \in entry'[n].by
        PROVE  n \in Reach(p)'
    <3>1. o \in Reach(p)' /\ Reach(p) \subseteq Reach(p)'
      BY <1>5 DEF Reach
    <3> QED
      BY <1>3, <2>2, <3>1 DEF Within
  <2> QED
    BY <2>1, <2>2 DEF Within
<1>9. SenderHasReceiver'
  <2> SUFFICES ASSUME NEW q \in Proc, NEW n \in Path, entry'[n] = Pad(q, "sender")
               PROVE  Keeps(q, receiver[q], "receiver")'
    BY DEF SenderHasReceiver, Keeps
  <2>1. CASE entry[n] = Pad(q, "sender")
    <3>1. Keeps(q, receiver[q], "receiver")
      BY <2>1 DEF SenderHasReceiver, Keeps
    <3> QED
      BY <3>1, <1>5, <1>6 DEF Keeps
  <2>2. CASE entry[n] # Pad(q, "sender")
    <3>1. n = o /\ q = p /\ role = "sender"
      BY <1>3, <2>2
    <3>2. Keeps(q, receiver[q], "receiver")
      BY <3>1 DEF Stage
    <3> QED
      BY <3>2, <1>5, <1>6 DEF Keeps
  <2> QED
    BY <2>1, <2>2
<1>10. SuccessIsAPair'
  BY <1>2, <1>5 DEF SuccessIsAPair
<1> QED
  BY <1>1, <1>4, <1>7, <1>8, <1>9, <1>10

\* Synchronising a directory: what was on disk stays, entries do not change.
LEMMA SyncIInv ==
    ASSUME IInv, NEW p \in Proc, NEW o \in Path, NEW s \in Step, NEW r \in Result,
           disk' = DirSynced(o), UNCHANGED <<entry, sender, receiver, losses>>,
           pc' = [pc EXCEPT ![p] = s], result' = [result EXCEPT ![p] = r],
           \/ /\ pc[p] = "sync_receiver" /\ o = receiver[p]
              /\ s = "commit_sender" /\ r = result[p]
           \/ /\ pc[p] = "sync_sender" /\ o = sender[p]
              /\ s = "done" /\ r = "ok"
    PROVE  IInv'
<1> USE PairsAssumption, PadFacts DEF IInv
<1>0. TypeOK
  OBVIOUS
<1>1. /\ \A q \in Path : disk'[q] \in {entry[q], disk[q]}
      /\ disk'[o] = entry[o]
      /\ disk' \in [Path -> Entry]
  BY <1>0 DEF DirSynced, TypeOK
<1>2. TypeOK'
  BY <1>0, <1>1 DEF TypeOK
<1>3. DiskBehind'
  BY <1>1 DEF DiskBehind
<1>4. \A q \in Path : disk[q] = entry[q] => disk'[q] = entry[q]
  BY <1>1
<1>5. /\ pc'[p] = s /\ \A q \in Proc \ {p} : pc'[q] = pc[q]
      /\ result'[p] = r /\ \A q \in Proc \ {p} : result'[q] = result[q]
      /\ \A q \in Proc : sender[q] \in Path /\ receiver[q] \in Path
  BY <1>0 DEF TypeOK
<1>6. SenderHasReceiver'
  BY <1>4, <1>5 DEF SenderHasReceiver
<1>7. Stage'
  BY <1>1, <1>4, <1>5 DEF Stage, Has, Keeps
<1>8. Within'
  <2>1. \A q \in Proc \ {p} : Reach(q)' = Reach(q)
    BY <1>5 DEF Reach, Named
  <2>2. Reach(p) \subseteq Reach(p)'
    BY <1>5 DEF Reach, Named
  <2> QED
    BY <2>1, <2>2 DEF Within
<1>9. SuccessIsAPair'
  BY <1>1, <1>4, <1>5 DEF SuccessIsAPair, Stage, Has, Keeps
<1> QED
  BY <1>2, <1>3, <1>6, <1>7, <1>8, <1>9

LEMMA NextIInv == IInv /\ [Next]_vars => IInv'
<1> SUFFICES ASSUME IInv, [Next]_vars PROVE IInv'
  OBVIOUS
<1> USE PairsAssumption, PadFacts DEF IInv, Args, Goto, Return
<1>0. TypeOK
  OBVIOUS
<1>1. ASSUME NEW p \in Proc, Start(p) \/ New(p) \/ Write(p) \/ Fail(p) \/ Kill(p)
      PROVE  IInv'
  <2>1. /\ UNCHANGED <<entry, disk, sender, receiver, losses>>
        /\ pc[p] # "done" /\ result[p] = "none"
    BY <1>1 DEF Start, New, Write, Fail, Kill, Stage
  <2>2. \E s \in Step, r \in Result :
           /\ pc' = [pc EXCEPT ![p] = s] /\ result' = [result EXCEPT ![p] = r]
           /\ r # "none" => s = "done"
           /\ r # "ok" /\ s \notin {"sync_receiver", "commit_sender", "sync_sender"}
           /\ \A o \in Path : p \in entry[o].by => o \in Reach(p)'
    <3>1. CASE Start(p) \/ Write(p)
      BY <2>1, <3>1 DEF Start, Write, TypeOK, Step, Result, Within, Reach
    <3>2. CASE New(p)
      BY <2>1, <3>2 DEF New, TypeOK, Step, Result, Within, Reach, Named
    <3>3. CASE Fail(p)
      BY <2>1, <3>3 DEF Fail, TypeOK, Step, Result, Within, Reach, Named, PartialPadPair
    <3>4. CASE Kill(p)
      BY <2>1, <3>4 DEF Kill, TypeOK, Step, Result, Within, Reach, Named
    <3> QED
      BY <1>1, <3>1, <3>2, <3>3, <3>4
  <2> QED
    BY <2>1, <2>2, QuietIInv
<1>2. ASSUME NEW p \in Proc, CommitReceiver(p) PROVE IInv'
  <2>0. pc[p] = "commit_receiver" /\ result[p] = "none" /\ receiver[p] \in Path
    BY <1>0, <1>2 DEF CommitReceiver, Stage, TypeOK
  <2>1. CASE Taken(receiver[p])
    <3>1. \A o \in Path : p \notin entry[o].by
      BY <2>0 DEF Within, Reach
    <3>2. entry' = entry /\ disk' = disk
      BY <1>2, <2>1 DEF CommitReceiver
    <3> QED
      BY <1>2, <2>0, <2>1, <3>1, <3>2, QuietIInv DEF CommitReceiver, Step, Result
  <2>2. CASE ~Taken(receiver[p])
    BY <1>2, <2>0, <2>2, PublishIInv DEF CommitReceiver
  <2> QED
    BY <2>1, <2>2
<1>3. ASSUME NEW p \in Proc, SyncReceiver(p) PROVE IInv'
  <2>0. /\ pc[p] = "sync_receiver" /\ result[p] = "none" /\ receiver[p] \in Path
        /\ result = [result EXCEPT ![p] = "none"]
    BY <1>0, <1>3 DEF SyncReceiver, Stage, TypeOK
  <2>1. CASE disk' = DirSynced(receiver[p]) /\ Goto(p, "commit_sender")
    BY <1>3, <2>0, <2>1, SyncIInv DEF SyncReceiver, Step, Result
  <2>2. CASE disk' = disk /\ Return(p, "receiver_not_durable")
    <3>1. \A o \in Path : p \in entry[o].by => o \in Reach(p)'
      BY <1>0, <1>3, <2>0, <2>2 DEF SyncReceiver, Within, Reach, Named, TypeOK
    <3> QED
      BY <1>3, <2>0, <2>2, <3>1, QuietIInv DEF SyncReceiver, Step, Result
  <2> QED
    BY <1>3, <2>1, <2>2 DEF SyncReceiver
<1>4. ASSUME NEW p \in Proc, CommitSender(p) PROVE IInv'
  <2>0. pc[p] = "commit_sender" /\ result[p] = "none" /\ sender[p] \in Path
    BY <1>0, <1>4 DEF CommitSender, Stage, TypeOK
  <2>1. CASE Taken(sender[p])
    <3>1. \A o \in Path : p \in entry[o].by => o \in Reach(p)'
      BY <1>0, <1>4, <2>0, <2>1
         DEF CommitSender, Within, Reach, Named, TypeOK, PartialPadPair
    <3> QED
      BY <1>4, <2>0, <2>1, <3>1, QuietIInv DEF CommitSender, Step, Result, PartialPadPair
  <2>2. CASE ~Taken(sender[p])
    BY <1>4, <2>0, <2>2, PublishIInv DEF CommitSender
  <2> QED
    BY <2>1, <2>2
<1>5. ASSUME NEW p \in Proc, SyncSender(p) PROVE IInv'
  <2>0. pc[p] = "sync_sender" /\ result[p] = "none" /\ sender[p] \in Path
    BY <1>0, <1>5 DEF SyncSender, Stage, TypeOK
  <2>1. CASE disk' = DirSynced(sender[p]) /\ Return(p, "ok")
    BY <1>5, <2>0, <2>1, SyncIInv DEF SyncSender, Step, Result
  <2>2. CASE disk' = disk /\ Return(p, "partial_not_durable")
    <3>1. \A o \in Path : p \in entry[o].by => o \in Reach(p)'
      BY <1>0, <1>5, <2>0, <2>2 DEF SyncSender, Within, Reach, Named, TypeOK
    <3> QED
      BY <1>5, <2>0, <2>2, <3>1, QuietIInv DEF SyncSender, Step, Result
  <2> QED
    BY <1>5, <2>1, <2>2 DEF SyncSender
<1>6. ASSUME PowerLoss PROVE IInv'
  <2>1. TypeOK'
    BY <1>0, <1>6 DEF PowerLoss, TypeOK, Step, Result
  <2>2. \A o \in Path : /\ entry'[o] \in {Free, entry[o]} /\ disk'[o] = entry'[o]
                        /\ disk[o] = entry[o] => entry'[o] = entry[o]
    BY <1>6 DEF PowerLoss, DiskBehind
  <2>3. \A q \in Proc :
           /\ sender'[q] = sender[q] /\ receiver'[q] = receiver[q]
           /\ sender[q] \in Path /\ receiver[q] \in Path
           /\ pc[q] \in {"idle", "done"} => pc'[q] = pc[q] /\ result'[q] = result[q]
           /\ pc[q] \notin {"idle", "done"} => pc'[q] = "done" /\ result'[q] = "killed"
    BY <1>0, <1>6 DEF PowerLoss, TypeOK
  <2>4. DiskBehind'
    BY <2>2 DEF DiskBehind
  <2>5. Stage'
    BY <2>3 DEF Stage
  <2>6. Within'
    <3> SUFFICES ASSUME NEW q \in Proc, NEW o \in Path, q \in entry'[o].by
                 PROVE  o \in Reach(q)'
      BY DEF Within
    <3>1. o \in Reach(q)
      BY <2>2 DEF Within
    <3>2. CASE pc[q] \in {"idle", "done"}
      BY <2>3, <3>1, <3>2 DEF Reach, Named
    <3>3. CASE pc[q] \notin {"idle", "done"}
      BY <2>3, <3>3 DEF Reach, Named
    <3> QED
      BY <3>2, <3>3
  <2>7. SenderHasReceiver'
    BY <2>2, <2>3 DEF SenderHasReceiver
  <2>8. SuccessIsAPair'
    <3> SUFFICES ASSUME NEW q \in Proc, result'[q] = "ok"
                 PROVE  /\ Keeps(q, sender[q], "sender")'
                        /\ Keeps(q, receiver[q], "receiver")'
      BY DEF SuccessIsAPair, Keeps
    <3>1. result[q] = "ok"
      BY <2>3
    <3>2. Keeps(q, sender[q], "sender") /\ Keeps(q, receiver[q], "receiver")
      BY <3>1 DEF SuccessIsAPair, Keeps
    <3> QED
      BY <2>2, <2>3, <3>2 DEF Keeps
  <2> QED
    BY <2>1, <2>4, <2>5, <2>6, <2>7, <2>8
<1>7. ASSUME Intrude PROVE IInv'
  <2> PICK o \in Path : ~Taken(o) /\ entry' = [entry EXCEPT ![o] = Foreign]
    BY <1>7 DEF Intrude
  <2> UNCHANGED <<disk, pc, sender, receiver, result, losses>>
    BY <1>7 DEF Intrude
  <2>1. TypeOK'
    BY <1>0 DEF TypeOK
  <2>2. /\ entry'[o] = Foreign /\ entry[o] = Free
        /\ \A n \in Path \ {o} : entry'[n] = entry[n]
        /\ \A n \in Path : entry[n] # Free => entry'[n] = entry[n]
    BY <1>0 DEF TypeOK, Taken
  <2>3. \A q \in Proc : sender[q] \in Path /\ receiver[q] \in Path
    BY <1>0 DEF TypeOK
  <2>4. DiskBehind'
    BY <2>2 DEF DiskBehind
  <2>5. Stage'
    BY <2>2, <2>3 DEF Stage, Has, Keeps
  <2>6. Within'
    BY <2>2 DEF Within, Reach, Named
  <2>7. SenderHasReceiver' /\ SuccessIsAPair'
    BY <2>2, <2>3 DEF SenderHasReceiver, SuccessIsAPair
  <2> QED
    BY <2>1, <2>4, <2>5, <2>6, <2>7
<1>8. ASSUME UNCHANGED vars PROVE IInv'
  BY <1>8 DEF vars, TypeOK, DiskBehind, Stage, Has, Keeps, Within, Reach, Named,
              SenderHasReceiver, SuccessIsAPair
<1> QED
  BY <1>1, <1>2, <1>3, <1>4, <1>5, <1>6, <1>7, <1>8 DEF Next, Run

LEMMA Inductive == Spec => []IInv
<1> QED
  BY InitIInv, NextIInv, PTL DEF Spec

\* Every variable keeps its type, whatever commands, crashes and other
\* programs do.
THEOREM TypeCorrect == Spec => []TypeOK
<1>1. IInv => TypeOK
  BY DEF IInv
<1> QED
  BY <1>1, Inductive, PTL

\* A sender pad never has a name without its receiver pad on disk.
THEOREM ReceiverFirst == Spec => []SenderHasReceiver
<1>1. IInv => SenderHasReceiver
  BY DEF IInv
<1> QED
  BY <1>1, Inductive, PTL

\* Success is reported only for two pads that are there and on disk.
THEOREM SuccessIsDurable == Spec => []SuccessIsAPair
<1>1. IInv => SuccessIsAPair
  BY DEF IInv
<1> QED
  BY <1>1, Inductive, PTL

\* An error names every pad the failed command has left behind.
THEOREM OrphansAreNamed == Spec => []ErrorNamesOrphans
<1>1. IInv => ErrorNamesOrphans
  <2> SUFFICES ASSUME IInv, NEW p \in Proc, NEW o \in Path, p \in entry[o].by
               PROVE  o \in Named(p)
    BY DEF ErrorNamesOrphans
  <2>1. o \in Reach(p)
    BY DEF IInv, Within
  <2>2. CASE pc[p] = "done"
    BY <2>1, <2>2 DEF Reach
  <2>3. CASE pc[p] # "done"
    <3>1. result[p] = "none"
      BY <2>3 DEF IInv, Stage
    <3> QED
      BY <3>1 DEF Named
  <2> QED
    BY <2>2, <2>3
<1> QED
  BY <1>1, Inductive, PTL
=============================================================================

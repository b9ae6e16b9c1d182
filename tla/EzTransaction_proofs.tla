------------------------- MODULE EzTransaction_proofs -------------------------
(* Proofs about EzTransaction, for any number of commands, texts, steps of  *)
(* other programs and power failures.                                       *)
EXTENDS EzTransaction, FiniteSetTheorems, TLAPS

LEMMA Basics ==
    /\ Orig \in File /\ Other \in File /\ Proc \subseteq File
    /\ Orig \notin Proc /\ Other \notin Proc /\ Orig # Other
    /\ None \notin File /\ None \notin Text /\ None # Mixed
    /\ Empty \notin Text /\ Bad \notin Text /\ Mixed \notin Text
    /\ Empty # Bad /\ Empty # Mixed /\ Bad # Mixed
    /\ \A n \in Name : Out(n) \in Name /\ Out(n) # n
    /\ "file" \in Name /\ "file.ez" \in Name
<1>1. /\ IsFiniteSet({Orig}) /\ Cardinality({Orig}) = 1
      /\ IsFiniteSet({Bad}) /\ Cardinality({Bad}) = 1
      /\ IsFiniteSet({Empty}) /\ Cardinality({Empty}) = 1
  BY FS_Singleton
<1>2. Orig # Other
  <2> SUFFICES ASSUME Orig = Other PROVE FALSE
    OBVIOUS
  <2>1. {Orig, Other} = {Orig}
    OBVIOUS
  <2> QED
    BY <2>1, <1>1, EzAssumption
<1>3. Empty # Bad /\ Empty # Mixed /\ Bad # Mixed
  <2>1. \A x, y : /\ IsFiniteSet({x, y}) /\ Cardinality({x, y}) \in Nat
                  /\ Cardinality({x, y}) <= 2
    <3> TAKE x, y
    <3>1. IsFiniteSet({x}) /\ Cardinality({x}) = 1
      BY FS_Singleton
    <3>2. /\ IsFiniteSet({x} \cup {y})
          /\ Cardinality({x} \cup {y}) = IF y \in {x} THEN Cardinality({x})
                                         ELSE Cardinality({x}) + 1
      BY <3>1, FS_AddElement
    <3>3. {x, y} = {x} \cup {y}
      OBVIOUS
    <3> QED
      BY <3>1, <3>2, <3>3
  <2> SUFFICES ASSUME Empty = Bad \/ Empty = Mixed \/ Bad = Mixed PROVE FALSE
    OBVIOUS
  <2>2. {Empty, Bad, Mixed} = {Empty, Bad} \/ {Empty, Bad, Mixed} = {Empty, Mixed}
    OBVIOUS
  <2>3. Cardinality({Empty, Bad, Mixed}) = 3
    BY EzAssumption
  <2>4. Cardinality({Empty, Bad}) <= 2 /\ Cardinality({Empty, Mixed}) <= 2
    BY <2>1
  <2> QED
    BY <2>2, <2>3, <2>4
<1> QED
  BY <1>2, <1>3, EzAssumption DEF File, Name, Out

LEMMA InitType == Init => TypeOK
<1> SUFFICES ASSUME Init PROVE TypeOK
  OBVIOUS
<1>1. PICK n \in Name, t \in Text : Init!1!(n, t)
  BY DEF Init
<1>2. dir \in [Name -> File \cup {None}] /\ text \in [File -> Text \cup {Empty, Bad, Mixed}]
  BY <1>1, Basics
<1>3. sealed \in [File -> BOOLEAN]
  BY <1>1
<1>4. pc \in [Proc -> Step] /\ result \in [Proc -> Result] /\ in \in [Proc -> Name]
  BY Basics DEF Init, Step, Result
<1>5. meddled \in 0..MaxMeddling /\ losses \in 0..MaxLoss
  BY EzAssumption DEF Init
<1>6. dirDisk = dir /\ flushed \subseteq File /\ extra \in [File -> SUBSET Extra] /\ stamp \subseteq File
  BY Basics DEF Init
<1> QED
  BY <1>2, <1>3, <1>4, <1>5, <1>6 DEF Init, TypeOK

-----------------------------------------------------------------------------
(* Handles, bytes and names.                                               *)

Early == {"idle", "open", "absent", "create", "arm"}
Reading == {"read", "readrest", "sync", "readback", "metadata", "source", "clear"}
Published == {"flush", "delcheck", "mark", "final", "close", "release"}

\* The handles a command has by each step.
Stage(p) ==
    /\ pc[p] \in {"idle", "open"} => src[p] = None /\ srcState[p] = "none"
    /\ pc[p] \in {"final", "close"} => srcState[p] = "pending"
    /\ pc[p] \in {"release", "done"} => srcState[p] \in {"none", "closed"}
    /\ pc[p] \notin {"idle", "open", "final", "close", "release", "done"} =>
          srcState[p] = "open"
    /\ pc[p] \in {"idle", "open", "absent", "create"} => tmp[p] = "none"
    /\ pc[p] \in {"arm", "recheck", "rename"} => tmp[p] = "plain"
    /\ pc[p] \in Reading => tmp[p] = "pending"
    /\ pc[p] \in Published => tmp[p] = "named"
    /\ pc[p] = "done" => tmp[p] \notin {"plain", "pending"}

\* The bytes of its output by each step.
Bytes(p) ==
    /\ pc[p] \in Early \cup {"read"} => text[p] = Empty
    /\ pc[p] \in {"readrest", "sync", "readback", "metadata", "source"} => read[p] # None
    /\ pc[p] \in {"sync", "readback"} => text[p] \in {read[p], Bad}
    /\ pc[p] \notin Early \cup {"read", "readrest", "sync", "readback", "done"} =>
          text[p] = read[p] /\ p \in flushed
    /\ pc[p] \in {"clear", "recheck", "rename"} \cup Published => read[p] \in Text
    /\ pc[p] \notin Early \cup {"read", "done"} => sealed[p] = Encrypts(p)
    /\ pc[p] = "readback" => p \in flushed
    /\ tmp[p] = "left" /\ losses = 0 =>
          text[p] = Empty \/ (p \in flushed /\ text[p] = read[p] /\ read[p] \in Text)

\* Its source: held by it alone, under the name it was given, and what was
\* read of it unless somebody wrote into it after the last look.
Source(p) ==
    /\ src[p] \in Proc => pc[src[p]] = "done"
    /\ HoldsSource(p) =>
          /\ src[p] # None /\ dir[in[p]] = src[p]
          /\ \A q \in Proc : HoldsSource(q) /\ src[q] = src[p] => q = p
    /\ pc[p] \in {"clear", "recheck", "rename", "flush", "delcheck", "mark",
                  "final", "close"} /\ ~late => text[src[p]] = read[p]
    /\ pc[p] \in {"close", "release"} => extra[src[p]] = {}
    /\ pc[p] = "release" => src[p] # None /\ \A n \in Name : dir[n] # src[p]
    /\ pc[p] \in Published => dir[Out(in[p])] = p
    /\ pc[p] \in Published \ {"flush"} => dirDisk[Out(in[p])] = p

Under(n, f) == dir[n] = f \/ dirDisk[n] = f

\* A file with a name is whole or a damaged sealed one, is on disk and has no
\* other name.
Named(f) == \A n \in Name : Under(n, f) =>
    /\ f \in flushed /\ text[f] \in Text \cup {Bad}
    /\ sealed[f] => n = "file.ez"
    /\ text[f] = Bad => sealed[f]
    /\ f \in Proc => tmp[f] = "named"
    /\ \A m \in Name : Under(m, f) => m = n

OtherWhole == Other \in flushed /\ text[Other] \in Text /\ ~sealed[Other]

Shape == /\ \A p \in Proc : Stage(p) /\ Bytes(p) /\ Source(p)
         /\ \A f \in File : Named(f)
         /\ OtherWhole
Jobs == pc' \in [Proc -> Step] /\ result' \in [Proc -> Result]

LEMMA GoType ==
    ASSUME TypeOK, NEW p \in Proc, NEW s \in Step, Goto(p, s)
    PROVE  Jobs
BY DEF TypeOK, Goto, Jobs

LEMMA AnswerType ==
    ASSUME TypeOK, NEW p \in Proc, NEW r \in Result, Answer(p, r)
    PROVE  Jobs
BY DEF TypeOK, Answer, Jobs, Step

LEMMA FailType ==
    ASSUME TypeOK, NEW p \in Proc, NEW r \in Result, Fail(p, r)
    PROVE  TypeOK'
<1>1. Jobs
  BY AnswerType DEF Fail
<1>2. Dropped(p) \subseteq {"none", "plain", "pending", "named", "left", "gone"}
  BY DEF Dropped, TypeOK
<1>3. PICK s \in Dropped(p) : tmp' = [tmp EXCEPT ![p] = s]
  BY DEF Fail
<1> QED
  BY <1>1, <1>2, <1>3 DEF Fail, TypeOK, Jobs, world

\* A command reads what was there to be read.
LEMMA ReadsText ==
    ASSUME TypeOK, Shape, NEW p \in Proc, pc[p] \in {"read", "readrest"}, Authentic(p)
    PROVE  /\ src[p] \in File /\ text[src[p]] \in Text
           /\ dir[in[p]] = src[p] /\ src[p] # p
<1>1. srcState[p] = "open"
  BY DEF Shape, Stage
<1>2. src[p] # None /\ dir[in[p]] = src[p] /\ src[p] \in File
  BY <1>1 DEF Shape, Source, HoldsSource, TypeOK
<1>3. in[p] \in Name /\ text[src[p]] \in Text \cup {Bad}
  BY <1>2 DEF Shape, Named, Under, TypeOK
<1>4. text[src[p]] # Bad
  BY <1>2, <1>3 DEF Shape, Named, Under, Authentic, Encrypts, TypeOK
<1>5. src[p] # p
  BY <1>2 DEF Shape, Source, TypeOK
<1> QED
  BY <1>2, <1>3, <1>4, <1>5

LEMMA TypeStep == TypeOK /\ Shape /\ [Next]_vars => TypeOK'
<1> SUFFICES ASSUME TypeOK, Shape, [Next]_vars PROVE TypeOK'
  OBVIOUS
<1>s. {"idle", "open", "absent", "create", "arm", "read", "readrest", "sync",
         "readback", "metadata", "source", "clear", "recheck", "rename",
         "flush", "delcheck", "mark", "final", "close", "release", "done"} \subseteq Step
  BY DEF Step
<1>r. {"none", "exists", "error", "published_retained", "committed_retained",
         "unconfirmed", "ok", "killed"} \subseteq Result
  BY DEF Result
<1> USE Basics
<1>u. \A f : Unnamed(f) \in [Name -> File \cup {None}]
  BY DEF Unnamed, TypeOK
<1>n. \A p \in Proc : in[p] \in Name
  BY DEF TypeOK
<1>1. ASSUME NEW p \in Proc, Begin(p) PROVE TypeOK'
  <2>1. Jobs
    BY <1>1, <1>s, <1>r, GoType, AnswerType DEF Begin
  <2>2. in' \in [Proc -> Name]
    BY <1>1 DEF Begin, TypeOK
  <2>3. UNCHANGED <<dir, dirDisk, sealed, text, flushed, extra, stamp, late, src,
                    srcState, tmp, read, meddled, losses>>
    BY <1>1 DEF Begin, world
  <2> QED
    BY <2>1, <2>2, <2>3 DEF TypeOK, Jobs
<1>2. ASSUME NEW p \in Proc, OpenSource(p) PROVE TypeOK'
  <2>1. Jobs
    BY <1>2, <1>s, GoType DEF OpenSource
  <2> QED
    BY <1>2, <1>n, <2>1 DEF OpenSource, TypeOK, Jobs, SourceTo
<1>3. ASSUME NEW p \in Proc, CheckAbsent(p) PROVE TypeOK'
  <2>1. CASE Fail(p, "exists")
    BY <2>1, <1>r, FailType
  <2>2. CASE ~Fail(p, "exists")
    <3>1. Jobs
      BY <1>3, <2>2, <1>s, GoType DEF CheckAbsent
    <3> QED
      BY <1>3, <2>2, <3>1 DEF CheckAbsent, TypeOK, Jobs, world
  <2> QED
    BY <2>1, <2>2
<1>4. ASSUME NEW p \in Proc, Create(p) PROVE TypeOK'
  <2>1. Jobs
    BY <1>4, <1>s, GoType DEF Create
  <2> QED
    BY <1>4, <2>1 DEF Create, TypeOK, Jobs, world
<1>5. ASSUME NEW p \in Proc, Arm(p) PROVE TypeOK'
  <2>1. Jobs
    BY <1>5, <1>s, <1>r, GoType, AnswerType DEF Arm
  <2> QED
    BY <1>5, <2>1 DEF Arm, Armed, SourceTo, TypeOK, Jobs, world
<1>6. ASSUME NEW p \in Proc, ReadFirst(p) PROVE TypeOK'
  <2>1. Jobs
    BY <1>6, <1>s, GoType DEF ReadFirst
  <2>2. text[src[p]] \in Text
    BY <1>6, ReadsText DEF ReadFirst
  <2>3. Encrypts(p) \in BOOLEAN
    BY DEF Encrypts
  <2> QED
    BY <1>6, <2>1, <2>2, <2>3 DEF ReadFirst, TypeOK, Jobs
<1>7. ASSUME NEW p \in Proc, ReadRest(p) PROVE TypeOK'
  <2>1. Jobs
    BY <1>7, <1>s, GoType DEF ReadRest
  <2>2. read[p] \in Text \cup {Mixed}
    BY <1>7 DEF ReadRest, Shape, Bytes, TypeOK
  <2> QED
    BY <1>7, <2>1, <2>2 DEF ReadRest, TypeOK, Jobs
<1>8. ASSUME NEW p \in Proc, Sync(p) \/ Metadata(p) PROVE TypeOK'
  <2>1. Jobs
    BY <1>8, <1>s, GoType DEF Sync, Metadata, Flush
  <2> QED
    BY <1>8, <2>1 DEF Sync, Metadata, Flush, TypeOK, Jobs
<1>9. ASSUME NEW p \in Proc, Readback(p) PROVE TypeOK'
  <2>1. Jobs
    BY <1>9, <1>s, GoType DEF Readback
  <2> QED
    BY <1>9, <2>1 DEF Readback, TypeOK, Jobs, world
<1>10. ASSUME NEW p \in Proc, CheckSource(p) \/ Recheck(p) PROVE TypeOK'
  <2>1. CASE IoError(p)
    BY <2>1, <1>r, FailType DEF IoError
  <2>2. CASE ~IoError(p)
    <3>1. Jobs
      BY <1>10, <2>2, <1>s, GoType DEF CheckSource, Recheck
    <3> QED
      BY <1>10, <2>2, <3>1 DEF CheckSource, Recheck, TypeOK, Jobs, world
  <2> QED
    BY <2>1, <2>2
<1>11. ASSUME NEW p \in Proc, ClearDelete(p) PROVE TypeOK'
  <2>1. Jobs
    BY <1>11, <1>s, GoType DEF ClearDelete
  <2> QED
    BY <1>11, <2>1 DEF ClearDelete, TypeOK, Jobs, world
<1>12. ASSUME NEW p \in Proc, StopBeforePublication(p) PROVE TypeOK'
  BY <1>12, <1>r, FailType DEF StopBeforePublication, IoError
<1>13. ASSUME NEW p \in Proc, Rename(p) PROVE TypeOK'
  <2>1. CASE Fail(p, "exists")
    BY <2>1, <1>r, FailType
  <2>2. CASE ~Fail(p, "exists")
    <3>1. Jobs
      BY <1>13, <2>2, <1>s, GoType DEF Rename
    <3> QED
      BY <1>13, <1>n, <2>2, <3>1 DEF Rename, TypeOK, Jobs
  <2> QED
    BY <2>1, <2>2
<1>14. ASSUME NEW p \in Proc, FlushPublished(p) PROVE TypeOK'
  <2>1. Jobs
    BY <1>14, <1>s, <1>r, GoType, AnswerType DEF FlushPublished, NotFlushed
  <2>2. dirDisk' \in [Name -> File \cup {None}]
    BY <1>14, <1>n DEF FlushPublished, TypeOK
  <2>3. srcState' \in [Proc -> {"none", "open", "pending", "closed"}]
    BY <1>14 DEF FlushPublished, NotFlushed, SourceTo, TypeOK
  <2> QED
    BY <1>14, <2>1, <2>2, <2>3 DEF FlushPublished, TypeOK, Jobs
<1>15. ASSUME NEW p \in Proc, DeleteCheck(p) \/ MarkDelete(p) PROVE TypeOK'
  <2>1. Jobs
    BY <1>15, <1>s, <1>r, GoType, AnswerType DEF DeleteCheck, MarkDelete, Retained
  <2> QED
    BY <1>15, <2>1 DEF DeleteCheck, MarkDelete, Retained, SourceTo, TypeOK, Jobs, world
<1>16. ASSUME NEW p \in Proc, FinalCheck(p) PROVE TypeOK'
  <2>1. Jobs
    BY <1>16, <1>s, <1>r, GoType, AnswerType DEF FinalCheck, CancelDelete, Retained
  <2>2. dir' \in [Name -> File \cup {None}]
    BY <1>16, <1>u DEF FinalCheck, CancelDelete, Retained, LosesName, TypeOK, world
  <2> QED
    BY <1>16, <2>1, <2>2 DEF FinalCheck, CancelDelete, Retained, SourceTo, TypeOK, Jobs, world
<1>17. ASSUME NEW p \in Proc, CloseSource(p) PROVE TypeOK'
  <2>1. Jobs
    BY <1>17, <1>s, <1>r, GoType, AnswerType DEF CloseSource
  <2>2. dir' \in [Name -> File \cup {None}]
    BY <1>17, <1>u DEF CloseSource, LosesName, TypeOK
  <2> QED
    BY <1>17, <2>1, <2>2 DEF CloseSource, SourceTo, TypeOK, Jobs
<1>18. ASSUME NEW p \in Proc, Release(p) PROVE TypeOK'
  <2>1. Jobs
    BY <1>18, <1>r, AnswerType DEF Release
  <2> QED
    BY <1>18, <2>1 DEF Release, TypeOK, Jobs, world
<1>19. ASSUME NEW p \in Proc, Kill(p) PROVE TypeOK'
  <2>1. Jobs
    BY <1>19, <1>r, AnswerType DEF Kill
  <2>2. dir' \in [Name -> File \cup {None}]
    BY <1>19, <1>u DEF Kill, TypeOK
  <2> QED
    BY <1>19, <2>1, <2>2 DEF Kill, SourceTo, TypeOK, Jobs
<1>m. Meddle => meddled' \in 0..MaxMeddling
  BY EzAssumption DEF Meddle, TypeOK
<1>20. ASSUME Intrude PROVE TypeOK'
  BY <1>20, <1>m DEF Intrude, TypeOK
<1>21. ASSUME Change PROVE TypeOK'
  <2>1. PICK n \in Name : Change!(n)
    BY <1>21 DEF Change
  <2>2. dir[n] \in File
    BY <2>1 DEF TypeOK
  <2>3. late' \in BOOLEAN
    BY <2>1 DEF TypeOK
  <2> QED
    BY <2>1, <2>2, <2>3, <1>m DEF TypeOK
<1>22. ASSUME Attach PROVE TypeOK'
  BY <1>22, <1>m DEF Attach, TypeOK
<1>23. ASSUME Damage PROVE TypeOK'
  BY <1>23, <1>m DEF Damage, TypeOK
<1>24. ASSUME WriteBack PROVE TypeOK'
  BY <1>24 DEF WriteBack, TypeOK
<1>25. ASSUME PowerLoss PROVE TypeOK'
  <2>1. losses' \in 0..MaxLoss
    BY <1>25, EzAssumption DEF PowerLoss, TypeOK
  <2>2. /\ text' \in [File -> Text \cup {Empty, Bad, Mixed}]
        /\ pc' \in [Proc -> Step] /\ result' \in [Proc -> Result]
        /\ srcState' \in [Proc -> {"none", "open", "pending", "closed"}]
        /\ tmp' \in [Proc -> {"none", "plain", "pending", "named", "left", "gone"}]
    BY <1>25, <1>s, <1>r DEF PowerLoss, TypeOK
  <2> QED
    BY <1>25, <2>1, <2>2 DEF PowerLoss, TypeOK
<1>26. CASE UNCHANGED vars
  BY <1>26 DEF vars, TypeOK
<1> QED
  BY <1>1, <1>2, <1>3, <1>4, <1>5, <1>6, <1>7, <1>8, <1>9, <1>10, <1>11, <1>12,
     <1>13, <1>14, <1>15, <1>16, <1>17, <1>18, <1>19, <1>20, <1>21, <1>22, <1>23,
     <1>24, <1>25, <1>26 DEF Next, StepOf

\* What a step of command p may do: to the names, to what is on disk, to
\* bytes, and to other commands.
Move(p) ==
    \/ dir' = dir
    \/ /\ pc[p] = "rename" /\ pc'[p] = "flush" /\ in'[p] = in[p] /\ tmp'[p] = "named"
       /\ dir[Out(in[p])] = None /\ dir' = [dir EXCEPT ![Out(in[p])] = p]
       /\ UNCHANGED <<sealed, text, flushed>>
    \/ srcState[p] = "pending" /\ dir' = Unnamed(src[p])

MoveOnDisk(p) ==
    \/ dirDisk' = dirDisk
    \/ /\ pc[p] = "flush" /\ dir[Out(in[p])] = p /\ dir' = dir
       /\ dirDisk' = [dirDisk EXCEPT ![Out(in[p])] = p]
       /\ UNCHANGED <<sealed, text, flushed>>

Writes(p) ==
    /\ \A f \in File : f # p => sealed'[f] = sealed[f] /\ text'[f] = text[f]
    /\ tmp[p] = "pending" \/ (UNCHANGED <<sealed, text>>)
    /\ flushed \subseteq flushed' /\ flushed' \subseteq flushed \cup {p}
    /\ UNCHANGED <<extra, late, meddled, losses>>

Apart(p) == \A q \in Proc : q # p =>
    /\ pc'[q] = pc[q] /\ in'[q] = in[q] /\ src'[q] = src[q]
    /\ srcState'[q] = srcState[q] /\ tmp'[q] = tmp[q] /\ read'[q] = read[q]
    /\ result'[q] = result[q]

LEMMA OthersApart ==
    ASSUME TypeOK, NEW p \in Proc, StepOf(p) \/ Kill(p)
    PROVE  Apart(p)
<1>1. CASE Begin(p) \/ OpenSource(p) \/ CheckAbsent(p) \/ Create(p) \/ Arm(p)
  BY <1>1 DEF Begin, OpenSource, CheckAbsent, Create, Arm, Armed, Fail, Goto, Answer,
     SourceTo, TypeOK, Apart
<1>2. CASE ReadFirst(p) \/ ReadRest(p) \/ Sync(p) \/ Readback(p) \/ Metadata(p)
           \/ CheckSource(p) \/ ClearDelete(p) \/ Recheck(p) \/ StopBeforePublication(p)
  BY <1>2 DEF ReadFirst, ReadRest, Sync, Readback, Metadata, Flush, CheckSource,
     ClearDelete, Recheck, StopBeforePublication, IoError, Fail, Goto, Answer, TypeOK, Apart
<1>3. CASE Rename(p) \/ FlushPublished(p) \/ DeleteCheck(p) \/ MarkDelete(p)
  BY <1>3 DEF Rename, FlushPublished, NotFlushed, DeleteCheck, MarkDelete, Retained,
     SourceTo, Fail, Goto, Answer, TypeOK, Apart
<1>4. CASE FinalCheck(p) \/ CloseSource(p) \/ Release(p) \/ Kill(p)
  BY <1>4 DEF FinalCheck, CancelDelete, CloseSource, Release, Kill, Retained,
     SourceTo, Goto, Answer, TypeOK, Apart
<1> QED
  BY <1>1, <1>2, <1>3, <1>4 DEF StepOf

LEMMA Moves ==
    ASSUME TypeOK, Shape, NEW p \in Proc, StepOf(p) \/ Kill(p)
    PROVE  Move(p) /\ MoveOnDisk(p) /\ Writes(p)
<1> USE DEF Move, MoveOnDisk, Writes
<1>0. Stage(p) /\ Source(p) /\ p \in File
  BY Basics DEF Shape
<1>f. ASSUME NEW r, Fail(p, r) PROVE Move(p) /\ MoveOnDisk(p) /\ Writes(p)
  BY <1>f DEF Fail, world
<1>1. CASE Begin(p) \/ OpenSource(p) \/ CheckAbsent(p) \/ Create(p) \/ Arm(p)
  BY <1>1, <1>f DEF Begin, OpenSource, CheckAbsent, Create, Arm, world
<1>2. CASE ReadFirst(p) \/ ReadRest(p)
  BY <1>0, <1>2 DEF ReadFirst, ReadRest, Stage, Reading, TypeOK
<1>3. CASE Sync(p) \/ Readback(p) \/ Metadata(p) \/ CheckSource(p) \/ ClearDelete(p)
           \/ Recheck(p) \/ StopBeforePublication(p)
  BY <1>3, <1>f DEF Sync, Readback, Metadata, Flush, CheckSource, ClearDelete, Recheck,
     StopBeforePublication, IoError, world
<1>4. CASE Rename(p)
  BY <1>4, <1>f DEF Rename, Vacant, Goto, TypeOK
<1>5. CASE FlushPublished(p)
  BY <1>0, <1>5 DEF FlushPublished, Source, Published
<1>6. CASE DeleteCheck(p) \/ MarkDelete(p) \/ Release(p)
  BY <1>6 DEF DeleteCheck, MarkDelete, Retained, Release, world
<1>7. CASE FinalCheck(p) \/ CloseSource(p)
  BY <1>0, <1>7 DEF FinalCheck, CancelDelete, CloseSource, LosesName, Retained, Stage, world
<1>8. CASE Kill(p)
  BY <1>8 DEF Kill
<1> QED
  BY <1>1, <1>2, <1>3, <1>4, <1>5, <1>6, <1>7, <1>8 DEF StepOf

\* A command's own handles and bytes.
LEMMA ActorStage ==
    ASSUME TypeOK, Shape, NEW p \in Proc, StepOf(p) \/ Kill(p)
    PROVE  Stage(p)'
<1> USE DEF Stage, Reading, Published
<1>0. Stage(p)
  BY DEF Shape
<1>t. pc[p] \in Step /\ srcState[p] \in {"none", "open", "pending", "closed"}
  BY DEF TypeOK
<1>f. ASSUME NEW r, Fail(p, r) PROVE Stage(p)'
  <2>1. PICK s \in Dropped(p) : tmp' = [tmp EXCEPT ![p] = s]
    BY <1>f DEF Fail
  <2>2. s \notin {"plain", "pending"}
    BY DEF Dropped
  <2>3. tmp'[p] = s /\ pc'[p] = "done" /\ srcState'[p] \in {"none", "closed"}
    BY <1>f, <2>1 DEF Fail, Answer, TypeOK
  <2> QED
    BY <2>2, <2>3
<1>1. CASE Begin(p) \/ OpenSource(p) \/ Create(p) \/ Arm(p)
  BY <1>0, <1>1 DEF Begin, OpenSource, Create, Arm, Armed, Goto, Answer, SourceTo, TypeOK
<1>2. CASE CheckAbsent(p) \/ Readback(p) \/ CheckSource(p) \/ ClearDelete(p)
  BY <1>0, <1>2, <1>f DEF CheckAbsent, Readback, CheckSource, ClearDelete, IoError, Goto, TypeOK
<1>3. CASE ReadFirst(p) \/ ReadRest(p) \/ Sync(p) \/ Metadata(p)
  BY <1>0, <1>3 DEF ReadFirst, ReadRest, Sync, Metadata, Flush, Goto, TypeOK
<1>4. CASE Recheck(p) \/ StopBeforePublication(p) \/ Rename(p)
  BY <1>0, <1>4, <1>f DEF Recheck, StopBeforePublication, Rename, IoError, Goto, TypeOK
<1>5. CASE FlushPublished(p) \/ DeleteCheck(p) \/ MarkDelete(p) \/ Release(p)
  BY <1>0, <1>5 DEF FlushPublished, NotFlushed, DeleteCheck, MarkDelete, Retained, Release,
     SourceTo, Goto, Answer, TypeOK
<1>6. CASE FinalCheck(p) \/ CloseSource(p)
  BY <1>0, <1>6 DEF FinalCheck, CancelDelete, CloseSource, Retained, SourceTo, Goto, Answer, TypeOK
<1>7. CASE Kill(p)
  <2>1. pc'[p] = "done" /\ srcState'[p] \in {"none", "closed"} /\ tmp'[p] \notin {"plain", "pending"}
    BY <1>7 DEF Kill, Answer, SourceTo, TypeOK
  <2> QED
    BY <2>1
<1> QED
  BY <1>1, <1>2, <1>3, <1>4, <1>5, <1>6, <1>7 DEF StepOf

LEMMA ActorBytes ==
    ASSUME TypeOK, Shape, NEW p \in Proc, StepOf(p) \/ Kill(p)
    PROVE  Bytes(p)'
<1> USE DEF Bytes, Early, Published
<1>0. Stage(p) /\ Bytes(p)
  BY DEF Shape
<1>t. /\ pc[p] \in Step /\ p \in File /\ in[p] \in Name
      /\ Empty # Bad /\ Empty \notin Text /\ Bad \notin Text /\ Mixed \notin Text
      /\ None \notin Text /\ None # Mixed /\ read[p] \in Text \cup {Mixed, None}
  BY Basics, EzAssumption DEF TypeOK
<1>f. ASSUME NEW r, Fail(p, r) PROVE Bytes(p)'
  <2>1. pc'[p] = "done" /\ UNCHANGED <<text, losses, flushed, read>>
    BY <1>f DEF Fail, Answer, TypeOK, world
  <2>2. PICK s \in Dropped(p) : tmp'[p] = s
    BY <1>f DEF Fail, TypeOK
  <2>3. s = "left" => tmp[p] = "plain" \/ tmp[p] = "left"
    BY <2>2 DEF Dropped
  <2>4. tmp[p] = "plain" =>
            text[p] = Empty \/ (p \in flushed /\ text[p] = read[p] /\ read[p] \in Text)
    BY <1>0, <1>t DEF Stage, Reading, Step
  <2> QED
    BY <1>0, <2>1, <2>2, <2>3, <2>4
<1>a. ASSUME UNCHANGED <<sealed, text, flushed, in, tmp, read, losses>>,
             \/ pc[p] \in Early /\ pc'[p] \in Early
             \/ pc[p] \in {"clear", "recheck", "rename"} \cup Published
                /\ pc'[p] \in {"clear", "recheck", "rename", "done"} \cup Published
      PROVE  Bytes(p)'
  BY <1>0, <1>a, <1>t DEF Encrypts
<1>1. CASE Begin(p) \/ OpenSource(p)
  <2>1. text' = text /\ tmp' = tmp /\ losses' = losses /\ pc[p] \in {"idle", "open"}
    BY <1>1 DEF Begin, OpenSource, world
  <2>2. pc'[p] \in {"done", "open", "absent"}
    BY <1>1 DEF Begin, OpenSource, Goto, Answer, TypeOK
  <2> QED
    BY <1>0, <2>1, <2>2
<1>2. CASE CheckAbsent(p) \/ Create(p)
  <2>1. CASE Fail(p, "exists")
    BY <2>1, <1>f
  <2>2. CASE ~Fail(p, "exists")
    <3>1. text' = text /\ losses' = losses /\ pc[p] \in {"absent", "create"} /\ tmp'[p] # "left"
      BY <1>0, <1>2, <2>2 DEF CheckAbsent, Create, world, TypeOK, Stage
    <3>2. pc'[p] \in {"create", "arm"}
      BY <1>2, <2>2 DEF CheckAbsent, Create, Goto, TypeOK
    <3> QED
      BY <1>0, <3>1, <3>2
  <2> QED
    BY <2>1, <2>2
<1>3. CASE Arm(p)
  <2>1. text' = text /\ pc[p] = "arm" /\ pc'[p] \in {"read", "done"}
    BY <1>3 DEF Arm, Goto, Answer, TypeOK, world
  <2>2. text[p] = Empty
    BY <1>0, <2>1
  <2> QED
    BY <2>1, <2>2
<1>4. CASE ReadFirst(p)
  <2>1. /\ pc'[p] = "readrest" /\ tmp' = tmp /\ pc[p] = "read" /\ in' = in
        /\ sealed'[p] = Encrypts(p) /\ read'[p] = text[src[p]]
    BY <1>4, <1>t DEF ReadFirst, Goto, TypeOK
  <2>2. text[src[p]] \in Text
    BY <1>4, ReadsText DEF ReadFirst
  <2> QED
    BY <1>0, <1>t, <2>1, <2>2 DEF Encrypts, Stage, Reading
<1>5. CASE ReadRest(p)
  <2>1. /\ pc'[p] = "sync" /\ tmp' = tmp /\ pc[p] = "readrest" /\ UNCHANGED <<in, sealed>>
        /\ text'[p] = read'[p] /\ read'[p] \in {read[p], Mixed}
    BY <1>5, <1>t DEF ReadRest, Goto, TypeOK
  <2> QED
    BY <1>0, <1>t, <2>1 DEF Encrypts, Stage, Reading
<1>6. CASE Sync(p) \/ Readback(p) \/ Metadata(p)
  <2>1. /\ UNCHANGED <<text, sealed, read, in, tmp, losses>> /\ flushed \subseteq flushed'
        /\ pc[p] \in {"sync", "metadata"} => p \in flushed'
        /\ <<pc[p], pc'[p]>> \in {<<"sync", "readback">>, <<"readback", "metadata">>,
                                  <<"metadata", "source">>}
        /\ pc[p] = "readback" => text[p] # Bad
    BY <1>6 DEF Sync, Metadata, Flush, Readback, ReadsBack, Goto, TypeOK, world
  <2> QED
    BY <1>0, <1>t, <2>1 DEF Encrypts
<1>7. CASE CheckSource(p)
  <2>1. CASE IoError(p)
    BY <2>1, <1>f DEF IoError
  <2>2. CASE ~IoError(p)
    <3>1. /\ UNCHANGED <<text, sealed, read, in, tmp, losses, flushed>>
          /\ pc[p] = "source" /\ pc'[p] = "clear" /\ SourceSame(p)
      BY <1>7, <2>2 DEF CheckSource, Goto, TypeOK, world
    <3>2. srcState[p] = "open" /\ read[p] # None /\ read[p] = text[src[p]]
      BY <1>0, <3>1 DEF Stage, SourceSame
    <3>3. src[p] # None /\ dir[in[p]] = src[p] /\ src[p] \in File
      BY <3>2 DEF Shape, Source, HoldsSource, TypeOK
    <3>4. text[src[p]] \in Text \cup {Bad}
      BY <3>3, <1>t DEF Shape, Named, Under
    <3>5. read[p] \in Text
      BY <3>2, <3>4, <1>t, EzAssumption, Basics
    <3> QED
      BY <1>0, <1>t, <3>1, <3>5 DEF Encrypts
  <2> QED
    BY <2>1, <2>2
<1>8. CASE ClearDelete(p)
  <2>1. /\ UNCHANGED <<text, sealed, read, in, losses, flushed>> /\ tmp'[p] = "plain"
        /\ pc[p] = "clear" /\ pc'[p] = "recheck"
    BY <1>8 DEF ClearDelete, Goto, TypeOK, world
  <2> QED
    BY <1>0, <1>t, <2>1 DEF Encrypts
<1>9. CASE Recheck(p) \/ Rename(p)
  <2>1. CASE \E r : Fail(p, r)
    BY <2>1, <1>f
  <2>2. CASE ~ \E r : Fail(p, r)
    <3>1. /\ UNCHANGED <<text, sealed, read, in, losses, flushed>> /\ tmp'[p] # "left"
          /\ <<pc[p], pc'[p]>> \in {<<"recheck", "rename">>, <<"rename", "flush">>}
      BY <1>0, <1>9, <2>2 DEF Recheck, Rename, IoError, Goto, TypeOK, Stage, world
    <3> QED
      BY <1>0, <1>t, <3>1 DEF Encrypts
  <2> QED
    BY <2>1, <2>2
<1>10. CASE StopBeforePublication(p)
  BY <1>10, <1>f DEF StopBeforePublication, IoError
<1>11. CASE FlushPublished(p) \/ DeleteCheck(p) \/ MarkDelete(p) \/ Release(p)
  <2>1. UNCHANGED <<sealed, text, flushed, in, tmp, read, losses>>
    BY <1>11 DEF FlushPublished, DeleteCheck, MarkDelete, Retained, Release, world
  <2>2. pc[p] \in Published /\ pc'[p] \in Published \cup {"done"}
    BY <1>11 DEF FlushPublished, NotFlushed, DeleteCheck, MarkDelete, Retained, Release, Goto, Answer, TypeOK
  <2> QED
    BY <2>1, <2>2, <1>a
<1>12. CASE FinalCheck(p) \/ CloseSource(p)
  <2>1. UNCHANGED <<sealed, text, flushed, in, tmp, read, losses>>
    BY <1>12 DEF FinalCheck, CancelDelete, CloseSource, Retained, world
  <2>2. pc[p] \in Published /\ pc'[p] \in Published \cup {"done"}
    BY <1>12 DEF FinalCheck, CancelDelete, CloseSource, Retained, Goto, Answer, TypeOK
  <2> QED
    BY <2>1, <2>2, <1>a
<1>13. CASE Kill(p)
  <2>1. pc'[p] = "done" /\ UNCHANGED <<text, losses, flushed, read>>
    BY <1>13 DEF Kill, Answer, TypeOK
  <2>2. tmp'[p] = "left" => tmp[p] = "plain" \/ tmp[p] = "left"
    BY <1>13 DEF Kill, TypeOK
  <2>3. tmp[p] = "plain" =>
            text[p] = Empty \/ (p \in flushed /\ text[p] = read[p] /\ read[p] \in Text)
    BY <1>0, <1>t DEF Stage, Reading, Step
  <2> QED
    BY <1>0, <2>1, <2>2, <2>3
<1> QED
  BY <1>1, <1>2, <1>3, <1>4, <1>5, <1>6, <1>7, <1>8, <1>9, <1>10, <1>11, <1>12, <1>13 DEF StepOf

\* The order of the steps, and what the looks on the way establish.
Follows == {<<"idle", "open">>, <<"open", "absent">>, <<"absent", "create">>,
    <<"create", "arm">>, <<"arm", "read">>, <<"read", "readrest">>,
    <<"readrest", "sync">>, <<"sync", "readback">>, <<"readback", "metadata">>,
    <<"metadata", "source">>, <<"source", "clear">>, <<"clear", "recheck">>,
    <<"recheck", "rename">>, <<"rename", "flush">>, <<"flush", "delcheck">>,
    <<"delcheck", "mark">>, <<"mark", "final">>, <<"final", "close">>,
    <<"close", "release">>}

Looks(p) ==
    /\ pc[p] # "done"
    /\ pc'[p] = "done" \/ <<pc[p], pc'[p]>> \in Follows
    /\ pc[p] \notin {"idle"} => in' = in
    /\ pc[p] \notin {"open"} \/ pc'[p] = "done" => src' = src
    /\ pc[p] \notin {"read", "readrest"} => read' = read
    /\ tmp[p] = "named" => tmp'[p] = "named"
    /\ pc'[p] = "clear" => SourceSame(p)
    /\ pc'[p] = "close" => extra[src[p]] = {}
    /\ pc'[p] = "release" => dir' = Unnamed(src[p])
    /\ dir' = Unnamed(src[p]) => dir' = dir \/ pc'[p] \in {"release", "done"}
    /\ pc'[p] = "flush" => dir' = [dir EXCEPT ![Out(in[p])] = p]
    /\ pc'[p] = "delcheck" => dirDisk' = [dirDisk EXCEPT ![Out(in[p])] = p]

LEMMA Sequence ==
    ASSUME TypeOK, Shape, NEW p \in Proc, StepOf(p) \/ Kill(p)
    PROVE  Looks(p)
<1> USE DEF Looks, Follows
<1>0. Stage(p)
  BY DEF Shape
<1>f. ASSUME NEW r, Fail(p, r), pc[p] # "done" PROVE Looks(p)
  BY <1>f DEF Fail, Answer, Dropped, TypeOK, world
<1>1. CASE Begin(p) \/ OpenSource(p) \/ Create(p) \/ Arm(p)
  BY <1>0, <1>1 DEF Begin, OpenSource, Create, Arm, Armed, Goto, Answer, Stage, TypeOK, world
<1>2. CASE CheckAbsent(p) \/ Readback(p) \/ CheckSource(p) \/ Recheck(p) \/ StopBeforePublication(p)
  BY <1>2, <1>f DEF CheckAbsent, Readback, CheckSource, Recheck, StopBeforePublication,
     IoError, Goto, TypeOK, world
<1>3. CASE ReadFirst(p) \/ ReadRest(p) \/ Sync(p) \/ Metadata(p) \/ ClearDelete(p)
  BY <1>0, <1>3 DEF ReadFirst, ReadRest, Sync, Metadata, Flush, ClearDelete, Goto,
     Stage, Reading, TypeOK, world
<1>4. CASE Rename(p)
  <2>1. CASE Fail(p, "exists")
    BY <1>4, <2>1, <1>f DEF Rename
  <2>2. CASE ~Fail(p, "exists")
    <3>1. /\ dir[Out(in[p])] = None /\ dir' = [dir EXCEPT ![Out(in[p])] = p]
          /\ pc[p] = "rename" /\ pc'[p] = "flush" /\ tmp'[p] = "named"
          /\ UNCHANGED <<in, src, read>>
      BY <1>4, <2>2 DEF Rename, Vacant, Goto, TypeOK
    <3>2. Out(in[p]) \in Name /\ p # None /\ dir'[Out(in[p])] = p
      BY <3>1, Basics DEF TypeOK
    <3>3. dir' # Unnamed(src[p])
      BY <3>1, <3>2 DEF Unnamed
    <3> QED
      BY <3>1, <3>3
  <2> QED
    BY <2>1, <2>2
<1>5. CASE FlushPublished(p) \/ DeleteCheck(p) \/ MarkDelete(p) \/ Release(p)
  BY <1>0, <1>5 DEF FlushPublished, NotFlushed, DeleteCheck, MarkDelete, Retained, Release,
     Goto, Answer, TypeOK, world
<1>6. CASE FinalCheck(p) \/ CloseSource(p)
  BY <1>0, <1>6 DEF FinalCheck, CancelDelete, CloseSource, Retained, LosesName, Deletable,
     Goto, Answer, TypeOK, world
<1>7. CASE Kill(p)
  BY <1>7 DEF Kill, Answer, TypeOK
<1> QED
  BY <1>1, <1>2, <1>3, <1>4, <1>5, <1>6, <1>7 DEF StepOf

\* What the file a command opens is: somebody's that nobody works on.
LEMMA Opened ==
    ASSUME TypeOK, Shape, NEW p \in Proc, OpenSource(p)
    PROVE  /\ src'[p] = dir[in[p]] /\ src'[p] \in File /\ srcState'[p] = "open"
           /\ in'[p] = in[p] /\ pc'[p] = "absent" /\ UNCHANGED dir
           /\ src'[p] \in Proc => src'[p] # p /\ pc[src'[p]] = "done"
           /\ \A q \in Proc : HoldsSource(q) => src[q] # src'[p]
<1> DEFINE f == dir[in[p]]
<1>1. /\ f \in File /\ ~Held(f) /\ in[p] \in Name /\ pc[p] = "open"
      /\ src'[p] = f /\ srcState'[p] = "open" /\ in' = in /\ dir' = dir /\ pc'[p] = "absent"
  BY DEF OpenSource, TypeOK, SourceTo, Goto
<1>2. ASSUME f \in Proc PROVE f # p /\ pc[f] = "done"
  <2>1. tmp[f] = "named"
    BY <1>1, <1>2 DEF Shape, Named, Under
  <2>2. pc[f] \in {"idle", "done"}
    BY <1>1, <1>2, <2>1 DEF Held, HoldsOutput
  <2> QED
    BY <1>1, <1>2, <2>1, <2>2 DEF Shape, Stage
<1> QED
  BY <1>1, <1>2 DEF Held

LEMMA ActorSource ==
    ASSUME TypeOK, Shape, NEW p \in Proc, StepOf(p) \/ Kill(p)
    PROVE  Source(p)'
<1>0. /\ Stage(p) /\ Source(p) /\ Bytes(p) /\ Stage(p)' /\ Move(p) /\ MoveOnDisk(p)
      /\ Writes(p) /\ Apart(p) /\ Looks(p)
  BY ActorStage, Moves, OthersApart, Sequence DEF Shape
<1>d. /\ in[p] \in Name /\ Out(in[p]) \in Name /\ Out(in[p]) # in[p] /\ p \in File
      /\ p # None /\ src[p] \in File \cup {None}
      /\ dir \in [Name -> File \cup {None}] /\ dirDisk \in [Name -> File \cup {None}]
  <2>1. in[p] \in Name
    BY DEF TypeOK
  <2> QED
    BY <2>1, Basics DEF TypeOK
<1>1. CASE OpenSource(p)
  <2>1. \A q \in Proc : HoldsSource(q)' /\ src'[q] = src'[p] => q = p
    <3> SUFFICES ASSUME NEW q \in Proc, HoldsSource(q)', src'[q] = src'[p], q # p PROVE FALSE
      OBVIOUS
    <3>1. HoldsSource(q) /\ src'[q] = src[q]
      BY <1>0 DEF HoldsSource, Apart
    <3>2. src[q] # src'[p]
      BY <1>1, <3>1, Opened
    <3> QED
      BY <3>1, <3>2
  <2>2. src'[p] \in Proc => pc'[src'[p]] = "done"
    BY <1>0, <1>1, Opened DEF Apart
  <2>3. src'[p] # None
    BY <1>1, Opened, Basics
  <2> QED
    BY <1>1, <2>1, <2>2, <2>3, Opened DEF Source, Published
<1>2. CASE pc[p] = "idle"
  <2>1. src'[p] = None /\ srcState'[p] = "none" /\ pc'[p] \in {"open", "done"}
    <3>1. src'[p] = None /\ pc'[p] \in {"open", "done"}
      BY <1>0, <1>2 DEF Looks, Follows, Stage
    <3>2. Begin(p)
      BY <1>2 DEF StepOf, Kill, Begin, OpenSource, CheckAbsent, Create, Arm, ReadFirst,
         ReadRest, Sync, Readback, Metadata, Flush, CheckSource, ClearDelete, Recheck,
         StopBeforePublication, Rename, FlushPublished, DeleteCheck, MarkDelete,
         FinalCheck, CloseSource, Release
    <3> QED
      BY <1>0, <1>2, <3>1, <3>2 DEF Begin, Stage
  <2> QED
    BY <2>1, Basics DEF Source, HoldsSource, Published
<1>3. CASE ~OpenSource(p) /\ pc[p] # "idle"
  <2>0. src' = src /\ in' = in
    BY <1>3, <1>0 DEF Looks, Follows, StepOf, Kill, Begin, CheckAbsent, Create, Arm,
       ReadFirst, ReadRest, Sync, Readback, Metadata, Flush, CheckSource, ClearDelete,
       Recheck, StopBeforePublication, Rename, FlushPublished, DeleteCheck, MarkDelete,
       FinalCheck, CloseSource, Release, IoError, Fail
  <2>1. src[p] \in Proc => src[p] # p /\ pc'[src[p]] = "done"
    BY <1>0 DEF Source, Apart, Looks
  <2>2. ASSUME HoldsSource(p)'
        PROVE  /\ HoldsSource(p) /\ dir'[in[p]] = src[p] /\ src[p] # None
               /\ \A q \in Proc : HoldsSource(q)' /\ src'[q] = src[p] => q = p
    <3>1. pc'[p] \notin {"idle", "open", "release", "done"}
      BY <2>2, <1>0 DEF HoldsSource, Stage
    <3>2. pc[p] \notin {"idle", "open", "release", "done"}
      BY <3>1, <1>0, <1>3 DEF Looks, Follows, StepOf, Kill, Begin, CheckAbsent, Create, Arm,
         ReadFirst, ReadRest, Sync, Readback, Metadata, Flush, CheckSource, ClearDelete,
         Recheck, StopBeforePublication, Rename, FlushPublished, DeleteCheck, MarkDelete,
         FinalCheck, CloseSource, Release, IoError, Fail, Answer, TypeOK
    <3>3. HoldsSource(p)
      BY <3>2, <1>0 DEF Stage, HoldsSource
    <3>4. dir'[in[p]] = dir[in[p]]
      BY <1>0, <1>d, <3>1 DEF Move, Looks
    <3>5. \A q \in Proc : HoldsSource(q)' /\ src'[q] = src[p] => q = p
      BY <1>0, <3>3 DEF Source, Apart, HoldsSource
    <3> QED
      BY <1>0, <3>3, <3>4, <3>5 DEF Source
  <2>3. ASSUME pc'[p] \in {"clear", "recheck", "rename", "flush", "delcheck", "mark",
                           "final", "close"}, ~late'
        PROVE  text'[src[p]] = read'[p]
    <3>1. HoldsSource(p)'
      BY <2>3, <1>0 DEF Stage, HoldsSource
    <3>2. src[p] \in File /\ src[p] # p
      BY <3>1, <2>1, <2>2, <1>d
    <3>3. text'[src[p]] = text[src[p]]
      BY <3>2, <1>0 DEF Writes
    <3>4. read' = read /\ text[src[p]] = read[p]
      BY <2>3, <1>0 DEF Looks, Follows, Source, SourceSame, Writes
    <3> QED
      BY <3>3, <3>4
  <2>4. pc'[p] \in {"close", "release"} => extra'[src[p]] = {}
    BY <1>0 DEF Looks, Follows, Writes, Source
  <2>5. ASSUME pc'[p] = "release" PROVE src[p] # None /\ \A n \in Name : dir'[n] # src[p]
    <3>1. pc[p] = "close" /\ dir' = Unnamed(src[p])
      BY <2>5, <1>0 DEF Looks, Follows
    <3>2. src[p] # None
      BY <3>1, <1>0 DEF Stage, Source, HoldsSource
    <3> QED
      BY <3>1, <3>2 DEF Unnamed
  <2>6. ASSUME pc'[p] \in Published PROVE dir'[Out(in[p])] = p
    <3>1. CASE pc'[p] = "flush"
      BY <3>1, <1>0, <1>d DEF Looks
    <3>2. CASE pc'[p] # "flush"
      <4>1. pc[p] \in Published
        BY <2>6, <3>2, <1>0 DEF Looks, Follows, Published
      <4>2. dir[Out(in[p])] = p
        BY <4>1, <1>0 DEF Source
      <4>3. src[p] # p
        BY <2>1
      <4> QED
        BY <4>1, <4>2, <4>3, <1>0, <1>d DEF Move, Unnamed, Published
    <3> QED
      BY <3>1, <3>2
  <2>7. ASSUME pc'[p] \in Published \ {"flush"} PROVE dirDisk'[Out(in[p])] = p
    BY <2>7, <1>0, <1>d DEF Looks, Follows, Published, MoveOnDisk, Source
  <2> QED
    BY <2>0, <2>1, <2>2, <2>3, <2>4, <2>5, <2>6, <2>7 DEF Source
<1> QED
  BY <1>1, <1>2, <1>3

\* The other commands are left as they are.
LEMMA OthersShape ==
    ASSUME TypeOK, Shape, NEW p \in Proc, StepOf(p) \/ Kill(p), NEW q \in Proc, q # p
    PROVE  Stage(q)' /\ Bytes(q)' /\ Source(q)'
<1>0. /\ Stage(q) /\ Bytes(q) /\ Source(q) /\ Move(p) /\ MoveOnDisk(p) /\ Writes(p)
      /\ Apart(p) /\ Looks(p) /\ Stage(p) /\ Source(p) /\ Source(p)'
  BY ActorSource, Moves, OthersApart, Sequence DEF Shape
<1>1. Stage(q)'
  BY <1>0 DEF Stage, Apart
<1>2. Bytes(q)'
  <2>1. /\ text'[q] = text[q] /\ sealed'[q] = sealed[q] /\ (q \in flushed => q \in flushed')
        /\ losses' = losses
    BY <1>0, Basics DEF Writes
  <2> QED
    BY <1>0, <2>1 DEF Bytes, Apart, Encrypts
<1>d. /\ in[q] \in Name /\ Out(in[q]) \in Name /\ Out(in[p]) \in Name
      /\ q \in File /\ q # None
      /\ dir \in [Name -> File \cup {None}] /\ dirDisk \in [Name -> File \cup {None}]
  <2>1. in[p] \in Name /\ in[q] \in Name
    BY DEF TypeOK
  <2> QED
    BY <2>1, Basics DEF TypeOK
<1>3. src[q] \in Proc => src[q] # p /\ pc'[src[q]] = "done"
  BY <1>0 DEF Source, Apart, Looks
<1>4. ASSUME HoldsSource(q)
      PROVE  /\ src[q] # None /\ dir'[in[q]] = src[q]
             /\ \A r \in Proc : HoldsSource(r)' /\ src'[r] = src[q] => r = q
  <2>1. src[q] # None /\ dir[in[q]] = src[q]
    BY <1>0, <1>4 DEF Source
  <2>2. srcState[p] = "pending" => src[p] # src[q]
    BY <1>0, <1>4 DEF Source, HoldsSource
  <2>3. dir'[in[q]] = src[q]
    BY <2>1, <2>2, <1>0, <1>d DEF Move, Unnamed
  <2>4. \A r \in Proc : HoldsSource(r)' /\ src'[r] = src[q] => r = q
    <3> SUFFICES ASSUME NEW r \in Proc, HoldsSource(r)', src'[r] = src[q], r # q PROVE FALSE
      OBVIOUS
    <3>1. HoldsSource(q)' /\ src'[q] = src[q]
      BY <1>0, <1>4 DEF HoldsSource, Apart
    <3>2. CASE r = p
      BY <3>1, <3>2, <1>0 DEF Source
    <3>3. CASE r # p
      BY <3>3, <1>0, <1>4 DEF HoldsSource, Apart, Source
    <3> QED
      BY <3>2, <3>3
  <2> QED
    BY <2>1, <2>3, <2>4
<1>5. ASSUME pc[q] \in {"clear", "recheck", "rename", "flush", "delcheck", "mark",
                        "final", "close"}, ~late'
      PROVE  text'[src[q]] = read[q]
  <2>1. HoldsSource(q) /\ ~late
    BY <1>5, <1>0 DEF Stage, HoldsSource, Writes
  <2>2. src[q] \in File /\ src[q] # p
    BY <2>1, <1>3, <1>4 DEF TypeOK
  <2> QED
    BY <1>5, <2>1, <2>2, <1>0 DEF Source, Writes
<1>6. pc[q] \in {"close", "release"} => extra'[src[q]] = {}
  BY <1>0 DEF Source, Writes
<1>7. pc[q] = "release" => src[q] # None /\ \A n \in Name : dir'[n] # src[q]
  BY <1>0, <1>3, <1>d DEF Source, Move, Unnamed
<1>8. ASSUME pc[q] \in Published PROVE dir'[Out(in[q])] = q
  <2>1. src[p] # q
    BY <1>0, <1>8 DEF Source, Published
  <2> QED
    BY <1>0, <1>8, <1>d, <2>1 DEF Source, Move, Unnamed
<1>9. ASSUME pc[q] \in Published \ {"flush"} PROVE dirDisk'[Out(in[q])] = q
  <2>1. dir[Out(in[q])] = q /\ dirDisk[Out(in[q])] = q
    BY <1>0, <1>9 DEF Source
  <2> QED
    BY <1>0, <1>d, <2>1 DEF MoveOnDisk
<1>10. /\ pc'[q] = pc[q] /\ src'[q] = src[q] /\ in'[q] = in[q] /\ read'[q] = read[q]
       /\ HoldsSource(q)' = HoldsSource(q)
  BY <1>0 DEF Apart, HoldsSource
<1>11. Source(q)'
  BY <1>3, <1>4, <1>5, <1>6, <1>7, <1>8, <1>9, <1>10 DEF Source
<1> QED
  BY <1>1, <1>2, <1>11

\* Names and what they stand for.
LEMMA ActorNames ==
    ASSUME TypeOK, Shape, NEW p \in Proc, StepOf(p) \/ Kill(p)
    PROVE  OtherWhole' /\ \A f \in File : Named(f)'
<1>0. /\ Stage(p) /\ Bytes(p) /\ Source(p) /\ Move(p) /\ MoveOnDisk(p) /\ Writes(p)
      /\ Apart(p) /\ Looks(p) /\ OtherWhole
  BY Moves, OthersApart, Sequence DEF Shape
<1>1. OtherWhole'
  BY <1>0, Basics DEF OtherWhole, Writes
<1>d. /\ in[p] \in Name /\ Out(in[p]) \in Name /\ p # None
      /\ dir \in [Name -> File \cup {None}] /\ dirDisk \in [Name -> File \cup {None}]
  <2>1. in[p] \in Name
    BY DEF TypeOK
  <2> QED
    BY <2>1, Basics DEF TypeOK
<1>2. ASSUME NEW f \in File PROVE Named(f)'
  <2>0. Named(f)
    BY DEF Shape
  <2>n. \A n \in Name : Under(n, f)' =>
          Under(n, f) \/ (f = p /\ pc[p] = "rename" /\ pc'[p] = "flush" /\ n = Out(in[p]))
    BY <1>0, <1>d, Basics DEF Under, Move, MoveOnDisk, Unnamed
  <2>1. CASE f = p /\ pc[p] = "rename" /\ pc'[p] = "flush"
    <3>1. tmp[p] = "plain" /\ tmp'[p] = "named" /\ UNCHANGED <<sealed, text, flushed>>
      <4>1. tmp[p] = "plain"
        BY <1>0, <2>1 DEF Stage
      <4>2. dir'[Out(in[p])] = p /\ dir' # dir
        <5>1. ~Under(Out(in[p]), p)
          BY <2>0, <2>1, <4>1, <1>d DEF Named
        <5> QED
          BY <2>1, <5>1, <1>0, <1>d DEF Looks, Under
      <4>3. srcState[p] # "pending"
        BY <1>0, <2>1 DEF Stage
      <4> QED
        BY <1>0, <4>1, <4>2, <4>3 DEF Move
    <3>2. \A n \in Name : ~Under(n, p)
      BY <2>0, <2>1, <3>1 DEF Named
    <3>3. /\ p \in flushed /\ text[p] \in Text /\ sealed[p] = (in[p] = "file")
      BY <1>0, <2>1 DEF Bytes, Early, Published, Encrypts
    <3>4. sealed[p] => Out(in[p]) = "file.ez"
      BY <3>3 DEF Out
    <3> QED
      BY <2>n, <2>1, <3>1, <3>2, <3>3, <3>4, Basics DEF Named
  <2>2. CASE ~(f = p /\ pc[p] = "rename" /\ pc'[p] = "flush")
    <3> SUFFICES ASSUME NEW n \in Name, Under(n, f)' PROVE Named(f)!(n)'
      BY DEF Named
    <3>1. Under(n, f) /\ \A m \in Name : Under(m, f)' => Under(m, f)
      BY <2>n, <2>2
    <3>2. f = p => tmp[p] = "named"
      BY <2>0, <3>1 DEF Named
    <3>3. sealed'[f] = sealed[f] /\ text'[f] = text[f] /\ (f \in flushed => f \in flushed')
      BY <1>0, <3>2 DEF Writes
    <3>4. f \in Proc => tmp'[f] = "named"
      BY <1>0, <2>0, <3>1 DEF Named, Looks, Apart
    <3> QED
      BY <2>0, <3>1, <3>3, <3>4 DEF Named
  <2> QED
    BY <2>1, <2>2
<1> QED
  BY <1>1, <1>2

\* Other programs, failing storage and power failures.
LEMMA SurroundingsShape ==
    ASSUME TypeOK, Shape,
           Intrude \/ Change \/ Attach \/ Damage \/ WriteBack \/ PowerLoss \/ UNCHANGED vars
    PROVE  Shape'
<1>0. /\ \A p \in Proc : Stage(p) /\ Bytes(p) /\ Source(p)
      /\ \A f \in File : Named(f)
      /\ OtherWhole
  BY DEF Shape
<1>d. /\ \A p \in Proc : in[p] \in Name /\ Out(in[p]) \in Name /\ p \in File /\ p # None
      /\ dir \in [Name -> File \cup {None}] /\ dirDisk \in [Name -> File \cup {None}]
  <2>1. \A p \in Proc : in[p] \in Name
    BY DEF TypeOK
  <2> QED
    BY <2>1, Basics DEF TypeOK
\* Most of it does not touch the commands.
<1>s. ASSUME UNCHANGED <<pc, src, srcState, tmp>>
      PROVE  \A p \in Proc : Stage(p)' /\ HoldsSource(p)' = HoldsSource(p)
  BY <1>s, <1>0 DEF Stage, HoldsSource
<1>b. ASSUME UNCHANGED <<pc, tmp, text, read, flushed, sealed, in, losses>>
      PROVE  \A p \in Proc : Bytes(p)'
  BY <1>b, <1>0 DEF Bytes, Encrypts
<1>1. CASE Intrude
  <2>1. PICK n \in Name : Intrude!(n)
    BY <1>1 DEF Intrude
  <2>2. /\ UNCHANGED <<dirDisk, sealed, text, flushed, extra, late, pc, in, src, srcState,
                       tmp, read, losses>>
        /\ \/ /\ dir[n] = None /\ dir' = [dir EXCEPT ![n] = Other]
              /\ \A p \in Proc : src[p] # Other
              /\ \A m \in Name : dir[m] # Other /\ dirDisk[m] # Other
           \/ ~Held(dir[n]) /\ dir' = [dir EXCEPT ![n] = None]
    BY <2>1
  <2>3. \A p \in Proc : Stage(p)' /\ Bytes(p)' /\ HoldsSource(p)' = HoldsSource(p)
    BY <2>2, <1>s, <1>b
  <2>4. ASSUME NEW p \in Proc PROVE Source(p)'
    <3>1. HoldsSource(p) => dir'[in[p]] = src[p]
      BY <2>2, <1>0, <1>d DEF Source, Held
    <3>2. pc[p] = "release" => \A m \in Name : dir'[m] # src[p]
      BY <2>2, <1>0, <1>d DEF Source
    <3>3. pc[p] \in Published => dir'[Out(in[p])] = p
      <4>1. pc[p] \in Published => HoldsOutput(p) /\ dir[Out(in[p])] = p
        BY <1>0 DEF Source, Published, Stage, HoldsOutput
      <4> QED
        BY <4>1, <2>2, <1>d DEF Held
    <3> QED
      BY <2>2, <2>3, <1>0, <3>1, <3>2, <3>3 DEF Source
  <2>5. OtherWhole'
    BY <2>2, <1>0 DEF OtherWhole
  <2>6. ASSUME NEW f \in File PROVE Named(f)'
    <3>1. \/ \A m \in Name : Under(m, f)' => Under(m, f)
          \/ f = Other /\ \A m \in Name : ~Under(m, f) /\ (Under(m, f)' => m = n)
      BY <2>2, <1>d, Basics DEF Under
    <3>2. CASE \A m \in Name : Under(m, f)' => Under(m, f)
      BY <2>2, <1>0, <3>2 DEF Named
    <3>3. CASE f = Other /\ \A m \in Name : ~Under(m, f) /\ (Under(m, f)' => m = n)
      BY <2>2, <1>0, <3>3, Basics DEF Named, OtherWhole
    <3> QED
      BY <3>1, <3>2, <3>3
  <2> QED
    BY <2>3, <2>4, <2>5, <2>6 DEF Shape
<1>2. CASE Change
  <2>1. PICK n \in Name : Change!(n)
    BY <1>2 DEF Change
  <2> DEFINE f == dir[n]
  <2>2. /\ f \in File /\ ~(f \in Proc /\ HoldsOutput(f))
        /\ \E t \in (IF sealed[f] THEN {Bad} ELSE Text) : text' = [text EXCEPT ![f] = t]
        /\ late => late'
        /\ \A p \in Proc : /\ src[p] = f /\ HoldsSource(p)
                           /\ pc[p] \notin {"absent", "create", "arm", "read", "readrest",
                                            "sync", "readback", "metadata", "source"}
                           => late'
        /\ UNCHANGED <<dir, dirDisk, sealed, flushed, extra, pc, in, src, srcState,
                       tmp, read, losses>>
    BY <2>1, <1>d
  <2>3. f \in Proc => tmp[f] = "named" /\ pc[f] = "done"
    <3>1. f \in Proc => tmp[f] = "named"
      BY <2>2, <1>0 DEF Named, Under
    <3> QED
      BY <2>2, <3>1, <1>0 DEF HoldsOutput, Stage
  <2>4. \A p \in Proc : Stage(p)' /\ HoldsSource(p)' = HoldsSource(p)
    BY <2>2, <1>s
  <2>5. ASSUME NEW p \in Proc PROVE Bytes(p)'
    <3>1. CASE p = f
      BY <2>2, <2>3, <3>1 DEF Bytes, Early, Published
    <3>2. CASE p # f
      <4>1. text'[p] = text[p]
        BY <2>2, <3>2, <1>d DEF TypeOK
      <4> QED
        BY <2>2, <4>1, <1>0 DEF Bytes, Encrypts
    <3> QED
      BY <3>1, <3>2
  <2>6. ASSUME NEW p \in Proc PROVE Source(p)'
    <3>1. ASSUME pc[p] \in {"clear", "recheck", "rename", "flush", "delcheck", "mark",
                            "final", "close"}, ~late'
          PROVE  text'[src[p]] = read[p]
      <4>1. HoldsSource(p)
        BY <3>1, <1>0 DEF Stage, HoldsSource
      <4>2. src[p] # f
        BY <3>1, <4>1, <2>2
      <4>3. text[src[p]] = read[p]
        BY <3>1, <1>0, <2>2 DEF Source
      <4> QED
        BY <4>2, <4>3, <2>2
    <3> QED
      BY <2>2, <2>4, <3>1, <1>0 DEF Source
  <2>7. OtherWhole'
    <3>1. CASE f = Other
      BY <2>2, <3>1, <1>0 DEF OtherWhole, TypeOK
    <3>2. CASE f # Other
      BY <2>2, <3>2, <1>0 DEF OtherWhole, TypeOK
    <3> QED
      BY <3>1, <3>2
  <2>8. ASSUME NEW g \in File PROVE Named(g)'
    <3>1. CASE g = f
      BY <2>2, <3>1, <1>0, Basics DEF Named, Under, TypeOK
    <3>2. CASE g # f
      <4>1. text'[g] = text[g]
        BY <2>2, <3>2 DEF TypeOK
      <4> QED
        BY <2>2, <4>1, <1>0 DEF Named, Under
    <3> QED
      BY <3>1, <3>2
  <2> QED
    BY <2>4, <2>5, <2>6, <2>7, <2>8 DEF Shape
<1>3. CASE Attach
  <2>1. PICK f \in File, x \in Extra : Attach!(f, x)
    BY <1>3 DEF Attach
  <2>2. /\ UNCHANGED <<dir, dirDisk, sealed, text, flushed, late, pc, in, src, srcState,
                       tmp, read, losses>>
        /\ extra' = [extra EXCEPT ![f] = @ \cup {x}] /\ ~DeletePending(f)
        /\ (\E n \in Name : dir[n] = f) \/ (f \in Proc /\ pc[f] \in {"recheck", "rename"})
    BY <2>1
  <2>3. \A p \in Proc : Stage(p)' /\ Bytes(p)' /\ HoldsSource(p)' = HoldsSource(p)
    BY <2>2, <1>s, <1>b
  <2>4. ASSUME NEW p \in Proc PROVE Source(p)'
    <3>1. pc[p] \in {"close", "release"} => src[p] # f
      BY <2>2, <1>0 DEF Source, Stage, DeletePending
    <3>2. pc[p] \in {"close", "release"} => extra'[src[p]] = {}
      BY <2>2, <3>1, <1>0 DEF Source
    <3> QED
      BY <2>2, <2>3, <3>2, <1>0 DEF Source
  <2>5. OtherWhole' /\ \A g \in File : Named(g)'
    BY <2>2, <1>0 DEF OtherWhole, Named, Under
  <2> QED
    BY <2>3, <2>4, <2>5 DEF Shape
<1>4. CASE Damage
  <2>1. PICK q \in Proc : Damage!(q)
    BY <1>4 DEF Damage
  <2>2. /\ UNCHANGED <<dir, dirDisk, sealed, flushed, extra, late, pc, in, src, srcState,
                       tmp, read, losses>>
        /\ pc[q] \in {"sync", "readback"} /\ text' = [text EXCEPT ![q] = Bad]
    BY <2>1
  <2>3. \A p \in Proc : Stage(p)' /\ HoldsSource(p)' = HoldsSource(p)
    BY <2>2, <1>s
  <2>4. \A p \in Proc : Bytes(p)'
    BY <2>2, <1>0, <1>d DEF Bytes, Encrypts, Early, Published, Stage, Reading, TypeOK
  <2>5. \A p \in Proc : src[p] # q
    BY <2>2, <1>0 DEF Source
  <2>6. \A p \in Proc : Source(p)'
    BY <2>2, <2>3, <2>5, <1>0 DEF Source
  <2>7. \A n \in Name : ~Under(n, q)
    BY <2>2, <1>0, <1>d DEF Named, Stage, Reading
  <2>8. OtherWhole'
    BY <2>2, <1>0, Basics DEF OtherWhole
  <2>9. \A g \in File : Named(g)'
    BY <2>2, <2>7, <1>0 DEF Named, Under
  <2> QED
    BY <2>3, <2>4, <2>6, <2>8, <2>9 DEF Shape
<1>5. CASE WriteBack
  <2>1. PICK n \in Name : WriteBack!(n)
    BY <1>5 DEF WriteBack
  <2>2. /\ UNCHANGED <<dir, sealed, text, flushed, extra, late, pc, in, src, srcState,
                       tmp, read, losses>>
        /\ dirDisk' = [dirDisk EXCEPT ![n] = dir[n]]
    BY <2>1
  <2>3. \A p \in Proc : Stage(p)' /\ Bytes(p)' /\ HoldsSource(p)' = HoldsSource(p)
    BY <2>2, <1>s, <1>b
  <2>4. \A p \in Proc : Source(p)'
    BY <2>2, <2>3, <1>0, <1>d DEF Source
  <2>5. \A f \in File, m \in Name : Under(m, f)' => Under(m, f)
    BY <2>2, <1>d DEF Under
  <2>6. OtherWhole' /\ \A f \in File : Named(f)'
    BY <2>2, <2>5, <1>0 DEF OtherWhole, Named
  <2> QED
    BY <2>3, <2>4, <2>6 DEF Shape
<1>6. CASE PowerLoss
  <2> DEFINE running == {p \in Proc : pc[p] \notin {"idle", "done"}}
  <2>1. /\ UNCHANGED <<dirDisk, sealed, flushed, extra, late, in, src, read>>
        /\ dir' = dirDisk /\ losses' = losses + 1
        /\ text' = [f \in File |-> IF f \in running \ flushed THEN Bad ELSE text[f]]
        /\ pc' = [p \in Proc |-> IF p \in running THEN "done" ELSE pc[p]]
        /\ srcState' = [p \in Proc |-> IF srcState[p] = "none" THEN "none" ELSE "closed"]
        /\ tmp' = [p \in Proc |-> IF tmp[p] \in {"plain", "pending"} THEN "left" ELSE tmp[p]]
    BY <1>6 DEF PowerLoss
  <2>2. \A p \in Proc : pc'[p] = "done" \/ (pc[p] = "idle" /\ pc'[p] = "idle")
    BY <2>1
  <2>3. losses' # 0
    BY <2>1, EzAssumption DEF TypeOK
  <2>4. \A p \in Proc : Stage(p)'
    BY <2>1, <2>2, <1>0 DEF Stage, Reading, Published
  <2>5. \A p \in Proc : Bytes(p)'
    <3> SUFFICES ASSUME NEW p \in Proc PROVE Bytes(p)'
      OBVIOUS
    <3>1. CASE pc'[p] = "done"
      BY <3>1, <2>3 DEF Bytes, Early, Published
    <3>2. CASE pc[p] = "idle" /\ pc'[p] = "idle"
      <4>1. text'[p] = text[p]
        BY <2>1, <3>2, <1>d
      <4> QED
        BY <3>2, <4>1, <2>3, <1>0 DEF Bytes, Early, Published
    <3> QED
      BY <2>2, <3>1, <3>2
  <2>6. \A p \in Proc : Source(p)'
    <3> SUFFICES ASSUME NEW p \in Proc PROVE Source(p)'
      OBVIOUS
    <3>1. src'[p] \in Proc => pc'[src'[p]] = "done"
      BY <2>1, <1>0 DEF Source
    <3>2. ~HoldsSource(p)'
      BY <2>1 DEF HoldsSource
    <3> QED
      BY <2>2, <3>1, <3>2 DEF Source, Published
  <2>7. \A f \in File, m \in Name : Under(m, f)' => Under(m, f)
    BY <2>1 DEF Under
  <2>8. OtherWhole'
    BY <2>1, <1>0, Basics DEF OtherWhole
  <2>9. ASSUME NEW f \in File PROVE Named(f)'
    <3> SUFFICES ASSUME NEW n \in Name, Under(n, f)' PROVE Named(f)!(n)'
      BY DEF Named
    <3>1. Under(n, f)
      BY <2>7
    <3>2. f \in flushed /\ text'[f] = text[f]
      BY <2>1, <3>1, <1>0 DEF Named
    <3>3. f \in Proc => tmp'[f] = "named"
      BY <2>1, <3>1, <1>0 DEF Named
    <3> QED
      BY <2>1, <2>7, <3>1, <3>2, <3>3, <1>0 DEF Named
  <2> QED
    BY <2>4, <2>5, <2>6, <2>8, <2>9 DEF Shape
<1>7. CASE UNCHANGED vars
  BY <1>7, <1>0 DEF vars, Shape, Stage, Bytes, Source, Named, OtherWhole, Under, HoldsSource, Encrypts
<1> QED
  BY <1>1, <1>2, <1>3, <1>4, <1>5, <1>6, <1>7

LEMMA ShapeStep == TypeOK /\ Shape /\ [Next]_vars => Shape'
<1> SUFFICES ASSUME TypeOK, Shape, [Next]_vars PROVE Shape'
  OBVIOUS
<1>1. ASSUME NEW p \in Proc, StepOf(p) \/ Kill(p) PROVE Shape'
  BY <1>1, ActorStage, ActorBytes, ActorSource, OthersShape, ActorNames DEF Shape
<1> QED
  BY <1>1, SurroundingsShape DEF Next

LEMMA InitShape == Init => Shape
<1> SUFFICES ASSUME Init PROVE Shape
  OBVIOUS
<1>1. \A p \in Proc : Stage(p) /\ Source(p)
  BY Basics DEF Init, Stage, Source, Reading, Published, HoldsSource
<1>2. PICK n \in Name, t \in Text : Init!1!(n, t)
  BY DEF Init
<1>3. \A p \in Proc : Bytes(p)
  BY <1>2, Basics DEF Init, Bytes, Early, Published
<1>4. \A f \in File, m \in Name : Under(m, f) => f = Orig /\ m = n
  BY <1>2, Basics DEF Init, Under
<1>5. \A f \in File : Named(f)
  BY <1>2, <1>4, Basics DEF Init, Named
<1>6. OtherWhole
  BY <1>2, Basics DEF Init, OtherWhole
<1> QED
  BY <1>1, <1>3, <1>5, <1>6 DEF Shape

-----------------------------------------------------------------------------
(* The properties.                                                         *)

\* Every variable keeps its type.
THEOREM TypeCorrect == Spec => []TypeOK
BY InitType, TypeStep, InitShape, ShapeStep, PTL DEF Spec

\* Types; a published file is whole; and so is a temporary file that a failure
\* or a kill leaves behind, or it is empty.  That a whole one is left, and what a
\* power failure leaves, is not excluded.
THEOREM FilesAreWhole == Spec => []Inv
<1>1. TypeOK /\ Shape => Inv
  <2> SUFFICES ASSUME TypeOK, Shape PROVE PublishedIsWhole /\ LeftoversAreWhole
    BY DEF Inv
  <2>1. ASSUME NEW p \in Proc, tmp[p] = "named", pc[p] # "done"
        PROVE  p \in flushed /\ text[p] = read[p] /\ read[p] \in Text
    <3>1. pc[p] \in Step
      BY DEF TypeOK
    <3>2. Stage(p) /\ Bytes(p)
      BY DEF Shape
    <3>3. pc[p] \in Published
      BY <2>1, <3>1, <3>2 DEF Stage, Step, Reading, Published
    <3> QED
      BY <3>2, <3>3 DEF Bytes, Early, Published
  <2>2. LeftoversAreWhole
    BY DEF LeftoversAreWhole, Shape, Bytes
  <2> QED
    BY <2>1, <2>2 DEF PublishedIsWhole
<1> QED
  BY <1>1, InitType, TypeStep, InitShape, ShapeStep, PTL DEF Spec

\* No file takes the name of another.
THEOREM NobodyIsReplaced == Spec => NeverReplaced
<1> DEFINE Freed == \A n \in Name : dir[n] # None /\ dir'[n] # dir[n] =>
          dir'[n] = None \/ losses' # losses
<1>1. TypeOK /\ Shape /\ [Next]_vars => [Freed]_vars
  <2> SUFFICES ASSUME TypeOK, Shape, [Next]_vars, NEW n \in Name,
                      dir[n] # None, dir'[n] # dir[n], losses' = losses
               PROVE  dir'[n] = None
    OBVIOUS
  <2>1. CASE \E p \in Proc : StepOf(p) \/ Kill(p)
    <3>1. PICK p \in Proc : Move(p)
      BY <2>1, Moves
    <3> QED
      BY <3>1 DEF Move, Unnamed, TypeOK
  <2>2. CASE Intrude
    BY <2>2 DEF Intrude, TypeOK
  <2>3. CASE Change \/ Attach \/ Damage \/ WriteBack \/ UNCHANGED vars
    BY <2>3 DEF Change, Attach, Damage, WriteBack, vars
  <2>4. CASE PowerLoss
    BY <2>4, EzAssumption DEF PowerLoss, TypeOK
  <2> QED
    BY <2>1, <2>2, <2>3, <2>4 DEF Next
<1> QED
  BY <1>1, InitType, TypeStep, InitShape, ShapeStep, PTL DEF Spec, NeverReplaced

\* The output stands in for the source: whenever a command may take its
\* source's name away, what it has published is on disk and says the same.
LEMMA OutputStandsIn ==
    ASSUME TypeOK, Shape, ~late, NEW p \in Proc, srcState[p] = "pending",
           pc[p] # "done", pc[p] # "release"
    PROVE  /\ src[p] # p /\ dir[Out(in[p])] = p /\ dirDisk[Out(in[p])] = p
           /\ p \in flushed /\ text[p] = text[src[p]] /\ Out(in[p]) \in Name /\ p # None
<1>1. Stage(p) /\ Bytes(p) /\ Source(p) /\ pc[p] \in Step /\ in[p] \in Name
  BY DEF Shape, TypeOK
<1>2. pc[p] \in {"final", "close"}
  BY <1>1 DEF Stage
<1>3. text[src[p]] = read[p] /\ text[p] = read[p] /\ p \in flushed
  BY <1>1, <1>2 DEF Source, Bytes, Early
<1>4. src[p] # p
  BY <1>1, <1>2 DEF Source
<1>5. dir[Out(in[p])] = p /\ dirDisk[Out(in[p])] = p
  BY <1>1, <1>2 DEF Source, Published
<1> QED
  BY <1>1, <1>3, <1>4, <1>5, Basics

\* No text loses its last copy to the tool, a kill or a power failure.
THEOREM NoTextIsLost == Spec => NeverNeither
<1> DEFINE Kept == \A t \in Text : Safe(t) /\ ~Safe(t)' => meddled' # meddled \/ late
<1>1. TypeOK /\ Shape /\ [Next]_vars => [Kept]_vars
  <2> SUFFICES ASSUME TypeOK, Shape, [Next]_vars, NEW t \in Text, Safe(t),
                      meddled' = meddled, ~late
               PROVE  Safe(t)'
    OBVIOUS
  <2>1. PICK n \in Name : LET f == dir[n] IN
            f # None /\ dirDisk[n] = f /\ f \in flushed /\ text[f] = t
    BY DEF Safe
  <2> DEFINE f == dir[n]
  <2>2. f \in File /\ f # None /\ dirDisk[n] = f /\ f \in flushed /\ text[f] = t
    BY <2>1 DEF TypeOK
  <2>3. f \in Proc => tmp[f] = "named"
    BY <2>2 DEF Shape, Named, Under
  <2>4. CASE \E p \in Proc : StepOf(p) \/ Kill(p)
    <3>1. PICK p \in Proc : StepOf(p) \/ Kill(p)
      BY <2>4
    <3>2. Move(p) /\ MoveOnDisk(p) /\ Writes(p) /\ Looks(p)
      BY <3>1, Moves, Sequence
    <3>3. f \in flushed' /\ text'[f] = t
      BY <2>2, <2>3, <3>2 DEF Writes
    <3>4. CASE dir'[n] = f
      <4>1. dirDisk'[n] = f
        BY <2>2, <3>2, <3>4 DEF MoveOnDisk, TypeOK
      <4> QED
        BY <2>2, <3>3, <3>4, <4>1 DEF Safe
    <3>5. CASE dir'[n] # f
      <4>1. srcState[p] = "pending" /\ dir' = Unnamed(src[p]) /\ src[p] = f /\ dir' # dir
        BY <2>2, <3>2, <3>5 DEF Move, Unnamed, TypeOK
      <4>2. pc[p] \notin {"done", "release"}
        BY <4>1, <3>2 DEF Looks, Shape, Stage
      <4> DEFINE m == Out(in[p])
      <4>3. /\ src[p] # p /\ dir[m] = p /\ dirDisk[m] = p /\ p \in flushed
            /\ text[p] = t /\ m \in Name /\ p # None
        BY <2>2, <4>1, <4>2, OutputStandsIn
      <4>4. dir'[m] = p
        BY <4>1, <4>3 DEF Unnamed
      <4>5. dirDisk'[m] = p
        BY <3>2, <4>3 DEF MoveOnDisk, TypeOK
      <4>6. text'[p] = t /\ p \in flushed'
        <5>1. tmp[p] # "pending"
          BY <4>1, <4>2 DEF Shape, Stage, Published
        <5> QED
          BY <3>2, <4>3, <5>1 DEF Writes
      <4> QED
        BY <4>3, <4>4, <4>5, <4>6 DEF Safe
    <3> QED
      BY <3>4, <3>5
  <2>5. CASE Intrude \/ Change \/ Attach \/ Damage
    BY <2>5, EzAssumption DEF Intrude, Change, Attach, Damage, Meddle, TypeOK
  <2>6. CASE WriteBack
    BY <2>2, <2>6 DEF WriteBack, Safe, TypeOK
  <2>7. CASE PowerLoss
    BY <2>2, <2>7 DEF PowerLoss, Safe
  <2>8. CASE UNCHANGED vars
    BY <2>2, <2>8 DEF vars, Safe
  <2> QED
    BY <2>4, <2>5, <2>6, <2>7, <2>8 DEF Next
<1> QED
  BY <1>1, InitType, TypeStep, InitShape, ShapeStep, PTL DEF Spec, NeverNeither

\* What a command answers is true of both names when it answers.
LEMMA Truthful ==
    ASSUME TypeOK, Shape, NEW p \in Proc, StepOf(p) \/ Kill(p), result'[p] # result[p]
    PROVE  SaysTrue(p)' /\ (result'[p] = "ok" => extra'[src'[p]] = {})
<1> USE DEF SaysTrue
<1>0. /\ Stage(p) /\ Source(p) /\ Writes(p) /\ Looks(p)
      /\ \A f \in File : Named(f)
  BY Moves, Sequence DEF Shape
<1>d. /\ in[p] \in Name /\ Out(in[p]) \in Name /\ Out(in[p]) # in[p] /\ p \in File
      /\ p # None /\ result \in [Proc -> Result]
  <2>1. in[p] \in Name /\ result \in [Proc -> Result]
    BY DEF TypeOK
  <2> QED
    BY <2>1, Basics
\* Before publication.
<1>n. ASSUME tmp[p] # "named" PROVE \A n \in Name : dir[n] # p
  BY <1>n, <1>0, <1>d DEF Named, Under
<1>s. ASSUME HoldsSource(p) \/ src[p] = None PROVE src[p] # None => dir[in[p]] = src[p]
  BY <1>s, <1>0 DEF Source
<1>f. ASSUME NEW r \in {"exists", "error"}, Fail(p, r),
             pc[p] \notin Published \cup {"idle", "done"}
      PROVE  SaysTrue(p)' /\ result'[p] # "ok"
  <2>1. UNCHANGED <<dir, in, src>> /\ result'[p] = r
    BY <1>f, <1>d DEF Fail, Answer, world
  <2>2. tmp[p] # "named" /\ (HoldsSource(p) \/ src[p] = None)
    BY <1>f, <1>0 DEF Stage, HoldsSource, Published, Reading, TypeOK, Step
  <2> QED
    BY <2>1, <2>2, <1>n, <1>s
<1>1. CASE Begin(p)
  <2>1. UNCHANGED <<dir, src>> /\ result'[p] = "exists" /\ tmp[p] # "named" /\ src[p] = None
    BY <1>1, <1>0, <1>d DEF Begin, Goto, Answer, Stage, world
  <2> QED
    BY <2>1, <1>n
<1>2. CASE Arm(p)
  <2>1. UNCHANGED <<dir, src, in>> /\ result'[p] = "error" /\ tmp[p] # "named" /\ HoldsSource(p)
    BY <1>2, <1>0, <1>d DEF Arm, Goto, Answer, Stage, HoldsSource, world
  <2> QED
    BY <2>1, <1>n, <1>s
<1>3. CASE CheckAbsent(p) \/ CheckSource(p) \/ Recheck(p) \/ StopBeforePublication(p) \/ Rename(p)
  <2>1. (Fail(p, "exists") \/ Fail(p, "error")) /\ pc[p] \notin Published \cup {"idle", "done"}
    BY <1>3, <1>d DEF CheckAbsent, CheckSource, Recheck, StopBeforePublication, Rename,
       IoError, Goto, Published
  <2> QED
    BY <2>1, <1>f
<1>4. CASE OpenSource(p) \/ Create(p) \/ ReadFirst(p) \/ ReadRest(p) \/ Sync(p)
           \/ Readback(p) \/ Metadata(p) \/ ClearDelete(p)
  BY <1>4 DEF OpenSource, Create, ReadFirst, ReadRest, Sync, Readback, Metadata, Flush,
     ClearDelete, Goto
\* After it.
<1>5. CASE FlushPublished(p)
  <2>1. UNCHANGED <<dir, in, src>> /\ result'[p] = "published_retained" /\ pc[p] = "flush"
    BY <1>5, <1>d DEF FlushPublished, NotFlushed, Goto, Answer
  <2>2. dir[Out(in[p])] = p /\ dir[in[p]] = src[p]
    BY <2>1, <1>0 DEF Stage, Source, HoldsSource, Published
  <2> QED
    BY <2>1, <2>2
<1>r. ASSUME Retained(p), pc[p] \in {"delcheck", "mark", "final"}
      PROVE  SaysTrue(p)' /\ result'[p] # "ok"
  <2>1. UNCHANGED <<dir, dirDisk, in, src>> /\ result'[p] = "committed_retained"
    BY <1>r, <1>d DEF Retained, Answer, world
  <2>2. dir[Out(in[p])] = p /\ dirDisk[Out(in[p])] = p /\ dir[in[p]] = src[p]
    BY <1>r, <1>0 DEF Stage, Source, HoldsSource, Published
  <2> QED
    BY <2>1, <2>2
<1>6. CASE DeleteCheck(p) \/ MarkDelete(p)
  <2>1. Retained(p) /\ pc[p] \in {"delcheck", "mark", "final"}
    BY <1>6 DEF DeleteCheck, MarkDelete, Goto
  <2> QED
    BY <2>1, <1>r
<1>7. CASE FinalCheck(p) \/ CloseSource(p)
  <2>1. CASE Retained(p)
    <3>1. pc[p] = "final" \/ pc[p] = "close"
      BY <1>7 DEF FinalCheck, CloseSource
    <3>2. pc[p] = "final"
      BY <1>7, <2>1, <1>d DEF FinalCheck, CloseSource, Retained, Answer, Goto
    <3> QED
      BY <2>1, <3>2, <1>r
  <2>2. CASE ~Retained(p)
    <3>1. /\ UNCHANGED <<dirDisk, in, src>> /\ result'[p] = "unconfirmed"
          /\ dir' = Unnamed(src[p]) \/ dir' = dir
          /\ pc[p] \in {"final", "close"}
      BY <1>7, <2>2, <1>d DEF FinalCheck, CloseSource, CancelDelete, LosesName, Answer, Goto
    <3>2. dir[Out(in[p])] = p /\ dirDisk[Out(in[p])] = p /\ src[p] # p
      BY <3>1, <1>0 DEF Source, Published
    <3>3. dir'[Out(in[p])] = p
      BY <3>1, <3>2, <1>d DEF Unnamed
    <3> QED
      BY <3>1, <3>2, <3>3
  <2> QED
    BY <2>1, <2>2
<1>8. CASE Release(p)
  <2>1. UNCHANGED <<dir, dirDisk, in, src, extra>> /\ result'[p] = "ok" /\ pc[p] = "release"
    BY <1>8, <1>d DEF Release, Answer, world
  <2> QED
    BY <2>1, <1>0 DEF Source, Published
<1>9. CASE Kill(p)
  <2>1. result'[p] = "killed"
    BY <1>9, <1>d DEF Kill, Answer
  <2> QED
    BY <2>1
<1> QED
  BY <1>1, <1>2, <1>3, <1>4, <1>5, <1>6, <1>7, <1>8, <1>9 DEF StepOf

\* An answer is true of both names, and success cost nothing but what was read.
THEOREM AnswersAreHonest == Spec => AnswersHold
<1> DEFINE Truth == \A p \in Proc : result'[p] # result[p] => SaysTrue(p)'
           Costs == \A p \in Proc : result[p] # "ok" /\ result'[p] = "ok" => extra[src[p]] = {}
<1>1. TypeOK /\ Shape /\ [Next]_vars => [Truth]_vars /\ [Costs]_vars
  <2> SUFFICES ASSUME TypeOK, Shape, [Next]_vars, NEW p \in Proc, result'[p] # result[p]
               PROVE  SaysTrue(p)' /\ (result'[p] = "ok" => extra[src[p]] = {})
    OBVIOUS
  <2>1. CASE \E q \in Proc : StepOf(q) \/ Kill(q)
    <3>1. StepOf(p) \/ Kill(p)
      BY <2>1, OthersApart DEF Apart
    <3>2. SaysTrue(p)' /\ (result'[p] = "ok" => extra'[src'[p]] = {})
      BY <3>1, Truthful
    <3>3. result'[p] = "ok" => src' = src /\ extra' = extra
      <4>1. extra' = extra
        BY <3>1, Moves DEF Writes
      <4>2. result'[p] = "ok" => Release(p)
        BY <3>1 DEF StepOf, Kill, Begin, OpenSource, CheckAbsent, Create, Arm, ReadFirst,
           ReadRest, Sync, Readback, Metadata, Flush, CheckSource, ClearDelete, Recheck,
           StopBeforePublication, Rename, FlushPublished, NotFlushed, DeleteCheck,
           MarkDelete, FinalCheck, CancelDelete, CloseSource, Retained, IoError, Fail,
           Goto, Answer, TypeOK
      <4> QED
        BY <4>1, <4>2 DEF Release
    <3> QED
      BY <3>2, <3>3
  <2>2. CASE Intrude \/ Change \/ Attach \/ Damage \/ WriteBack \/ UNCHANGED vars
    BY <2>2 DEF Intrude, Change, Attach, Damage, WriteBack, vars
  <2>3. CASE PowerLoss
    <3>1. result'[p] = "killed"
      BY <2>3 DEF PowerLoss
    <3> QED
      BY <3>1 DEF SaysTrue
  <2> QED
    BY <2>1, <2>2, <2>3 DEF Next
<1> QED
  BY <1>1, InitType, TypeStep, InitShape, ShapeStep, PTL
     DEF Spec, AnswersHold, AnswersAreTrue, OkLosesNothing

-----------------------------------------------------------------------------
(* Every step is a step of MovePromise or changes nothing there.           *)

LEMMA Becomes ==
    ASSUME NEW p \in Proc, Apart(p), NEW s, Status(p)' = s
    PROVE  M!Become(p, s)
<1>1. \A q \in Proc : q # p => Status(q)' = Status(q)
  BY DEF Apart, Status
<1> QED
  BY <1>1 DEF M!Become

LEMMA Remains ==
    ASSUME NEW p \in Proc, Apart(p), Status(p)' = Status(p)
    PROVE  [q \in Proc |-> Status(q)]' = [q \in Proc |-> Status(q)]
<1>1. \A q \in Proc : Status(q)' = Status(q)
  BY DEF Apart, Status
<1> QED
  BY <1>1

\* What a command has in hand nobody else can open, rename or remove.
LEMMA InHandIsHeld ==
    ASSUME TypeOK, Shape, NEW f, f # None, M!InHand(f)
    PROVE  Held(f)
<1>1. PICK p \in Proc : \/ src[p] = f /\ Status(p) \in {"working", "published", "settled"}
                        \/ p = f /\ Status(p) \in {"published", "settled", "moved"}
  BY DEF M!InHand
<1>2. Stage(p) /\ pc[p] \in Step /\ result[p] \in Result
  BY DEF Shape, TypeOK
<1>3. CASE src[p] = f /\ Status(p) \in {"working", "published", "settled"}
  <2>1. pc[p] \notin {"idle", "open", "release", "done"}
    BY <1>2, <1>3 DEF Status, Stage, Result
  <2>2. HoldsSource(p)
    BY <1>2, <2>1 DEF Stage, HoldsSource
  <2> QED
    BY <1>3, <2>2 DEF Held
<1>4. CASE p = f /\ Status(p) \in {"published", "settled", "moved"}
  <2>1. pc[p] \in Published
    BY <1>2, <1>4 DEF Status, Published, Result
  <2>2. HoldsOutput(p)
    BY <1>2, <2>1 DEF Stage, HoldsOutput, Published
  <2> QED
    BY <1>4, <2>2 DEF Held
<1> QED
  BY <1>1, <1>3, <1>4

\* A command answers, or is killed, and leaves the names alone.
LEMMA AnswerPromise ==
    ASSUME TypeOK, Shape, NEW p \in Proc, StepOf(p) \/ Kill(p), pc'[p] = "done",
           pc[p] # "idle", UNCHANGED <<dir, dirDisk>>,
           \/ result'[p] \in {"exists", "error"} /\ Status(p) = "working"
           \/ result'[p] = "published_retained" /\ Status(p) = "published"
           \/ result'[p] \in {"committed_retained", "unconfirmed"} /\ Status(p) = "settled"
           \/ result'[p] = "ok" /\ Status(p) = "moved"
           \/ result'[p] = "killed"
    PROVE  M!Answer(p)
<1>0. /\ Stage(p) /\ Source(p) /\ Writes(p) /\ Looks(p) /\ Apart(p) /\ Apart(p)
      /\ \A f \in File : Named(f)
  BY Moves, Sequence, OthersApart DEF Shape
<1>d. /\ in[p] \in Name /\ Out(in[p]) \in Name /\ p \in File /\ pc[p] \in Step /\ result[p] \in Result
  BY Basics DEF TypeOK
<1>1. /\ M!To(p) = Out(in[p]) /\ (M!Here(p) <=> dir[in[p]] = src[p])
      /\ M!There(p) <=> dir[Out(in[p])] = p /\ dirDisk[Out(in[p])] = p
  BY <1>d DEF M!To, M!Here, M!There
<1>2. UNCHANGED <<dir, dirDisk, in, src>> /\ meddled' + losses' = meddled + losses
  <2>1. pc[p] = "open" => src' = src
    BY <1>0 DEF Looks
  <2> QED
    BY <1>0, <2>1 DEF Looks, Writes
<1>3. Status(p)' = IF result'[p] \in {"exists", "error"} THEN "failed" ELSE result'[p]
  BY DEF Status
<1>4. CASE result'[p] \in {"exists", "error"} /\ Status(p) = "working"
  <2>1. pc[p] \notin Published \cup {"idle", "done"}
    BY <1>0, <1>4 DEF Looks, Status, Published
  <2>2. tmp[p] # "named" /\ (HoldsSource(p) \/ src[p] = None)
    BY <2>1, <1>0, <1>d DEF Stage, HoldsSource, Published, Reading, Step
  <2>3. \A n \in Name : dir[n] # p
    BY <2>2, <1>0, <1>d DEF Named, Under
  <2>4. src[p] # None => dir[in[p]] = src[p]
    BY <2>2, <1>0 DEF Source
  <2>5. M!Become(p, "failed")
    BY <1>0, <1>3, <1>4, Becomes
  <2> QED
    BY <1>1, <1>2, <1>4, <2>3, <2>4, <2>5 DEF M!Answer
<1>5. CASE result'[p] = "published_retained" /\ Status(p) = "published"
  <2>1. pc[p] = "flush"
    BY <1>0, <1>5 DEF Status, Looks
  <2>2. dir[Out(in[p])] = p /\ dir[in[p]] = src[p]
    BY <2>1, <1>0 DEF Stage, Source, HoldsSource, Published
  <2>3. M!Become(p, "published_retained")
    BY <1>0, <1>3, <1>5, Becomes
  <2> QED
    BY <1>1, <1>2, <1>5, <2>2, <2>3 DEF M!Answer
<1>6. CASE result'[p] \in {"committed_retained", "unconfirmed"} /\ Status(p) = "settled"
  <2>1. pc[p] \in {"delcheck", "mark", "final", "close"}
    BY <1>0, <1>6 DEF Status, Looks
  <2>2. dir[Out(in[p])] = p /\ dirDisk[Out(in[p])] = p /\ dir[in[p]] = src[p]
    BY <2>1, <1>0 DEF Stage, Source, HoldsSource, Published
  <2>3. M!Become(p, result'[p])
    BY <1>0, <1>3, <1>6, Becomes
  <2> QED
    BY <1>1, <1>2, <1>6, <2>2, <2>3 DEF M!Answer
<1>7. CASE result'[p] = "ok" /\ Status(p) = "moved"
  <2>1. pc[p] = "release"
    BY <1>0, <1>7 DEF Status, Looks
  <2>2. /\ dir[Out(in[p])] = p /\ dirDisk[Out(in[p])] = p
        /\ \A n \in Name : dir[n] # src[p]
    BY <2>1, <1>0 DEF Source, Published
  <2>3. M!Become(p, "ok")
    BY <1>0, <1>3, <1>7, Becomes
  <2> QED
    BY <1>1, <1>2, <1>7, <2>2, <2>3 DEF M!Answer
<1>8. CASE result'[p] = "killed"
  <2>1. Status(p) \in M!Going
    BY <1>0, <1>d DEF Status, M!Going, Looks
  <2>2. M!Become(p, "killed")
    BY <1>0, <1>3, <1>8, Becomes
  <2> QED
    BY <1>2, <2>1, <2>2 DEF M!Answer
<1> QED
  BY <1>4, <1>5, <1>6, <1>7, <1>8

\* The source's name goes, and the output is there for good.
LEMMA RemovePromise ==
    ASSUME TypeOK, Shape, NEW p \in Proc, StepOf(p) \/ Kill(p), srcState[p] = "pending",
           dir' = Unnamed(src[p]), dirDisk' = dirDisk,
           \/ pc'[p] = "release"
           \/ pc'[p] = "done" /\ result'[p] \in {"unconfirmed", "killed"}
    PROVE  M!Remove(p)
<1>0. Stage(p) /\ Source(p) /\ Writes(p) /\ Looks(p) /\ Apart(p)
  BY Moves, Sequence, OthersApart DEF Shape
<1>d. in[p] \in Name /\ pc[p] \in Step
  BY DEF TypeOK
<1>1. pc[p] \in {"final", "close"}
  BY <1>0, <1>d DEF Stage, Step, Looks
<1>2. M!There(p)
  BY <1>0, <1>1, <1>d DEF Source, Published, M!There, M!To
<1>3. Status(p) = "settled" /\ Status(p)' \in {"moved", "unconfirmed", "killed"}
  BY <1>1 DEF Status
<1>4. M!Become(p, Status(p)')
  BY <1>0, Becomes
<1>5. UNCHANGED <<in, src>> /\ meddled' + losses' = meddled + losses
  BY <1>0, <1>1 DEF Looks, Writes
<1> QED
  BY <1>2, <1>3, <1>4, <1>5 DEF M!Remove, Unnamed

\* A step that changes no name and leads to another of the same status.
LEMMA QuietPromise ==
    ASSUME TypeOK, Shape, NEW p \in Proc, StepOf(p) \/ Kill(p), UNCHANGED <<dir, dirDisk, src>>,
           pc[p] # "idle", Status(p)' = Status(p)
    PROVE  UNCHANGED M!vars
<1>1. Writes(p) /\ Looks(p) /\ Apart(p)
  BY Moves, Sequence, OthersApart
<1>2. [q \in Proc |-> Status(q)]' = [q \in Proc |-> Status(q)]
  BY <1>1, Remains
<1> QED
  BY <1>1, <1>2 DEF M!vars, Writes, Looks

LEMMA OwnPromise ==
    ASSUME TypeOK, Shape, NEW p \in Proc, StepOf(p) \/ Kill(p)
    PROVE  M!Next \/ UNCHANGED M!vars
<1>0. /\ Stage(p) /\ Source(p) /\ Writes(p) /\ Looks(p) /\ Apart(p)
      /\ \A f \in File : Named(f)
  BY Moves, Sequence, OthersApart DEF Shape
<1>d. /\ in[p] \in Name /\ Out(in[p]) \in Name /\ M!To(p) = Out(in[p])
      /\ pc \in [Proc -> Step] /\ result \in [Proc -> Result]
      /\ meddled' + losses' = meddled + losses
  BY <1>0, Basics DEF TypeOK, M!To, Writes
<1>a. ASSUME M!Answer(p) PROVE M!Next
  BY <1>a DEF M!Next
\* Before publication.
<1>f. ASSUME NEW r \in {"exists", "error"}, Fail(p, r), Status(p) = "working"
      PROVE  M!Next
  <2>1. pc'[p] = "done" /\ result'[p] = r /\ UNCHANGED <<dir, dirDisk>> /\ pc[p] # "idle"
    BY <1>f, <1>d DEF Fail, Answer, world, Status
  <2> QED
    BY <1>a, <1>f, <2>1, AnswerPromise
<1>1. CASE Begin(p)
  <2>1. PICK n \in Name : in' = [in EXCEPT ![p] = n]
    BY <1>1 DEF Begin
  <2>2. Status(p) = "idle" /\ Status(p)' \in {"working", "failed"}
    BY <1>1, <1>d DEF Begin, Goto, Answer, Status
  <2>3. M!Become(p, Status(p)')
    BY <1>0, Becomes
  <2>4. M!Ask(p)
    BY <1>1, <1>d, <2>1, <2>2, <2>3 DEF M!Ask, Begin, world
  <2> QED
    BY <2>4 DEF M!Next
<1>2. CASE OpenSource(p)
  <2>1. /\ dir[in[p]] # None /\ ~Held(dir[in[p]]) /\ src[p] = None
        /\ src' = [src EXCEPT ![p] = dir[in[p]]] /\ UNCHANGED <<dir, dirDisk, in>>
    BY <1>0, <1>2 DEF OpenSource, Stage
  <2>2. ~ M!InHand(dir[in[p]])
    BY <2>1, InHandIsHeld
  <2>3. Status(p) = "working" /\ Status(p)' = Status(p)
    BY <1>2, <1>d DEF OpenSource, Goto, Status
  <2>4. M!Take(p)
    BY <1>0, <1>d, <2>1, <2>2, <2>3, Remains DEF M!Take
  <2> QED
    BY <2>4 DEF M!Next
<1>3. CASE CheckAbsent(p) \/ Readback(p) \/ CheckSource(p) \/ Recheck(p) \/ StopBeforePublication(p)
  <2>1. Status(p) = "working" /\ pc[p] # "idle"
    BY <1>3 DEF CheckAbsent, Readback, CheckSource, Recheck, StopBeforePublication, Status
  <2>2. CASE Fail(p, "exists") \/ Fail(p, "error")
    BY <1>f, <2>1, <2>2
  <2>3. CASE ~(Fail(p, "exists") \/ Fail(p, "error"))
    <3>1. UNCHANGED <<dir, dirDisk, src>> /\ Status(p)' = "working"
      BY <1>3, <1>d, <2>3 DEF CheckAbsent, Readback, CheckSource, Recheck, StopBeforePublication,
         IoError, Goto, world, Status
    <3> QED
      BY <2>1, <3>1, QuietPromise
  <2> QED
    BY <2>2, <2>3
<1>4. CASE Create(p) \/ ReadFirst(p) \/ ReadRest(p) \/ Sync(p) \/ Metadata(p) \/ ClearDelete(p)
  <2>1. /\ UNCHANGED <<dir, dirDisk, src>> /\ pc[p] # "idle"
        /\ Status(p) = "working" /\ Status(p)' = "working"
    BY <1>4, <1>d DEF Create, ReadFirst, ReadRest, Sync, Metadata, Flush, ClearDelete, Goto, world,
       Status
  <2> QED
    BY <2>1, QuietPromise
<1>5. CASE Arm(p)
  <2>1. UNCHANGED <<dir, dirDisk, src>> /\ pc[p] = "arm" /\ Status(p) = "working"
    BY <1>5 DEF Arm, world, Status
  <2>2. CASE Goto(p, "read")
    <3>1. Status(p)' = "working"
      BY <2>2, <1>d DEF Goto, Status
    <3> QED
      BY <2>1, <3>1, QuietPromise
  <2>3. CASE Answer(p, "error")
    <3>1. pc'[p] = "done" /\ result'[p] = "error"
      BY <2>3, <1>d DEF Answer
    <3> QED
      BY <1>a, <2>1, <3>1, AnswerPromise
  <2> QED
    BY <1>5, <2>2, <2>3 DEF Arm
<1>6. CASE Rename(p)
  <2>1. pc[p] = "rename" /\ Status(p) = "working"
    BY <1>6 DEF Rename, Status
  <2>2. CASE Fail(p, "exists")
    BY <1>f, <2>1, <2>2
  <2>3. CASE ~Fail(p, "exists")
    <3>1. /\ dir[Out(in[p])] = None /\ dir' = [dir EXCEPT ![Out(in[p])] = p]
          /\ pc'[p] = "flush" /\ UNCHANGED <<dirDisk, in, src>>
      BY <1>6, <1>d, <2>3 DEF Rename, Vacant, Goto
    <3>2. src[p] # None
      BY <1>0, <2>1 DEF Stage, Source, HoldsSource
    <3>3. M!Become(p, "published")
      BY <1>0, <3>1, Becomes DEF Status
    <3>4. M!Publish(p)
      BY <1>d, <2>1, <3>1, <3>2, <3>3 DEF M!Publish
    <3> QED
      BY <3>4 DEF M!Next
  <2> QED
    BY <2>2, <2>3
\* After it.
<1>7. CASE FlushPublished(p)
  <2>1. pc[p] = "flush" /\ Status(p) = "published" /\ UNCHANGED <<dir, in, src>>
    BY <1>7 DEF FlushPublished, Status
  <2>2. CASE NotFlushed(p) /\ UNCHANGED dirDisk
    <3>1. pc'[p] = "done" /\ result'[p] = "published_retained"
      BY <2>2, <1>d DEF NotFlushed, Answer
    <3> QED
      BY <1>a, <2>1, <2>2, <3>1, AnswerPromise
  <2>3. CASE Goto(p, "delcheck") /\ dirDisk' = [dirDisk EXCEPT ![Out(in[p])] = p]
    <3>1. M!Become(p, "settled")
      BY <1>0, <1>d, <2>3, Becomes DEF Goto, Status
    <3>2. dir[Out(in[p])] = p
      BY <1>0, <2>1 DEF Source, Published
    <3>3. M!Settle(p)
      BY <1>d, <2>1, <2>3, <3>1, <3>2 DEF M!Settle
    <3> QED
      BY <3>3 DEF M!Next
  <2> QED
    BY <1>7, <2>2, <2>3 DEF FlushPublished
<1>r. ASSUME Retained(p), Status(p) = "settled" PROVE M!Next
  <2>1. /\ UNCHANGED <<dir, dirDisk>> /\ pc'[p] = "done" /\ result'[p] = "committed_retained"
        /\ pc[p] # "idle"
    BY <1>r, <1>d DEF Retained, Answer, world, Status
  <2> QED
    BY <1>a, <1>r, <2>1, AnswerPromise
<1>8. CASE DeleteCheck(p) \/ MarkDelete(p)
  <2>1. Status(p) = "settled" /\ pc[p] # "idle"
    BY <1>8 DEF DeleteCheck, MarkDelete, Status
  <2>2. CASE ~Retained(p)
    <3>1. UNCHANGED <<dir, dirDisk, src>> /\ Status(p)' = "settled"
      BY <1>8, <1>d, <2>2 DEF DeleteCheck, MarkDelete, Goto, world, Status
    <3> QED
      BY <2>1, <3>1, QuietPromise
  <2> QED
    BY <2>1, <2>2, <1>r
<1>9. CASE FinalCheck(p) \/ CloseSource(p)
  <2>1. Status(p) = "settled" /\ pc[p] # "idle" /\ srcState[p] = "pending"
    BY <1>0, <1>9 DEF FinalCheck, CloseSource, Status, Stage
  <2>2. CASE ~Retained(p)
    <3>1. /\ UNCHANGED <<dirDisk, in, src>>
          /\ \/ dir' = dir /\ pc'[p] = "close"
             \/ dir' = dir /\ pc'[p] = "done" /\ result'[p] = "unconfirmed"
             \/ /\ dir' = Unnamed(src[p])
                /\ pc'[p] = "release" \/ (pc'[p] = "done" /\ result'[p] = "unconfirmed")
      BY <1>9, <1>d, <2>2 DEF FinalCheck, CloseSource, CancelDelete, LosesName, Answer, Goto, world
    <3>2. CASE dir' = dir /\ pc'[p] = "close"
      <4>1. Status(p)' = "settled"
        BY <3>2 DEF Status
      <4> QED
        BY <2>1, <3>1, <3>2, <4>1, QuietPromise
    <3>3. CASE dir' = dir /\ pc'[p] = "done" /\ result'[p] = "unconfirmed"
      BY <1>a, <2>1, <3>1, <3>3, AnswerPromise
    <3>4. CASE /\ dir' = Unnamed(src[p])
               /\ pc'[p] = "release" \/ (pc'[p] = "done" /\ result'[p] = "unconfirmed")
      <4>1. M!Remove(p)
        BY <2>1, <3>1, <3>4, RemovePromise
      <4> QED
        BY <4>1 DEF M!Next
    <3> QED
      BY <3>1, <3>2, <3>3, <3>4
  <2> QED
    BY <2>1, <2>2, <1>r
<1>10. CASE Release(p)
  <2>1. /\ UNCHANGED <<dir, dirDisk>> /\ pc'[p] = "done" /\ result'[p] = "ok"
        /\ Status(p) = "moved" /\ pc[p] # "idle"
    BY <1>10, <1>d DEF Release, Answer, world, Status
  <2> QED
    BY <1>a, <2>1, AnswerPromise
<1>11. CASE Kill(p)
  <2>1. /\ pc'[p] = "done" /\ result'[p] = "killed" /\ pc[p] # "idle" /\ dirDisk' = dirDisk
        /\ IF srcState[p] = "pending" THEN dir' = Unnamed(src[p]) ELSE dir' = dir
    BY <1>11, <1>d DEF Kill, Answer
  <2>2. CASE srcState[p] = "pending"
    <3>1. M!Remove(p)
      BY <2>1, <2>2, RemovePromise
    <3> QED
      BY <3>1 DEF M!Next
  <2>3. CASE srcState[p] # "pending"
    BY <1>a, <2>1, <2>3, AnswerPromise
  <2> QED
    BY <2>2, <2>3
<1> QED
  BY <1>1, <1>2, <1>3, <1>4, <1>5, <1>6, <1>7, <1>8, <1>9, <1>10, <1>11 DEF StepOf

\* The surroundings.
LEMMA SurroundingsPromise ==
    ASSUME TypeOK, Shape,
           Intrude \/ Change \/ Attach \/ Damage \/ WriteBack \/ PowerLoss
    PROVE  M!Next
<1>m. meddled \in Nat /\ losses \in Nat
  BY EzAssumption DEF TypeOK
<1>1. CASE Intrude
  <2>1. PICK n \in Name :
            \/ dir[n] = None /\ dir' = [dir EXCEPT ![n] = Other]
            \/ dir[n] # None /\ ~Held(dir[n]) /\ dir' = [dir EXCEPT ![n] = None]
    BY <1>1 DEF Intrude
  <2>2. ~Held(dir[n]) /\ dir[n] # None => ~M!InHand(dir[n])
    BY InHandIsHeld
  <2>3. UNCHANGED <<dirDisk, pc, result, in, src>> /\ meddled' + losses' = meddled + losses + 1
    BY <1>1, <1>m DEF Intrude, Meddle
  <2>4. M!Disturb
    BY <2>1, <2>2, <2>3 DEF M!Disturb, Status
  <2> QED
    BY <2>4 DEF M!Next
<1>2. CASE Change \/ Attach \/ Damage
  <2>1. /\ UNCHANGED <<dir, dirDisk, pc, result, in, src>>
        /\ meddled' + losses' = meddled + losses + 1
    BY <1>2, <1>m DEF Change, Attach, Damage, Meddle
  <2>2. M!Disturb
    BY <2>1 DEF M!Disturb, Status
  <2> QED
    BY <2>2 DEF M!Next
<1>3. CASE WriteBack
  <2>1. M!WriteBack
    BY <1>3 DEF WriteBack, M!WriteBack, Status
  <2> QED
    BY <2>1 DEF M!Next
<1>4. CASE PowerLoss
  <2>1. UNCHANGED <<dirDisk, in, src>> /\ meddled' + losses' = meddled + losses + 1 /\ dir' = dirDisk
    BY <1>4, <1>m DEF PowerLoss
  <2>2. ASSUME NEW q \in Proc
        PROVE  Status(q)' = IF Status(q) \in M!Going THEN "killed" ELSE Status(q)
    <3>1. CASE pc[q] \in {"idle", "done"}
      <4>1. pc'[q] = pc[q] /\ result'[q] = result[q]
        BY <1>4, <3>1 DEF PowerLoss
      <4>2. result[q] \in Result
        BY DEF TypeOK
      <4> QED
        BY <3>1, <4>1, <4>2 DEF Status, M!Going, Result
    <3>2. CASE pc[q] \notin {"idle", "done"}
      <4>1. pc'[q] = "done" /\ result'[q] = "killed"
        BY <1>4, <3>2 DEF PowerLoss
      <4> QED
        BY <3>2, <4>1 DEF Status, M!Going
    <3> QED
      BY <3>1, <3>2
  <2>3. [q \in Proc |-> Status(q)]' =
            [q \in Proc |-> IF [r \in Proc |-> Status(r)][q] \in M!Going
                            THEN "killed" ELSE [r \in Proc |-> Status(r)][q]]
    BY <2>2
  <2>4. M!Lose
    BY <2>1, <2>3 DEF M!Lose
  <2> QED
    BY <2>4 DEF M!Next
<1> QED
  BY <1>1, <1>2, <1>3, <1>4

\* Between the user's file and its converted form there are two steps, in this
\* order, whatever else happens: the form appears, and then the file goes.
THEOREM ImplementsPromise == Spec => KeepsThePromise
<1>1. Init => M!Init
  <2> SUFFICES ASSUME Init PROVE M!Init
    OBVIOUS
  <2>1. dir \in [Name -> {Orig, Other} \cup {None}]
    BY DEF Init
  <2>2. in \in [Proc -> Name] /\ meddled + losses = 0
    BY Basics DEF Init
  <2> QED
    BY <2>1, <2>2 DEF Init, M!Init, Status
<1>2. TypeOK /\ Shape /\ [Next]_vars => [M!Next]_(M!vars)
  <2> SUFFICES ASSUME TypeOK, Shape, [Next]_vars PROVE M!Next \/ UNCHANGED M!vars
    OBVIOUS
  <2>1. CASE UNCHANGED vars
    BY <2>1 DEF vars, M!vars, Status
  <2> QED
    BY <2>1, OwnPromise, SurroundingsPromise DEF Next
<1> QED
  BY <1>1, <1>2, InitType, TypeStep, InitShape, ShapeStep, PTL DEF Spec, KeepsThePromise, M!Spec
=============================================================================

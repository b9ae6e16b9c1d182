-------------------------- MODULE XorReplace_proofs --------------------------
(* Proofs about XorReplace, for any number of invocations and events.      *)
EXTENDS XorReplace, TLAPS

-----------------------------------------------------------------------------
(* Types.                                                                  *)

LEMMA ContentFacts ==
    /\ Garbage \in Content /\ NoView \in View
    /\ \A t \in Text : Plain(t) \in Content
    /\ \A o \in AllOps, c \in Content, k \in Key : Image(o, c, k) \in Content
    /\ \A c \in Content, k \in Key : [content |-> c, key |-> k] \in View
<1>1. Garbage \in Content
  BY DEF Garbage, Content, Torn
<1>2. 0 \in Key /\ NoView \in View
  BY <1>1, ReplaceAssumption DEF NoView, View, Key
<1>3. \A t \in Text : Plain(t) \in Content
  BY DEF Plain, Content
<1>4. ASSUME NEW o \in AllOps, NEW c \in Content, NEW k \in Key
      PROVE  Image(o, c, k) \in Content
  <2>1. \A l \in Layer : Push(c, l) \in Content
    BY DEF Push, Content
  <2>2. Pop(c) \in Content
    <3>1. SubSeq(c.layers, 1, Len(c.layers) - 1) \in Seq(Layer)
      BY DEF Content
    <3> QED
      BY <3>1 DEF Pop, Content
  <2>3. <<"xor", k>> \in Layer /\ <<"seal", k>> \in Layer
    BY DEF Layer
  <2> QED
    BY <2>1, <2>2, <2>3 DEF Image, AllOps
<1>5. \A c \in Content, k \in Key : [content |-> c, key |-> k] \in View
  BY DEF View
<1> QED
  BY <1>1, <1>2, <1>3, <1>4, <1>5

LEMMA InodeFacts ==
    /\ None \notin Inode /\ None \notin Proc
    /\ Proc \cap Int = {} /\ 0 \in Inode /\ 0 \notin Proc
    /\ Input \in Name /\ Proc \subseteq Name /\ Proc \subseteq Inode
    /\ MaxEvents \in Nat
<1>1. 0 \in Inode
  BY ReplaceAssumption DEF Inode
<1> QED
  BY <1>1, ReplaceAssumption DEF Inode, Name, Input

\* A call that runs has opened a file for an operation of its tool.
Started ==
    \A p \in Proc : pc[p] \notin {"idle", "done"} =>
        opened[p] \in Inode /\ op[p] \in OpsOf(tool)

TInv == TypeOK /\ Started

LEMMA InitType == Init => TInv
<1> SUFFICES ASSUME Init PROVE TInv
  OBVIOUS
<1>1. TypeOK
  BY ReplaceAssumption, ContentFacts, InodeFacts
  DEF Init, TypeOK, Key, Text, Step, Result, Name, Inode
<1>2. Started
  BY DEF Init, Started
<1> QED
  BY <1>1, <1>2 DEF TInv

LEMMA AbandonType ==
    ASSUME TInv, NEW p \in Proc, Abandon(p) PROVE TInv'
<1> USE InodeFacts DEF TInv
<1>1. dir' \in [Name -> Inode \cup {None}]
  BY DEF Abandon, Dropped, TypeOK
<1>2. pc' \in [Proc -> Step] /\ result' \in [Proc -> Result] /\ tool' \in Tools
  BY DEF Abandon, Answer, TypeOK, Step, Result
<1>3. UNCHANGED <<tool, dirDisk, content, synced, key, jobVars, landed, missed, events>>
  BY DEF Abandon, Answer
<1>4. Started'
  BY <1>3 DEF Started, jobVars, Abandon, Answer, TypeOK
<1> QED
  BY <1>1, <1>2, <1>3, <1>4 DEF TypeOK, jobVars

\* A step that only looks: on to step s, having seen one kind of change.
LEMMA LookType ==
    ASSUME TInv, NEW p \in Proc, pc[p] \notin {"idle", "done"}, NEW s \in Step,
           NEW r \in Result, NEW c,
           pc' = [pc EXCEPT ![p] = s], result' \in {result, [result EXCEPT ![p] = r]},
           missed' \in {missed, [missed EXCEPT ![p] = @ \ {c}]},
           UNCHANGED <<tool, diskVars, key, jobVars, landed, events>>
    PROVE  TInv'
<1> USE DEF TInv
<1>1. missed[p] \ {c} \in SUBSET Change
  BY DEF TypeOK
<1>2. missed' \in [Proc -> SUBSET Change]
  BY <1>1 DEF TypeOK
<1>3. pc' \in [Proc -> Step] /\ result' \in [Proc -> Result]
  BY DEF TypeOK
<1>4. Started'
  BY DEF Started, jobVars, TypeOK
<1> QED
  BY <1>2, <1>3, <1>4 DEF TypeOK, jobVars, diskVars

LEMMA TypeStep == TInv /\ [Next]_vars => TInv'
<1> SUFFICES ASSUME TInv, [Next]_vars PROVE TInv'
  OBVIOUS
<1> USE InodeFacts, ContentFacts DEF TInv
<1>1. ASSUME NEW p \in Proc, Open(p) PROVE TInv'
  <2>1. PICK o \in OpsOf(tool) :
           /\ dir[Input] # None
           /\ op' = [op EXCEPT ![p] = o]
           /\ opened' = [opened EXCEPT ![p] = dir[Input]]
           /\ snap' = [snap EXCEPT ![p] =
                         [content |-> content[dir[Input]], key |-> key]]
           /\ \/ \E t \in {"read1", "stage"} : Goto(p, t)
              \/ Answer(p, "error")
           /\ missed' = [missed EXCEPT ![p] = {}]
           /\ UNCHANGED <<diskVars, key, half, landed, events>>
    BY <1>1 DEF Open
  <2>2. dir[Input] \in Inode /\ o \in AllOps
    BY <2>1 DEF TypeOK, OpsOf, AllOps
  <2>3. [content |-> content[dir[Input]], key |-> key] \in View
    BY <2>2 DEF TypeOK
  <2>4. TypeOK'
    BY <2>1, <2>2, <2>3 DEF TypeOK, Goto, Answer, Step, Result, diskVars
  <2>5. Started'
    BY <2>1, <2>2 DEF TypeOK, Started, Goto, Answer
  <2> QED
    BY <2>4, <2>5
<1>2. ASSUME NEW p \in Proc, CreateTemp(p) PROVE TInv'
  <2>1. TypeOK'
    BY <1>2
    DEF TypeOK, Started, CreateTemp, Goto, Answer, Step, Result, jobVars,
        diskVars, OpsOf
  <2>2. Started'
    BY <1>2
    DEF TypeOK, Started, CreateTemp, Goto, Answer, Step, Result, jobVars,
        diskVars, OpsOf
  <2> QED
    BY <2>1, <2>2
<1>3. ASSUME NEW p \in Proc, ReadFirstHalf(p) PROVE TInv'
  <2>1. TypeOK'
    BY <1>3
    DEF TypeOK, Started, ReadFirstHalf, Goto, Answer, Step, Result, jobVars,
        diskVars, View
  <2>2. Started'
    BY <1>3
    DEF TypeOK, Started, ReadFirstHalf, Goto, Answer, Step, Result, jobVars,
        diskVars, View
  <2> QED
    BY <2>1, <2>2
<1>4. ASSUME NEW p \in Proc, ReadSecondHalf(p) PROVE TInv'
  <2> USE <1>4 DEF ReadSecondHalf
  <2>1. CASE Abandon(p)
    BY <2>1, AbandonType
  <2>2. CASE ~Abandon(p)
    <3>1. KeyUsed(p) \in Key /\ opened[p] \in Inode /\ op[p] \in AllOps
      BY DEF KeyUsed, TypeOK, Started, View, OpsOf, AllOps
    <3>2. content' \in [Inode -> Content]
      BY <2>2, <3>1 DEF TypeOK
    <3>3. UNCHANGED <<tool, dir, dirDisk, synced, key, jobVars, landed, missed, events, result>>
          /\ pc' = [pc EXCEPT ![p] = "check"]
      BY <2>2 DEF Goto
    <3> QED
      BY <3>2, <3>3 DEF TypeOK, Started, jobVars, Step
  <2> QED
    BY <2>1, <2>2
<1>5. ASSUME NEW p \in Proc, CheckRead(p) PROVE TInv'
  <2>1. CASE Abandon(p)
    BY <2>1, AbandonType
  <2>2. CASE ~Abandon(p)
    BY <1>5, <2>2, LookType DEF CheckRead, Goto, Answer, Step, Result
  <2> QED
    BY <2>1, <2>2
<1>6. ASSUME NEW p \in Proc, SyncTemp(p) PROVE TInv'
  <2>1. TypeOK'
    BY <1>6
    DEF TypeOK, Started, SyncTemp, Goto, Answer, Step, Result, jobVars,
        diskVars, SyncedBy
  <2>2. Started'
    BY <1>6
    DEF TypeOK, Started, SyncTemp, Goto, Answer, Step, Result, jobVars,
        diskVars, SyncedBy
  <2> QED
    BY <2>1, <2>2
<1>7. ASSUME NEW p \in Proc, Validate(p) PROVE TInv'
  <2>1. CASE Abandon(p)
    BY <2>1, AbandonType
  <2>2. CASE ~Abandon(p)
    BY <1>7, <2>2, LookType DEF Validate, Goto, Answer, Step, Result
  <2> QED
    BY <2>1, <2>2
<1>8. ASSUME NEW p \in Proc, RecheckHandles(p) PROVE TInv'
  <2>1. CASE Abandon(p)
    BY <2>1, AbandonType
  <2>2. CASE ~Abandon(p)
    BY <1>8, <2>2, LookType DEF RecheckHandles, Goto, Answer, Step, Result
  <2> QED
    BY <2>1, <2>2
<1>9. ASSUME NEW p \in Proc, RecheckNames(p) PROVE TInv'
  <2>1. CASE Abandon(p)
    BY <2>1, AbandonType
  <2>2. CASE ~Abandon(p)
    BY <1>9, <2>2, LookType DEF RecheckNames, Goto, Answer, Step, Result
  <2> QED
    BY <2>1, <2>2
<1>10. ASSUME NEW p \in Proc, CheckTempName(p) PROVE TInv'
  <2>1. CASE Abandon(p)
    BY <2>1, AbandonType
  <2>2. CASE ~Abandon(p)
    BY <1>10, <2>2, LookType DEF CheckTempName, Goto, Answer, Step, Result
  <2> QED
    BY <2>1, <2>2
<1>11. ASSUME NEW p \in Proc, CheckDestName(p) PROVE TInv'
  <2>1. CASE Abandon(p)
    BY <2>1, AbandonType
  <2>2. CASE ~Abandon(p)
    BY <1>11, <2>2, LookType DEF CheckDestName, Goto, Answer, Step, Result
  <2> QED
    BY <2>1, <2>2
<1>12. ASSUME NEW p \in Proc, RenameOk(p) PROVE TInv'
  <2>1. TypeOK'
    BY <1>12
    DEF TypeOK, Started, RenameOk, Goto, Answer, Step, Result, jobVars,
        diskVars, Moved, Change
  <2>2. Started'
    BY <1>12
    DEF TypeOK, Started, RenameOk, Goto, Answer, Step, Result, jobVars,
        diskVars, Moved, Change
  <2> QED
    BY <2>1, <2>2
<1>13. ASSUME NEW p \in Proc, RenameErrorLate(p) PROVE TInv'
  <2>1. TypeOK'
    BY <1>13
    DEF TypeOK, Started, RenameErrorLate, Goto, Answer, Step, Result, jobVars,
        diskVars, Moved, Change, Rejected
  <2>2. Started'
    BY <1>13
    DEF TypeOK, Started, RenameErrorLate, Goto, Answer, Step, Result, jobVars,
        diskVars, Moved, Change, Rejected
  <2> QED
    BY <2>1, <2>2
<1>14. ASSUME NEW p \in Proc, RenameError(p) PROVE TInv'
  <2>1. CASE Abandon(p)
    BY <2>1, AbandonType
  <2>2. CASE ~Abandon(p)
    BY <1>14, <2>2, LookType DEF RenameError, Goto, Answer, Step, Result, Rejected
  <2> QED
    BY <2>1, <2>2
<1>15. ASSUME NEW p \in Proc, DecideSource(p) PROVE TInv'
  <2>1. CASE Abandon(p)
    BY <2>1, AbandonType
  <2>2. CASE ~Abandon(p)
    BY <1>15, <2>2, LookType DEF DecideSource, Goto, Answer, Step, Result
  <2> QED
    BY <2>1, <2>2
<1>16. ASSUME NEW p \in Proc, DecideDestination(p) PROVE TInv'
  <2>1. CASE Abandon(p)
    BY <2>1, AbandonType
  <2>2. CASE ~Abandon(p)
    BY <1>16, <2>2, LookType DEF DecideDestination, Goto, Answer, Step, Result
  <2> QED
    BY <2>1, <2>2
<1>17. ASSUME NEW p \in Proc, SyncDirectory(p) PROVE TInv'
  <2>1. TypeOK'
    BY <1>17
    DEF TypeOK, Started, SyncDirectory, Goto, Answer, Step, Result, jobVars,
        diskVars, DirectorySynced, NotDurable
  <2>2. Started'
    BY <1>17
    DEF TypeOK, Started, SyncDirectory, Goto, Answer, Step, Result, jobVars,
        diskVars, DirectorySynced, NotDurable
  <2> QED
    BY <2>1, <2>2
<1>18. ASSUME NEW p \in Proc, Fail(p) PROVE TInv'
  BY <1>18, AbandonType DEF Fail
<1>19. ASSUME NEW p \in Proc, MeddleWithTemp(p) PROVE TInv'
  <2>1. TypeOK'
    BY <1>19
    DEF TypeOK, Started, MeddleWithTemp, Goto, Answer, Step, Result, jobVars,
        diskVars, Happens, Text, Inode
  <2>2. Started'
    BY <1>19
    DEF TypeOK, Started, MeddleWithTemp, Goto, Answer, Step, Result, jobVars,
        diskVars, Happens, Text, Inode
  <2> QED
    BY <2>1, <2>2
<1>20. ASSUME NEW p \in Proc, Damage(p) PROVE TInv'
  <2>1. TypeOK'
    BY <1>20
    DEF TypeOK, Started, Damage, Goto, Answer, Step, Result, jobVars,
        diskVars, Happens
  <2>2. Started'
    BY <1>20
    DEF TypeOK, Started, Damage, Goto, Answer, Step, Result, jobVars,
        diskVars, Happens
  <2> QED
    BY <2>1, <2>2
<1>21. ASSUME NEW p \in Proc, Kill(p) PROVE TInv'
  <2>1. CASE Abandon(p)
    BY <2>1, AbandonType
  <2>2. CASE ~Abandon(p)
    BY <1>21, <2>2, LookType DEF Kill, Goto, Answer, Step, Result
  <2> QED
    BY <2>1, <2>2
<1>22. ASSUME EditInPlace PROVE TInv'
  <2>1. TypeOK'
    BY <1>22
    DEF TypeOK, Step, Result, jobVars, diskVars, EditInPlace, Happens,
        SomebodySaw, Change, Text
  <2>2. Started'
    BY <1>22
    DEF TypeOK, Started, Step, jobVars, EditInPlace, Happens, SomebodySaw,
        Change, Text
  <2> QED
    BY <2>1, <2>2
<1>23. ASSUME ReplaceInput PROVE TInv'
  <2>1. TypeOK'
    BY <1>23
    DEF TypeOK, Step, Result, jobVars, diskVars, ReplaceInput, Happens,
        SomebodySaw, Change, Text, Inode
  <2>2. Started'
    BY <1>23
    DEF TypeOK, Started, Step, jobVars, ReplaceInput, Happens, SomebodySaw,
        Change, Text, Inode
  <2> QED
    BY <2>1, <2>2
<1>24. ASSUME Rekey PROVE TInv'
  <2>1. TypeOK'
    BY <1>24 DEF TypeOK, Step, Result, jobVars, diskVars, Rekey, Happens, Key
  <2>2. Started'
    BY <1>24 DEF TypeOK, Started, Step, jobVars, Rekey, Happens, Key
  <2> QED
    BY <2>1, <2>2
<1>25. ASSUME PowerLoss PROVE TInv'
  <2>1. TypeOK'
    BY <1>25 DEF TypeOK, Step, Result, jobVars, diskVars, PowerLoss, Happens
  <2>2. Started'
    BY <1>25 DEF TypeOK, Started, Step, jobVars, PowerLoss, Happens
  <2> QED
    BY <2>1, <2>2
<1>26. ASSUME UNCHANGED vars PROVE TInv'
  <2>1. TypeOK'
    BY <1>26 DEF TypeOK, Step, Result, jobVars, diskVars, vars
  <2>2. Started'
    BY <1>26 DEF TypeOK, Started, Step, jobVars, vars
  <2> QED
    BY <2>1, <2>2
<1> QED
  BY <1>1, <1>2, <1>3, <1>4, <1>5, <1>6, <1>7, <1>8, <1>9, <1>10, <1>11,
     <1>12, <1>13, <1>14, <1>15, <1>16, <1>17, <1>18, <1>19, <1>20, <1>21,
     <1>22, <1>23, <1>24, <1>25, <1>26 DEF Next, StepOf

\* Every variable keeps its type.
THEOREM TypeCorrect == Spec => []TypeOK
<1>1. Spec => []TInv
  BY InitType, TypeStep, PTL DEF Spec
<1>2. TInv => TypeOK
  BY DEF TInv
<1> QED
  BY <1>1, <1>2, PTL
-----------------------------------------------------------------------------
(* Honest errors.                                                          *)

\* A call whose output has had the file's name is past its rename, and its
\* temporary name no longer names that output, so otp2 never finds it "kept".
\* Only otp1 believes a rename that took effect and reported an error.
Effect ==
    \A p \in Proc :
        /\ landed[p] => pc[p] \in {"decide", "gone", "dirsync", "dirsync_warned",
                                   "done"}
        /\ landed[p] /\ pc[p] # "done" => dir[p] # p
        /\ result[p] # "none" => pc[p] = "done"
        /\ result[p] = "error" /\ landed[p] => tool = "otp1" /\ tool \in Late

HInv == TInv /\ Effect

LEMMA InitEffect == Init => Effect
  BY DEF Init, Effect

LEMMA AbandonEffect ==
    ASSUME HInv, NEW p \in Proc, Abandon(p), ~landed[p] PROVE Effect'
<1> USE InodeFacts
<1>1. \A q \in Proc : dir'[q] = dir[q] \/ dir'[q] = None
  BY DEF Abandon, Dropped, HInv, TInv, TypeOK, Name
<1> QED
  BY <1>1 DEF HInv, TInv, Effect, Abandon, Answer, TypeOK

LEMMA MovedFacts ==
    ASSUME TypeOK, NEW p \in Proc, Moved(p)
    PROVE  /\ dir'[p] = None /\ dir'[Input] = dir[p] /\ dir[p] # None
           /\ \A n \in Name \ {p, Input} : dir'[n] = dir[n]
           /\ landed'[p] <=> dir[p] = p
           /\ \A q \in Proc \ {p} : landed'[q] = landed[q]
           /\ UNCHANGED <<dirDisk, content, synced, key, op, opened, snap, half, events>>
<1> USE InodeFacts
<1>1. p \in Name /\ Input \in Name /\ p # Input
  BY DEF Input
<1>2. dir' = [dir EXCEPT ![Input] = dir[p], ![p] = None] /\ dir \in [Name -> Inode \cup {None}]
  BY DEF Moved, TypeOK
<1>3. landed' = [landed EXCEPT ![p] = (dir[p] = p)] /\ landed \in [Proc -> BOOLEAN]
  BY DEF Moved, TypeOK
<1>4. dir[p] # None /\ UNCHANGED <<dirDisk, content, synced, key, op, opened, snap, half, events>>
  BY DEF Moved, jobVars
<1>5. landed'[p] <=> dir[p] = p
  BY <1>3, Zenon
<1>6. \A q \in Proc \ {p} : landed'[q] = landed[q]
  BY <1>3, Zenon
<1> QED
  BY <1>1, <1>2, <1>4, <1>5, <1>6

LEMMA EffectStep ==
    ASSUME HInv, [Next]_vars PROVE Effect'
<1> USE InodeFacts DEF HInv, TInv
<1>1. ASSUME NEW p \in Proc, Open(p) PROVE Effect'
  BY <1>1 DEF Open, TypeOK, Effect, Goto, Answer, diskVars, jobVars, Name
<1>2. ASSUME NEW p \in Proc, CreateTemp(p) PROVE Effect'
  BY <1>2 DEF CreateTemp, TypeOK, Effect, Goto, Answer, diskVars, jobVars, Name
<1>3. ASSUME NEW p \in Proc, ReadFirstHalf(p) PROVE Effect'
  BY <1>3 DEF ReadFirstHalf, TypeOK, Effect, Goto, Answer, diskVars, jobVars, Name
<1>4. ASSUME NEW p \in Proc, ReadSecondHalf(p) PROVE Effect'
  <2>1. CASE Abandon(p)
    BY <1>4, <2>1, AbandonEffect DEF ReadSecondHalf, Effect
  <2>2. CASE ~Abandon(p)
    BY <1>4, <2>2
    DEF ReadSecondHalf, TypeOK, Effect, Goto, Answer, diskVars, jobVars, Name
  <2> QED
    BY <2>1, <2>2
<1>5. ASSUME NEW p \in Proc, CheckRead(p) PROVE Effect'
  <2>1. CASE Abandon(p)
    BY <1>5, <2>1, AbandonEffect DEF CheckRead, Effect
  <2>2. CASE ~Abandon(p)
    BY <1>5, <2>2
    DEF CheckRead, TypeOK, Effect, Goto, Answer, diskVars, jobVars, Name
  <2> QED
    BY <2>1, <2>2
<1>6. ASSUME NEW p \in Proc, SyncTemp(p) PROVE Effect'
  BY <1>6 DEF SyncTemp, TypeOK, Effect, Goto, Answer, diskVars, jobVars, Name
<1>7. ASSUME NEW p \in Proc, Validate(p) PROVE Effect'
  <2>1. CASE Abandon(p)
    BY <1>7, <2>1, AbandonEffect DEF Validate, Effect
  <2>2. CASE ~Abandon(p)
    BY <1>7, <2>2
    DEF Validate, TypeOK, Effect, Goto, Answer, diskVars, jobVars, Name
  <2> QED
    BY <2>1, <2>2
<1>8. ASSUME NEW p \in Proc, RecheckHandles(p) PROVE Effect'
  <2>1. CASE Abandon(p)
    BY <1>8, <2>1, AbandonEffect DEF RecheckHandles, Effect
  <2>2. CASE ~Abandon(p)
    BY <1>8, <2>2
    DEF RecheckHandles, TypeOK, Effect, Goto, Answer, diskVars, jobVars, Name
  <2> QED
    BY <2>1, <2>2
<1>9. ASSUME NEW p \in Proc, RecheckNames(p) PROVE Effect'
  <2>1. CASE Abandon(p)
    BY <1>9, <2>1, AbandonEffect DEF RecheckNames, Effect
  <2>2. CASE ~Abandon(p)
    BY <1>9, <2>2
    DEF RecheckNames, TypeOK, Effect, Goto, Answer, diskVars, jobVars, Name
  <2> QED
    BY <2>1, <2>2
<1>10. ASSUME NEW p \in Proc, CheckTempName(p) PROVE Effect'
  <2>1. CASE Abandon(p)
    BY <1>10, <2>1, AbandonEffect DEF CheckTempName, Effect
  <2>2. CASE ~Abandon(p)
    BY <1>10, <2>2
    DEF CheckTempName, TypeOK, Effect, Goto, Answer, diskVars, jobVars, Name
  <2> QED
    BY <2>1, <2>2
<1>11. ASSUME NEW p \in Proc, CheckDestName(p) PROVE Effect'
  <2>1. CASE Abandon(p)
    BY <1>11, <2>1, AbandonEffect DEF CheckDestName, Effect
  <2>2. CASE ~Abandon(p)
    BY <1>11, <2>2
    DEF CheckDestName, TypeOK, Effect, Goto, Answer, diskVars, jobVars, Name
  <2> QED
    BY <2>1, <2>2
<1>12. ASSUME NEW p \in Proc, RenameOk(p) PROVE Effect'
  <2>1. Moved(p) /\ pc[p] = "rename"
    BY <1>12 DEF RenameOk
  <2>2. \A q \in Proc \ {p} : /\ dir'[q] = dir[q] /\ landed'[q] = landed[q]
                               /\ pc'[q] = pc[q] /\ result'[q] = result[q]
    BY <1>12, <2>1, MovedFacts DEF RenameOk, Goto, Answer, TypeOK, Name, Input
  <2>3. dir'[p] = None
    BY <2>1, MovedFacts
  <2> QED
    BY <1>12, <2>1, <2>2, <2>3 DEF RenameOk, Goto, Answer, TypeOK, Effect
<1>13. ASSUME NEW p \in Proc, RenameErrorLate(p) PROVE Effect'
  <2>1. Moved(p) /\ pc[p] = "rename"
    BY <1>13 DEF RenameErrorLate
  <2>2. \A q \in Proc \ {p} : /\ dir'[q] = dir[q] /\ landed'[q] = landed[q]
                               /\ pc'[q] = pc[q] /\ result'[q] = result[q]
    BY <1>13, <2>1, MovedFacts
    DEF RenameErrorLate, Goto, Answer, TypeOK, Name, Input, Rejected
  <2>3. dir'[p] = None
    BY <2>1, MovedFacts
  <2>4. /\ pc'[p] \in {"decide", "done"}
        /\ pc'[p] = "decide" => result'[p] = result[p]
        /\ pc'[p] = "done" => tool = "otp1" /\ tool \in Late
        /\ tool' = tool
    BY <1>13, ReplaceAssumption
    DEF RenameErrorLate, Goto, Answer, TypeOK, Rejected
  <2>5. result[p] = "none"
    BY <2>1 DEF Effect, TypeOK
  <2> QED
    BY <2>1, <2>2, <2>3, <2>4, <2>5 DEF Effect
<1>14. ASSUME NEW p \in Proc, RenameError(p) PROVE Effect'
  <2>1. CASE Abandon(p)
    BY <1>14, <2>1, AbandonEffect DEF RenameError, Effect
  <2>2. CASE ~Abandon(p)
    BY <1>14, <2>2
    DEF RenameError, TypeOK, Effect, Goto, Answer, diskVars, jobVars, Name,
        Rejected
  <2> QED
    BY <2>1, <2>2
<1>15. ASSUME NEW p \in Proc, DecideSource(p) PROVE Effect'
  BY <1>15 DEF DecideSource, TypeOK, Effect, Goto, Answer, diskVars, jobVars, Name
<1>16. ASSUME NEW p \in Proc, DecideDestination(p) PROVE Effect'
  <2>1. CASE pc[p] = "kept" /\ dir[Input] # p
    BY <1>16, <2>1, AbandonEffect DEF DecideDestination, Effect
  <2>2. CASE ~(pc[p] = "kept" /\ dir[Input] # p)
    BY <1>16, <2>2
    DEF DecideDestination, TypeOK, Effect, Goto, Answer, diskVars, jobVars,
        Name
  <2> QED
    BY <2>1, <2>2
<1>17. ASSUME NEW p \in Proc, SyncDirectory(p) PROVE Effect'
  BY <1>17
  DEF SyncDirectory, TypeOK, Effect, Goto, Answer, diskVars, jobVars, Name,
      NotDurable, DirectorySynced
<1>18. ASSUME NEW p \in Proc, Fail(p) PROVE Effect'
  BY <1>18, AbandonEffect DEF Fail, Effect
<1>19. ASSUME NEW p \in Proc, MeddleWithTemp(p) PROVE Effect'
  BY <1>19
  DEF MeddleWithTemp, TypeOK, Effect, Goto, Answer, diskVars, jobVars, Name,
      Happens
<1>20. ASSUME NEW p \in Proc, Damage(p) PROVE Effect'
  BY <1>20 DEF Damage, TypeOK, Effect, Goto, Answer, diskVars, jobVars, Name
<1>21. ASSUME NEW p \in Proc, Kill(p) PROVE Effect'
  BY <1>21 DEF Kill, TypeOK, Effect, Goto, Answer, diskVars, jobVars, Name
<1>22. ASSUME EditInPlace PROVE Effect'
  BY <1>22
  DEF EditInPlace, Happens, SomebodySaw, TypeOK, Effect, Goto, Answer,
      diskVars, jobVars, Name
<1>23. ASSUME ReplaceInput PROVE Effect'
  BY <1>23
  DEF ReplaceInput, Happens, SomebodySaw, TypeOK, Effect, Goto, Answer,
      diskVars, jobVars, Name
<1>24. ASSUME Rekey PROVE Effect'
  BY <1>24
  DEF Rekey, Happens, TypeOK, Effect, Goto, Answer, diskVars, jobVars, Name
<1>25. ASSUME PowerLoss PROVE Effect'
  BY <1>25
  DEF PowerLoss, Happens, TypeOK, Effect, Goto, Answer, diskVars, jobVars,
      Name
<1>26. ASSUME UNCHANGED vars PROVE Effect'
  BY <1>26 DEF vars, TypeOK, Effect, Goto, Answer, diskVars, jobVars, Name
<1> QED
  BY <1>1, <1>2, <1>3, <1>4, <1>5, <1>6, <1>7, <1>8, <1>9, <1>10, <1>11,
     <1>12, <1>13, <1>14, <1>15, <1>16, <1>17, <1>18, <1>19, <1>20, <1>21,
     <1>22, <1>23, <1>24, <1>25, <1>26 DEF Next, StepOf

\* Where only otp2 meets renames that report an error late, a call that
\* reports an error has had no effect.
THEOREM HonestErrors ==
    ASSUME Late \subseteq {"otp2"} PROVE Spec => []ErrorMeansNotApplied
<1>1. Init => HInv
  BY InitType, InitEffect DEF HInv
<1>2. HInv /\ [Next]_vars => HInv'
  BY TypeStep, EffectStep DEF HInv
<1>3. HInv => ErrorMeansNotApplied
  BY DEF HInv, Effect, ErrorMeansNotApplied
<1> QED
  BY <1>1, <1>2, <1>3, PTL DEF Spec
-----------------------------------------------------------------------------
(* What a rename puts under the file's name.                               *)

LEMMA TextFacts ==
    /\ \A c \in Content : c.text \in Int /\ c.text <= MaxEvents
    /\ \A o \in AllOps, c \in Content, k \in Key : Image(o, c, k).text = c.text
    /\ \A t : Plain(t).text = t /\ Garbage.text = Torn /\ Torn = -1
<1>1. \A c \in Content : c.text \in Int /\ c.text <= MaxEvents
  BY InodeFacts DEF Content, Text, Torn
<1>2. \A c \in Content, l \in Layer : Push(c, l).text = c.text /\ Pop(c).text = c.text
  BY DEF Push, Pop, Content
<1>3. ASSUME NEW o \in AllOps, NEW c \in Content, NEW k \in Key
      PROVE  Image(o, c, k).text = c.text
  <2>1. <<"xor", k>> \in Layer /\ <<"seal", k>> \in Layer
    BY DEF Layer
  <2>2. Push(c, <<"xor", k>>).text = c.text /\ Push(c, <<"seal", k>>).text = c.text
        /\ Pop(c).text = c.text
    BY <1>2, <2>1
  <2> QED
    BY <2>2 DEF Image, AllOps
<1> QED
  BY <1>1, <1>3 DEF Plain, Garbage, Torn

\* Everything that names a change by its number names one that has happened.
Bounded ==
    /\ key <= events /\ \A i \in Inode : content[i].text <= events
    /\ \A p \in Proc :
          /\ snap[p].key <= events /\ snap[p].content.text <= events
          /\ half[p].key <= events /\ half[p].content.text <= events
          /\ opened[p] # None => opened[p] \in Proc \cup 0..events
    /\ \A n \in Name : /\ dir[n] # None => dir[n] \in Proc \cup 0..events
                       /\ dirDisk[n] # None => dirDisk[n] \in Proc \cup 0..events

\* The staged output of a call is under its own name, or the call has landed.
Placed ==
    \A p \in Proc :
        /\ dir[Input] = p \/ dirDisk[Input] = p => landed[p]
        /\ \A q \in Proc : opened[q] = p => landed[p]
        /\ \A q \in Proc \ {p} : dir[q] # p /\ dirDisk[q] # p

\* What has a name is on disk and whole, but for staged outputs.
Whole(i) == i \in synced /\ content[i].text # Torn
Sound ==
    \A n \in Name :
        /\ dir[n] # None => (n \in Proc /\ n = dir[n]) \/ Whole(dir[n])
        /\ dirDisk[n] # None => (n \in Proc /\ n = dirDisk[n]) \/ Whole(dirDisk[n])

\* The staged output is the image of what the call found when it opened the
\* file, and an operation that needs a tag has verified it.
Made(p) == content[p] = Image(op[p], snap[p].content, snap[p].key)
Proven(p) ==
    op[p] \in {"verify", "unwrap"} => Authentic(snap[p].content, snap[p].key)
Same(p) == content[opened[p]] = snap[p].content /\ key = snap[p].key

\* A text or a key that changed while it was read has not changed back, so the
\* look at the end of the reading covers all of it; from then on the staged
\* output is right, unless the storage damages it before it is read back.
Good(p) ==
    /\ pc[p] \notin {"idle", "done"} => snap[p].content.text # Torn
    /\ pc[p] = "read2" =>
          /\ content[opened[p]] = snap[p].content =>
                half[p].content = snap[p].content
          /\ key = snap[p].key => half[p].key = snap[p].key
    /\ pc[p] = "check" /\ Same(p) =>
          Proven(p) /\ (op[p] # "verify" => Made(p))
    /\ pc[p] \in {"sync", "validate", "handles", "names", "tempname", "destname",
                  "rename"} =>
          /\ Proven(p)
          /\ op[p] = "verify" => pc[p] = "names"
          /\ op[p] # "verify" =>
                /\ Made(p) \/ (pc[p] = "validate" /\ content[p] = Garbage)
                /\ pc[p] # "sync" => p \in synced
    /\ result[p] = "verified" \/ landed[p] => Proven(p)
    /\ result[p] = "verified" => op[p] = "verify"

RInv == HInv /\ Bounded /\ Placed /\ Sound /\ \A p \in Proc : Good(p)
\* A step of p that does no more to names and files than drop its own.
Quiet(p) ==
    /\ \A n \in Name : dir'[n] = dir[n] \/ (n = p /\ dir'[n] = None)
    /\ UNCHANGED <<tool, dirDisk, content, synced, key, op, opened, snap, half,
                   landed, events>>
    /\ \A q \in Proc \ {p} : /\ pc'[q] = pc[q] /\ result'[q] = result[q]
                             /\ missed'[q] = missed[q]
    /\ pc'[p] \notin {"idle", "dirsync"}
    /\ result'[p] \in {result[p], "error", "uncertain", "verified", "killed"}

LEMMA AbandonQuiet ==
    ASSUME TypeOK, NEW p \in Proc, Abandon(p) PROVE Quiet(p) /\ pc'[p] = "done"
<1>1. \A n \in Name : dir'[n] = dir[n] \/ (n = p /\ dir'[n] = None)
  BY InodeFacts DEF Abandon, Dropped, TypeOK
<1>2. UNCHANGED <<tool, dirDisk, content, synced, key, op, opened, snap, half,
                  landed, events>>
  BY DEF Abandon, Answer, jobVars
<1>3. /\ pc'[p] = "done" /\ result'[p] = "error" /\ missed' = missed
      /\ \A q \in Proc \ {p} : pc'[q] = pc[q] /\ result'[q] = result[q]
  BY DEF Abandon, Answer, TypeOK
<1> QED
  BY <1>1, <1>2, <1>3 DEF Quiet

LEMMA QuietSteps ==
    ASSUME TypeOK, NEW p \in Proc,
           \/ CheckRead(p) \/ Validate(p) \/ RecheckHandles(p) \/ RecheckNames(p)
           \/ CheckTempName(p) \/ CheckDestName(p) \/ RenameError(p)
           \/ DecideSource(p) \/ DecideDestination(p) \/ Fail(p) \/ Kill(p)
    PROVE  Quiet(p)
<1>1. CASE CheckRead(p)
  <2>1. CASE Abandon(p)
    BY <2>1, AbandonQuiet
  <2>2. CASE ~Abandon(p)
    BY <1>1, <2>2 DEF CheckRead, Quiet, Goto, Answer, TypeOK, jobVars, diskVars
  <2> QED
    BY <2>1, <2>2
<1>2. CASE Validate(p)
  <2>1. CASE Abandon(p)
    BY <2>1, AbandonQuiet
  <2>2. CASE ~Abandon(p)
    BY <1>2, <2>2 DEF Validate, Quiet, Goto, Answer, TypeOK, jobVars, diskVars
  <2> QED
    BY <2>1, <2>2
<1>3. CASE RecheckHandles(p)
  <2>1. CASE Abandon(p)
    BY <2>1, AbandonQuiet
  <2>2. CASE ~Abandon(p)
    BY <1>3, <2>2
    DEF RecheckHandles, Quiet, Goto, Answer, TypeOK, jobVars, diskVars
  <2> QED
    BY <2>1, <2>2
<1>4. CASE RecheckNames(p)
  <2>1. CASE Abandon(p)
    BY <2>1, AbandonQuiet
  <2>2. CASE ~Abandon(p)
    BY <1>4, <2>2 DEF RecheckNames, Quiet, Goto, Answer, TypeOK, jobVars, diskVars
  <2> QED
    BY <2>1, <2>2
<1>5. CASE CheckTempName(p)
  <2>1. CASE Abandon(p)
    BY <2>1, AbandonQuiet
  <2>2. CASE ~Abandon(p)
    BY <1>5, <2>2
    DEF CheckTempName, Quiet, Goto, Answer, TypeOK, jobVars, diskVars
  <2> QED
    BY <2>1, <2>2
<1>6. CASE CheckDestName(p)
  <2>1. CASE Abandon(p)
    BY <2>1, AbandonQuiet
  <2>2. CASE ~Abandon(p)
    BY <1>6, <2>2
    DEF CheckDestName, Quiet, Goto, Answer, TypeOK, jobVars, diskVars
  <2> QED
    BY <2>1, <2>2
<1>7. CASE RenameError(p)
  <2>1. CASE Abandon(p)
    BY <2>1, AbandonQuiet
  <2>2. CASE ~Abandon(p)
    BY <1>7, <2>2
    DEF RenameError, Quiet, Goto, Answer, TypeOK, jobVars, diskVars, Rejected
  <2> QED
    BY <2>1, <2>2
<1>8. CASE DecideSource(p)
  <2>1. CASE Abandon(p)
    BY <2>1, AbandonQuiet
  <2>2. CASE ~Abandon(p)
    BY <1>8, <2>2 DEF DecideSource, Quiet, Goto, Answer, TypeOK, jobVars, diskVars
  <2> QED
    BY <2>1, <2>2
<1>9. CASE DecideDestination(p)
  <2>1. CASE Abandon(p)
    BY <2>1, AbandonQuiet
  <2>2. CASE ~Abandon(p)
    BY <1>9, <2>2
    DEF DecideDestination, Quiet, Goto, Answer, TypeOK, jobVars, diskVars
  <2> QED
    BY <2>1, <2>2
<1>10. CASE Fail(p)
  <2>1. CASE Abandon(p)
    BY <2>1, AbandonQuiet
  <2>2. CASE ~Abandon(p)
    BY <1>10, <2>2 DEF Fail, Quiet, Goto, Answer, TypeOK, jobVars, diskVars
  <2> QED
    BY <2>1, <2>2
<1>11. CASE Kill(p)
  <2>1. CASE Abandon(p)
    BY <2>1, AbandonQuiet
  <2>2. CASE ~Abandon(p)
    BY <1>11, <2>2 DEF Kill, Quiet, Goto, Answer, TypeOK, jobVars, diskVars
  <2> QED
    BY <2>1, <2>2
<1> QED
  BY <1>1, <1>2, <1>3, <1>4, <1>5, <1>6, <1>7, <1>8, <1>9, <1>10, <1>11

LEMMA BoundedStep ==
    ASSUME TInv, Bounded, [Next]_vars PROVE Bounded'
<1> USE InodeFacts, TextFacts, ContentFacts DEF TInv
<1>1. ASSUME NEW p \in Proc,
           \/ CheckRead(p) \/ Validate(p) \/ RecheckHandles(p) \/ RecheckNames(p)
           \/ CheckTempName(p) \/ CheckDestName(p) \/ RenameError(p)
           \/ DecideSource(p) \/ DecideDestination(p) \/ Fail(p) \/ Kill(p) PROVE Bounded'
  <2>1. Quiet(p)
    BY <1>1, QuietSteps
  <2> QED
    BY <2>1 DEF Quiet, TypeOK, Bounded, jobVars, diskVars, Key, View
<1>2. ASSUME NEW p \in Proc, Open(p) PROVE Bounded'
  BY <1>2 DEF Open, TypeOK, Bounded, jobVars, diskVars, Key, View
<1>3. ASSUME NEW p \in Proc, CreateTemp(p) PROVE Bounded'
  BY <1>3 DEF CreateTemp, TypeOK, Bounded, jobVars, diskVars, Key, View
<1>4. ASSUME NEW p \in Proc, ReadFirstHalf(p) PROVE Bounded'
  <2>1. opened[p] \in Inode
    BY <1>4 DEF ReadFirstHalf, Started
  <2>2. half'[p].content = content[opened[p]] /\ half'[p].key = key
        /\ \A q \in Proc \ {p} : half'[q] = half[q]
    BY <1>4 DEF ReadFirstHalf, TypeOK
  <2> QED
    BY <1>4, <2>1, <2>2 DEF ReadFirstHalf, TypeOK, Bounded, diskVars
<1>5. ASSUME NEW p \in Proc, ReadSecondHalf(p) PROVE Bounded'
  <2>1. CASE Abandon(p)
    BY <2>1, AbandonQuiet DEF Quiet, TypeOK, Bounded
  <2>2. CASE ~Abandon(p)
    <3>1. KeyUsed(p) \in Key /\ opened[p] \in Inode /\ op[p] \in AllOps
      BY <1>5 DEF ReadSecondHalf, KeyUsed, TypeOK, Started, View, OpsOf, AllOps
    <3>2. content' = content \/
          \E c \in Content : c.text <= events /\ content' = [content EXCEPT ![p] = c]
      <4>1. Garbage.text <= events /\ content[opened[p]].text <= events
        BY <3>1 DEF Bounded, TypeOK
      <4>2. content[opened[p]] \in Content
        BY <3>1 DEF TypeOK
      <4> DEFINE i == Image(op[p], content[opened[p]], KeyUsed(p))
      <4>3. i \in Content /\ i.text <= events
        BY <3>1, <4>1, <4>2
      <4>4. \/ content' = content
            \/ content' = [content EXCEPT ![p] = Garbage]
            \/ content' = [content EXCEPT ![p] = i]
        BY <1>5, <2>2 DEF ReadSecondHalf
      <4> QED
        BY <4>1, <4>3, <4>4
    <3>3. UNCHANGED <<dir, dirDisk, key, opened, snap, half, events>>
      BY <1>5, <2>2 DEF ReadSecondHalf, jobVars
    <3> QED
      BY <3>2, <3>3 DEF TypeOK, Bounded
  <2> QED
    BY <2>1, <2>2
<1>6. ASSUME NEW p \in Proc, SyncTemp(p) PROVE Bounded'
  BY <1>6 DEF SyncTemp, TypeOK, Bounded, jobVars, diskVars, Key, View, SyncedBy
<1>7. ASSUME NEW p \in Proc, RenameOk(p) PROVE Bounded'
  BY <1>7, MovedFacts DEF RenameOk, TypeOK, Bounded, jobVars, diskVars, Key, View
<1>8. ASSUME NEW p \in Proc, RenameErrorLate(p) PROVE Bounded'
  <2>1. Moved(p)
    BY <1>8 DEF RenameErrorLate
  <2>2. \A n \in Name : dir'[n] # None => dir'[n] \in Proc \cup 0..events
    BY <2>1, MovedFacts DEF Bounded
  <2>3. UNCHANGED <<dirDisk, content, key, opened, snap, half, events>>
    BY <2>1, MovedFacts
  <2> QED
    BY <2>2, <2>3 DEF Bounded
<1>9. ASSUME NEW p \in Proc, SyncDirectory(p) PROVE Bounded'
  BY <1>9
  DEF SyncDirectory, TypeOK, Bounded, jobVars, diskVars, Key, View,
      DirectorySynced
<1>10. ASSUME NEW p \in Proc, MeddleWithTemp(p) PROVE Bounded'
  BY <1>10
  DEF MeddleWithTemp, TypeOK, Bounded, jobVars, diskVars, Key, View, Happens
<1>11. ASSUME NEW p \in Proc, Damage(p) PROVE Bounded'
  BY <1>11 DEF Damage, TypeOK, Bounded, jobVars, diskVars, Key, View, Happens
<1>12. ASSUME EditInPlace PROVE Bounded'
  BY <1>12 DEF EditInPlace, TypeOK, Bounded, jobVars, diskVars, Key, View, Happens
<1>13. ASSUME ReplaceInput PROVE Bounded'
  BY <1>13
  DEF ReplaceInput, TypeOK, Bounded, jobVars, diskVars, Key, View, Happens
<1>14. ASSUME Rekey PROVE Bounded'
  BY <1>14 DEF Rekey, TypeOK, Bounded, jobVars, diskVars, Key, View, Happens
<1>15. ASSUME PowerLoss PROVE Bounded'
  BY <1>15 DEF PowerLoss, TypeOK, Bounded, jobVars, diskVars, Key, View, Happens
<1>16. ASSUME UNCHANGED vars PROVE Bounded'
  BY <1>16 DEF TypeOK, Bounded, jobVars, diskVars, Key, View, vars
<1> QED
  BY <1>1, <1>2, <1>3, <1>4, <1>5, <1>6, <1>7, <1>8, <1>9, <1>10, <1>11,
     <1>12, <1>13, <1>14, <1>15, <1>16 DEF Next, StepOf

LEMMA PlacedStep ==
    ASSUME HInv, Bounded, Placed, [Next]_vars PROVE Placed'
<1> USE InodeFacts DEF HInv, TInv
<1>1. ASSUME NEW p \in Proc,
           \/ CheckRead(p) \/ Validate(p) \/ RecheckHandles(p) \/ RecheckNames(p)
           \/ CheckTempName(p) \/ CheckDestName(p) \/ RenameError(p)
           \/ DecideSource(p) \/ DecideDestination(p) \/ Fail(p) \/ Kill(p) PROVE Placed'
  <2>1. Quiet(p)
    BY <1>1, QuietSteps
  <2> QED
    BY <2>1 DEF Quiet, TypeOK, Placed, jobVars, diskVars, Name
<1>2. ASSUME NEW p \in Proc, Open(p) PROVE Placed'
  BY <1>2 DEF Open, TypeOK, Placed, jobVars, diskVars, Name
<1>3. ASSUME NEW p \in Proc, CreateTemp(p) PROVE Placed'
  <2>1. \A n \in Name : dir'[n] = IF n = p THEN p ELSE dir[n]
    BY <1>3 DEF CreateTemp, TypeOK
  <2>2. UNCHANGED <<dirDisk, opened, landed>>
    BY <1>3 DEF CreateTemp, jobVars
  <2> QED
    BY <2>1, <2>2 DEF Placed, Name, Input
<1>4. ASSUME NEW p \in Proc, ReadFirstHalf(p) PROVE Placed'
  BY <1>4 DEF ReadFirstHalf, TypeOK, Placed, jobVars, diskVars, Name
<1>5. ASSUME NEW p \in Proc, ReadSecondHalf(p) PROVE Placed'
  <2>1. CASE Abandon(p)
    BY <2>1, AbandonQuiet DEF Quiet, TypeOK, Placed, jobVars, diskVars, Name
  <2>2. CASE ~Abandon(p)
    BY <1>5, <2>2 DEF ReadSecondHalf, TypeOK, Placed, jobVars, diskVars, Name
  <2> QED
    BY <2>1, <2>2
<1>6. ASSUME NEW p \in Proc, SyncTemp(p) PROVE Placed'
  BY <1>6 DEF SyncTemp, TypeOK, Placed, jobVars, diskVars, Name, SyncedBy
<1>7. ASSUME NEW p \in Proc, RenameOk(p) PROVE Placed'
  <2>1. Moved(p) /\ pc[p] = "rename"
    BY <1>7 DEF RenameOk
  <2>2. ~landed[p] /\ dir[p] \notin Proc \ {p}
    BY <2>1, MovedFacts DEF Effect, Placed, TypeOK
  <2> QED
    BY <2>1, <2>2, MovedFacts DEF Placed, Name, Input
<1>8. ASSUME NEW p \in Proc, RenameErrorLate(p) PROVE Placed'
  <2>1. Moved(p) /\ pc[p] = "rename"
    BY <1>8 DEF RenameErrorLate
  <2>2. ~landed[p] /\ dir[p] \notin Proc \ {p}
    BY <2>1, MovedFacts DEF Effect, Placed, TypeOK
  <2> QED
    BY <2>1, <2>2, MovedFacts DEF Placed, Name, Input
<1>9. ASSUME NEW p \in Proc, SyncDirectory(p) PROVE Placed'
  BY <1>9
  DEF SyncDirectory, TypeOK, Placed, jobVars, diskVars, Name, DirectorySynced
<1>10. ASSUME NEW p \in Proc, MeddleWithTemp(p) PROVE Placed'
  BY <1>10 DEF MeddleWithTemp, TypeOK, Placed, jobVars, diskVars, Name, Happens
<1>11. ASSUME NEW p \in Proc, Damage(p) PROVE Placed'
  BY <1>11 DEF Damage, TypeOK, Placed, jobVars, diskVars, Name, Happens
<1>12. ASSUME EditInPlace PROVE Placed'
  BY <1>12 DEF EditInPlace, TypeOK, Placed, jobVars, diskVars, Name, Happens
<1>13. ASSUME ReplaceInput PROVE Placed'
  BY <1>13 DEF ReplaceInput, TypeOK, Placed, jobVars, diskVars, Name, Happens
<1>14. ASSUME Rekey PROVE Placed'
  BY <1>14 DEF Rekey, TypeOK, Placed, jobVars, diskVars, Name, Happens
<1>15. ASSUME PowerLoss PROVE Placed'
  BY <1>15 DEF PowerLoss, TypeOK, Placed, jobVars, diskVars, Name, Happens
<1>16. ASSUME UNCHANGED vars PROVE Placed'
  BY <1>16 DEF TypeOK, Placed, jobVars, diskVars, Name, vars
<1> QED
  BY <1>1, <1>2, <1>3, <1>4, <1>5, <1>6, <1>7, <1>8, <1>9, <1>10, <1>11,
     <1>12, <1>13, <1>14, <1>15, <1>16 DEF Next, StepOf
LEMMA InitRInv == Init => RInv
<1> SUFFICES ASSUME Init PROVE RInv
  OBVIOUS
<1> USE InodeFacts, TextFacts
<1>1. Bounded
  <2>1. NoView.key = 0 /\ NoView.content.text = Torn
    BY DEF NoView, Garbage
  <2>2. \A i \in Inode : content[i].text <= 0
    BY DEF Init
  <2> QED
    BY <2>1, <2>2 DEF Init, Bounded, Input
<1>2. Placed /\ Sound
  BY DEF Init, Placed, Sound, Whole, Input
<1>3. \A p \in Proc : Good(p)
  BY DEF Init, Good
<1> QED
  BY <1>1, <1>2, <1>3, InitType, InitEffect DEF RInv, HInv

LEMMA SoundBeside ==
    ASSUME RInv, NEW p \in Proc, ~landed[p],
           \A i \in Inode \ {p} : content'[i] = content[i],
           UNCHANGED <<dir, dirDisk, synced>>
    PROVE  Sound'
<1>1. \A n \in Name : dir[n] = p \/ dirDisk[n] = p => n = p
  BY DEF RInv, Placed, Name
<1>2. \A n \in Name : /\ dir[n] # None => dir[n] \in Inode
                      /\ dirDisk[n] # None => dirDisk[n] \in Inode
  BY DEF RInv, HInv, TInv, TypeOK
<1> QED
  BY <1>1, <1>2 DEF RInv, Sound, Whole

LEMMA SoundAgain ==
    ASSUME TypeOK, Sound, NEW e,
           \A j \in Inode : Whole(j) => Whole(j)',
           e \in synced' /\ content'[e].text # Torn,
           \A n \in Name : /\ dir'[n] \in {dir[n], e, None}
                           /\ dirDisk'[n] \in {dirDisk[n], e}
    PROVE  Sound'
<1>1. ASSUME NEW n \in Name, dir'[n] # None
      PROVE  (n \in Proc /\ n = dir'[n]) \/
             (dir'[n] \in synced' /\ content'[dir'[n]].text # Torn)
  <2>1. CASE dir'[n] = dir[n]
    <3>1. dir[n] \in Inode
      BY <1>1, <2>1 DEF TypeOK
    <3>2. (n \in Proc /\ n = dir[n]) \/ Whole(dir[n])
      BY <1>1, <2>1 DEF Sound
    <3> QED
      BY <2>1, <3>1, <3>2 DEF Whole
  <2>2. CASE dir'[n] = e
    BY <2>2
  <2> QED
    BY <1>1, <2>1, <2>2
<1>2. ASSUME NEW n \in Name, dirDisk'[n] # None
      PROVE  (n \in Proc /\ n = dirDisk'[n]) \/
             (dirDisk'[n] \in synced' /\ content'[dirDisk'[n]].text # Torn)
  <2>1. CASE dirDisk'[n] = dirDisk[n]
    <3>1. dirDisk[n] \in Inode
      BY <1>2, <2>1 DEF TypeOK
    <3>2. (n \in Proc /\ n = dirDisk[n]) \/ Whole(dirDisk[n])
      BY <1>2, <2>1 DEF Sound
    <3> QED
      BY <2>1, <3>1, <3>2 DEF Whole
  <2>2. CASE dirDisk'[n] = e
    BY <2>2
  <2> QED
    BY <1>2, <2>1, <2>2
<1> QED
  BY <1>1, <1>2 DEF Sound, Whole

LEMMA SoundStep ==
    ASSUME RInv, [Next]_vars PROVE Sound'
<1> USE InodeFacts, TextFacts DEF RInv, HInv, TInv
<1>1. ASSUME NEW p \in Proc,
           \/ CheckRead(p) \/ Validate(p) \/ RecheckHandles(p) \/ RecheckNames(p)
           \/ CheckTempName(p) \/ CheckDestName(p) \/ RenameError(p)
           \/ DecideSource(p) \/ DecideDestination(p) \/ Fail(p) \/ Kill(p) PROVE Sound'
  <2>1. Quiet(p)
    BY <1>1, QuietSteps
  <2> QED
    BY <2>1 DEF Quiet, Sound, Whole
<1>2. ASSUME NEW p \in Proc, Open(p) PROVE Sound'
  BY <1>2 DEF Open, TypeOK, Sound, Whole, jobVars, diskVars, Name
<1>3. ASSUME NEW p \in Proc, CreateTemp(p) PROVE Sound'
  BY <1>3 DEF CreateTemp, TypeOK, Sound, Whole, jobVars, diskVars, Name
<1>4. ASSUME NEW p \in Proc, ReadFirstHalf(p) PROVE Sound'
  BY <1>4 DEF ReadFirstHalf, TypeOK, Sound, Whole, jobVars, diskVars, Name
<1>5. ASSUME NEW p \in Proc, ReadSecondHalf(p) PROVE Sound'
  <2>1. CASE Abandon(p)
    BY <2>1, AbandonQuiet DEF Quiet, Sound, Whole
  <2>2. CASE ~Abandon(p)
    <3>1. \A i \in Inode \ {p} : content'[i] = content[i]
      BY <1>5, <2>2 DEF ReadSecondHalf, TypeOK
    <3>2. UNCHANGED <<dir, dirDisk, synced>> /\ pc[p] = "read2"
      BY <1>5, <2>2 DEF ReadSecondHalf
    <3>3. ~landed[p]
      BY <3>2 DEF Effect
    <3> QED
      BY <3>1, <3>2, <3>3, SoundBeside
  <2> QED
    BY <2>1, <2>2
<1>6. ASSUME NEW p \in Proc, SyncTemp(p) PROVE Sound'
  BY <1>6 DEF SyncTemp, TypeOK, Sound, Whole, jobVars, diskVars, Name, SyncedBy
<1>7. ASSUME NEW p \in Proc, RenameOk(p) PROVE Sound'
  <2>1. Moved(p) /\ pc[p] = "rename"
    BY <1>7 DEF RenameOk
  <2>2. dir[p] = p => Whole(p)
    <3>1. op[p] # "verify" /\ Made(p) /\ p \in synced
      BY <2>1 DEF Good
    <3>2. snap[p].content.text # Torn /\ op[p] \in AllOps
      BY <2>1 DEF Good, Started, OpsOf, AllOps
    <3> QED
      BY <3>1, <3>2 DEF Made, Whole, TypeOK, View
  <2>3. Whole(dir[p])
    BY <2>1, <2>2, MovedFacts DEF Sound
  <2> QED
    BY <2>1, <2>3, MovedFacts DEF Sound, Whole
<1>8. ASSUME NEW p \in Proc, RenameErrorLate(p) PROVE Sound'
  <2>1. Moved(p) /\ pc[p] = "rename"
    BY <1>8 DEF RenameErrorLate
  <2>2. dir[p] = p => Whole(p)
    <3>1. op[p] # "verify" /\ Made(p) /\ p \in synced
      BY <2>1 DEF Good
    <3>2. snap[p].content.text # Torn /\ op[p] \in AllOps
      BY <2>1 DEF Good, Started, OpsOf, AllOps
    <3> QED
      BY <3>1, <3>2 DEF Made, Whole, TypeOK, View
  <2>3. Whole(dir[p])
    BY <2>1, <2>2, MovedFacts DEF Sound
  <2> QED
    BY <2>1, <2>3, MovedFacts DEF Sound, Whole
<1>9. ASSUME NEW p \in Proc, SyncDirectory(p) PROVE Sound'
  BY <1>9
  DEF SyncDirectory, TypeOK, Sound, Whole, jobVars, diskVars, Name,
      DirectorySynced
<1>10. ASSUME NEW p \in Proc, MeddleWithTemp(p) PROVE Sound'
  <2>1. events + 1 \in Inode /\ events + 1 # Torn /\ events + 1 \notin Proc
    BY <1>10 DEF MeddleWithTemp, Happens, TypeOK, Inode
  <2>2. content' = [content EXCEPT ![events + 1] = Plain(events + 1)]
        /\ synced' = synced \cup {events + 1}
    BY <1>10 DEF MeddleWithTemp
  <2>3. \A j \in Inode : Whole(j) => Whole(j)'
    BY <2>1, <2>2 DEF Whole, TypeOK
  <2>4. events + 1 \in synced' /\ content'[events + 1].text # Torn
    BY <2>1, <2>2 DEF TypeOK
  <2>5. \A n \in Name : /\ dir'[n] \in {dir[n], events + 1, None}
                       /\ dirDisk'[n] \in {dirDisk[n], events + 1}
    BY <1>10 DEF MeddleWithTemp, TypeOK
  <2> QED
    BY <2>1, <2>3, <2>4, <2>5, SoundAgain
<1>11. ASSUME NEW p \in Proc, Damage(p) PROVE Sound'
  <2>1. ~landed[p] /\ \A i \in Inode \ {p} : content'[i] = content[i]
    BY <1>11 DEF Damage, Effect, TypeOK
  <2>2. UNCHANGED <<dir, dirDisk, synced>>
    BY <1>11 DEF Damage
  <2> QED
    BY <2>1, <2>2, SoundBeside
<1>12. ASSUME EditInPlace PROVE Sound'
  BY <1>12 DEF EditInPlace, TypeOK, Sound, Whole, jobVars, diskVars, Name, Happens
<1>13. ASSUME ReplaceInput PROVE Sound'
  <2>1. events + 1 \in Inode /\ events + 1 # Torn /\ events + 1 \notin Proc
    BY <1>13 DEF ReplaceInput, Happens, TypeOK, Inode
  <2>2. content' = [content EXCEPT ![events + 1] = Plain(events + 1)]
        /\ synced' = synced \cup {events + 1}
    BY <1>13 DEF ReplaceInput
  <2>3. \A j \in Inode : Whole(j) => Whole(j)'
    BY <2>1, <2>2 DEF Whole, TypeOK
  <2>4. events + 1 \in synced' /\ content'[events + 1].text # Torn
    BY <2>1, <2>2 DEF TypeOK
  <2>5. \A n \in Name : /\ dir'[n] \in {dir[n], events + 1, None}
                       /\ dirDisk'[n] \in {dirDisk[n], events + 1}
    BY <1>13 DEF ReplaceInput, TypeOK
  <2> QED
    BY <2>1, <2>3, <2>4, <2>5, SoundAgain
<1>14. ASSUME Rekey PROVE Sound'
  BY <1>14 DEF Rekey, TypeOK, Sound, Whole, jobVars, diskVars, Name
<1>15. ASSUME PowerLoss PROVE Sound'
  BY <1>15 DEF PowerLoss, TypeOK, Sound, Whole, jobVars, diskVars, Name
<1>16. ASSUME UNCHANGED vars PROVE Sound'
  BY <1>16 DEF TypeOK, Sound, Whole, jobVars, diskVars, Name, vars
<1> QED
  BY <1>1, <1>2, <1>3, <1>4, <1>5, <1>6, <1>7, <1>8, <1>9, <1>10, <1>11,
     <1>12, <1>13, <1>14, <1>15, <1>16 DEF Next, StepOf

\* A step of somebody else.
Apart(q) ==
    /\ UNCHANGED <<pc[q], op[q], opened[q], snap[q], half[q], landed[q],
                   result[q]>>
    /\ synced \subseteq synced' /\ key' \in {key, events + 1}
    /\ content'[q] = content[q] \/ landed[q]
    /\ opened[q] \in Inode => \/ content'[opened[q]] = content[opened[q]]
                              \/ content'[opened[q]].text = events + 1
    /\ missed[q] \subseteq missed'[q]
    /\ opened[q] \in Inode /\ "edited" \notin missed'[q] =>
          content'[opened[q]] = content[opened[q]]
    /\ "replaced" \notin missed'[q] => dir'[Input] = dir[Input]

\* What others do leaves a call's reading and its staged output alone, or
\* changes the file or the key into what nobody had read.
LEMMA OthersGood ==
    ASSUME RInv, NEW q \in Proc, Apart(q) PROVE Good(q)'
<1> USE InodeFacts DEF RInv, HInv, TInv, Apart
<1>1. key <= events /\ snap[q].key <= events /\ snap[q].content.text <= events
      /\ events \in Int /\ snap[q].key \in Int /\ snap[q].content.text \in Int
  BY TextFacts DEF Bounded, TypeOK, View, Key
<1>2. ASSUME opened[q] \in Inode, content'[opened[q]] = snap[q].content
      PROVE  content[opened[q]] = snap[q].content
  BY <1>1, <1>2
<1>3. key' = snap[q].key => key = snap[q].key
  BY <1>1
<1>4. Proven(q)' <=> Proven(q)
  BY DEF Proven
<1>5. Made(q) => Made(q)' \/ landed[q]
  BY DEF Made
<1>6. pc[q] \notin {"idle", "done"} => opened[q] \in Inode
  BY DEF Started
<1>7. Good(q)
  OBVIOUS
<1>8. (pc[q] \notin {"idle", "done"} => snap[q].content.text # Torn)'
  BY <1>7 DEF Good
<1>9. (pc[q] = "read2" =>
          /\ content[opened[q]] = snap[q].content =>
                half[q].content = snap[q].content
          /\ key = snap[q].key => half[q].key = snap[q].key)'
  BY <1>2, <1>3, <1>6, <1>7 DEF Good
<1>10. ASSUME pc'[q] = "check", Same(q)'
       PROVE  (Proven(q) /\ (op[q] # "verify" => Made(q)))'
  <2>1. Same(q)
    BY <1>2, <1>3, <1>6, <1>10 DEF Same
  <2>2. ~landed[q]
    BY <1>10 DEF Effect
  <2> QED
    BY <1>4, <1>5, <1>7, <1>10, <2>1, <2>2 DEF Good
<1>11. ASSUME pc'[q] \in {"sync", "validate", "handles", "names", "tempname",
                          "destname", "rename"}
       PROVE  /\ Proven(q)'
              /\ (op[q] = "verify" => pc[q] = "names")'
              /\ (op[q] # "verify" =>
                   /\ Made(q) \/ (pc[q] = "validate" /\ content[q] = Garbage)
                   /\ pc[q] # "sync" => q \in synced)'
  <2>1. ~landed[q]
    BY <1>11 DEF Effect
  <2> QED
    BY <1>4, <1>5, <1>7, <1>11, <2>1 DEF Good
<1>12. /\ (result[q] = "verified" \/ landed[q] => Proven(q))'
       /\ (result[q] = "verified" => op[q] = "verify")'
  BY <1>4, <1>7 DEF Good
<1> QED
  BY <1>8, <1>9, <1>10, <1>11, <1>12 DEF Good


LEMMA StepApart ==
    ASSUME RInv, NEW p \in Proc, StepOf(p) \/ Kill(p), NEW q \in Proc \ {p}
    PROVE  Apart(q)
<1> USE InodeFacts DEF RInv, HInv, TInv
<1>1. CASE \/ CheckRead(p) \/ Validate(p) \/ RecheckHandles(p) \/ RecheckNames(p)
           \/ CheckTempName(p) \/ CheckDestName(p) \/ RenameError(p)
           \/ DecideSource(p) \/ DecideDestination(p) \/ Fail(p) \/ Kill(p)
  <2>1. Quiet(p)
    BY <1>1, QuietSteps
  <2> QED
    BY <2>1 DEF Quiet, Apart, Input
<1>2. CASE Open(p)
  BY <1>2 DEF Open, Apart, TypeOK, Goto, Answer, jobVars, diskVars
<1>3. CASE CreateTemp(p)
  BY <1>3 DEF CreateTemp, Apart, Input, TypeOK, Goto, Answer, jobVars, diskVars
<1>4. CASE ReadFirstHalf(p)
  BY <1>4 DEF ReadFirstHalf, Apart, TypeOK, Goto, Answer, jobVars, diskVars
<1>5. CASE SyncTemp(p)
  BY <1>5 DEF SyncTemp, Apart, TypeOK, Goto, Answer, jobVars, diskVars, SyncedBy
<1>6. CASE SyncDirectory(p)
  BY <1>6 DEF SyncDirectory, Apart, TypeOK, Goto, Answer, jobVars, diskVars
<1>7. CASE RenameOk(p)
  <2>1. Moved(p)
    BY <1>7 DEF RenameOk
  <2>2. pc'[q] = pc[q] /\ result'[q] = result[q]
    BY <1>7 DEF RenameOk, Rejected, Goto, Answer, TypeOK
  <2>3. missed'[q] = missed[q] \cup {"replaced"}
    BY <2>1 DEF Moved
  <2> QED
    BY <2>1, <2>2, <2>3, MovedFacts DEF Apart
<1>8. CASE RenameErrorLate(p)
  <2>1. Moved(p)
    BY <1>8 DEF RenameErrorLate
  <2>2. pc'[q] = pc[q] /\ result'[q] = result[q]
    BY <1>8 DEF RenameErrorLate, Rejected, Goto, Answer, TypeOK
  <2>3. missed'[q] = missed[q] \cup {"replaced"}
    BY <2>1 DEF Moved
  <2> QED
    BY <2>1, <2>2, <2>3, MovedFacts DEF Apart
<1>9. CASE ReadSecondHalf(p)
  <2>1. CASE Abandon(p)
    BY <2>1, AbandonQuiet DEF Quiet, Apart, Input
  <2>2. CASE ~Abandon(p)
    <3>1. \A i \in Inode \ {p} : content'[i] = content[i]
      BY <1>9, <2>2 DEF ReadSecondHalf, TypeOK
    <3>2. opened[q] # p
      BY <1>9 DEF ReadSecondHalf, Effect, Placed
    <3>3. /\ UNCHANGED <<synced, key, jobVars, landed>>
          /\ pc'[q] = pc[q] /\ result'[q] = result[q]
          /\ dir' = dir /\ missed' = missed
      BY <1>9, <2>2 DEF ReadSecondHalf, Goto, TypeOK
    <3> QED
      BY <3>1, <3>2, <3>3 DEF Apart, jobVars
  <2> QED
    BY <2>1, <2>2
<1> QED
  BY <1>1, <1>2, <1>3, <1>4, <1>5, <1>6, <1>7, <1>8, <1>9 DEF StepOf

LEMMA OthersApart ==
    ASSUME RInv, NEW q \in Proc,
           \/ EditInPlace \/ ReplaceInput \/ Rekey
           \/ \E p \in Proc : MeddleWithTemp(p)
           \/ \E p \in Proc \ {q} : Damage(p)
    PROVE  Apart(q)
<1> USE InodeFacts, TextFacts DEF RInv, HInv, TInv
<1>1. CASE EditInPlace
  <2>1. dir[Input] = q => landed[q]
    BY DEF Placed
  <2>2. /\ content' = [content EXCEPT ![dir[Input]] = Plain(events + 1)]
        /\ UNCHANGED <<dir, synced, key, pc, result, jobVars, landed>>
        /\ missed'[q] = missed[q] \cup {"edited"}
    BY <1>1 DEF EditInPlace, SomebodySaw
  <2> QED
    BY <2>1, <2>2 DEF Apart, TypeOK, jobVars
<1>2. CASE ReplaceInput \/ \E p \in Proc : MeddleWithTemp(p)
  <2>1. /\ content' = [content EXCEPT ![events + 1] = Plain(events + 1)]
        /\ synced \subseteq synced' /\ UNCHANGED <<key, pc, result, jobVars, landed>>
        /\ \/ missed'[q] = missed[q] \cup {"replaced"}
           \/ missed' = missed /\ dir'[Input] = dir[Input]
    BY <1>2 DEF ReplaceInput, MeddleWithTemp, SomebodySaw, TypeOK, Input
  <2>2. events + 1 \notin Proc /\ (opened[q] \in Inode => opened[q] # events + 1)
    BY DEF TypeOK, Bounded
  <2> QED
    BY <2>1, <2>2 DEF Apart, TypeOK, jobVars
<1>3. CASE Rekey
  BY <1>3 DEF Rekey, Apart, diskVars, jobVars
<1>4. CASE \E p \in Proc \ {q} : Damage(p)
  <2>1. PICK p \in Proc \ {q} : Damage(p)
    BY <1>4
  <2>2. opened[q] # p
    BY <2>1 DEF Damage, Effect, Placed
  <2> QED
    BY <2>1, <2>2 DEF Damage, Apart, TypeOK, jobVars
<1> QED
  BY <1>1, <1>2, <1>3, <1>4

LEMMA AbandonGood ==
    ASSUME RInv, NEW p \in Proc, Abandon(p) PROVE Good(p)'
<1>1. /\ pc'[p] = "done" /\ result'[p] = "error"
      /\ UNCHANGED <<op, snap, landed>>
  BY DEF RInv, HInv, TInv, TypeOK, Abandon, Answer, jobVars
<1> QED
  BY <1>1 DEF Good, Proven, RInv

LEMMA ActorGood ==
    ASSUME RInv, NEW p \in Proc, StepOf(p) \/ Kill(p) \/ Damage(p) PROVE Good(p)'
<1> USE InodeFacts, TextFacts DEF RInv, HInv, TInv
<1>1. Good(p) /\ (pc[p] \notin {"decide", "gone", "dirsync", "dirsync_warned", "done"}
                  => ~landed[p])
  BY DEF Effect
<1>2. CASE Open(p)
  <2>1. ~landed[p] /\ result[p] = "none"
    BY <1>2 DEF Open, Effect
  <2>2. Whole(dir[Input])
    BY <1>2 DEF Open, Sound, Input
  <2>3. snap'[p] = [content |-> content[dir[Input]], key |-> key]
        /\ landed' = landed /\ result'[p] # "verified"
        /\ pc'[p] \in {"read1", "stage", "done"}
    BY <1>2, <2>1 DEF Open, Goto, Answer, TypeOK
  <2> QED
    BY <2>1, <2>2, <2>3 DEF Good, Whole
<1>3. CASE CreateTemp(p)
  BY <1>1, <1>3 DEF CreateTemp, Goto, TypeOK, jobVars, Good, Proven
<1>4. CASE ReadFirstHalf(p)
  <2>1. /\ half'[p].content = content[opened[p]] /\ half'[p].key = key
        /\ pc'[p] = "read2"
        /\ UNCHANGED <<content, key, op, opened, snap, landed, result>>
    BY <1>4 DEF ReadFirstHalf, Goto, TypeOK, diskVars
  <2> QED
    BY <1>1, <1>4, <2>1 DEF Good, Proven, ReadFirstHalf
<1>5. CASE ReadSecondHalf(p)
  <2>1. CASE Abandon(p)
    BY <2>1, AbandonGood
  <2>2. CASE ~Abandon(p)
    <3> DEFINE now == IF Consistent(p) THEN content[opened[p]] ELSE Garbage
    <3>1. /\ pc'[p] = "check" /\ pc[p] = "read2"
          /\ UNCHANGED <<key, op, opened, snap, half, landed, result>>
          /\ op[p] \in {"verify", "unwrap"} => Authentic(now, KeyUsed(p))
          /\ op[p] # "verify" => content' = [content EXCEPT ![p] =
                IF now.text = Torn THEN Garbage ELSE Image(op[p], now, KeyUsed(p))]
          /\ op[p] = "verify" => content' = content
      BY <1>5, <2>2 DEF ReadSecondHalf, Goto, TypeOK, jobVars
    <3>2. opened[p] \in Inode /\ opened[p] # p /\ ~landed[p] /\ result[p] = "none"
      BY <1>1, <3>1 DEF Started, Placed, Effect
    <3>3. content'[opened[p]] = content[opened[p]]
      BY <3>1, <3>2 DEF TypeOK
    <3>4. snap[p].content.text # Torn
      BY <1>1, <3>1 DEF Good
    <3>5. ASSUME Same(p)'
          PROVE  (Proven(p) /\ (op[p] # "verify" => Made(p)))'
      <4>1. content[opened[p]] = snap[p].content /\ key = snap[p].key
        BY <3>1, <3>3, <3>5 DEF Same
      <4>2. half[p].content = snap[p].content /\ half[p].key = snap[p].key
        BY <1>1, <3>1, <4>1 DEF Good
      <4>3. now = snap[p].content
        BY <4>1, <4>2 DEF Consistent
      <4>4. KeyUsed(p) = snap[p].key
        BY <4>1 DEF KeyUsed
      <4>5. Proven(p)'
        BY <3>1, <4>3, <4>4 DEF Proven
      <4>6. op[p] # "verify" => content'[p] = Image(op[p], snap[p].content, snap[p].key)
        BY <3>1, <3>4, <4>3, <4>4 DEF TypeOK
      <4> QED
        BY <3>1, <4>5, <4>6 DEF Made
    <3> QED
      BY <3>1, <3>2, <3>4, <3>5 DEF Good
  <2> QED
    BY <2>1, <2>2
<1>6. CASE CheckRead(p)
  <2>1. CASE Abandon(p)
    BY <2>1, AbandonGood
  <2>2. CASE ~Abandon(p)
    <3>1. UNCHANGED <<content, synced, key, op, opened, snap, landed>>
      BY <1>6, QuietSteps DEF Quiet
    <3>2. /\ Unchanged(p) /\ pc[p] = "check" /\ result' = result
          /\ pc'[p] = IF op[p] = "verify" THEN "names" ELSE "sync"
      BY <1>6, <2>2 DEF CheckRead, Goto, Answer, TypeOK, diskVars
    <3> QED
      BY <1>1, <3>1, <3>2 DEF Good, Made, Proven, Same, Unchanged, Effect, Valid
  <2> QED
    BY <2>1, <2>2
<1>7. CASE SyncTemp(p)
  <2>1. /\ pc[p] = "sync" /\ pc'[p] \in {"handles", "validate"} /\ p \in synced'
        /\ UNCHANGED <<content, key, op, opened, snap, landed, result>>
    BY <1>7 DEF SyncTemp, SyncedBy, Goto, TypeOK, jobVars
  <2> QED
    BY <1>1, <2>1 DEF Good, Made, Proven
<1>8. CASE Validate(p)
  <2>1. CASE Abandon(p)
    BY <2>1, AbandonGood
  <2>2. CASE ~Abandon(p)
    <3>1. UNCHANGED <<content, synced, key, op, opened, snap, landed>>
      BY <1>8, QuietSteps DEF Quiet
    <3>2. /\ Valid(p) /\ pc[p] = "validate" /\ result' = result
          /\ pc'[p] = "handles"
      BY <1>8, <2>2 DEF Validate, Goto, Answer, TypeOK, diskVars
    <3> QED
      BY <1>1, <3>1, <3>2 DEF Good, Made, Proven, Same, Unchanged, Effect, Valid
  <2> QED
    BY <2>1, <2>2
<1>9. CASE RecheckHandles(p)
  <2>1. CASE Abandon(p)
    BY <2>1, AbandonGood
  <2>2. CASE ~Abandon(p)
    <3>1. UNCHANGED <<content, synced, key, op, opened, snap, landed>>
      BY <1>9, QuietSteps DEF Quiet
    <3>2. /\ pc[p] = "handles" /\ result' = result
          /\ pc'[p] = "names"
      BY <1>9, <2>2 DEF RecheckHandles, Goto, Answer, TypeOK, diskVars
    <3> QED
      BY <1>1, <3>1, <3>2 DEF Good, Made, Proven, Same, Unchanged, Effect, Valid
  <2> QED
    BY <2>1, <2>2
<1>10. CASE RecheckNames(p)
  <2>1. CASE Abandon(p)
    BY <2>1, AbandonGood
  <2>2. CASE ~Abandon(p)
    <3>1. UNCHANGED <<content, synced, key, op, opened, snap, landed>>
      BY <1>10, QuietSteps DEF Quiet
    <3>2. /\ pc[p] = "names"
          /\ \/ op[p] = "verify" /\ pc'[p] = "done"
             \/ op[p] # "verify" /\ pc'[p] = "tempname" /\ result' = result
      BY <1>10, <2>2 DEF RecheckNames, Goto, Answer, TypeOK, diskVars
    <3> QED
      BY <1>1, <3>1, <3>2 DEF Good, Made, Proven, Same, Unchanged, Effect, Valid
  <2> QED
    BY <2>1, <2>2
<1>11. CASE CheckTempName(p)
  <2>1. CASE Abandon(p)
    BY <2>1, AbandonGood
  <2>2. CASE ~Abandon(p)
    <3>1. UNCHANGED <<content, synced, key, op, opened, snap, landed>>
      BY <1>11, QuietSteps DEF Quiet
    <3>2. /\ pc[p] = "tempname" /\ result' = result
          /\ pc'[p] \in {"destname", "rename"}
      BY <1>11, <2>2 DEF CheckTempName, Goto, Answer, TypeOK, diskVars
    <3> QED
      BY <1>1, <3>1, <3>2 DEF Good, Made, Proven, Same, Unchanged, Effect, Valid
  <2> QED
    BY <2>1, <2>2
<1>12. CASE CheckDestName(p)
  <2>1. CASE Abandon(p)
    BY <2>1, AbandonGood
  <2>2. CASE ~Abandon(p)
    <3>1. UNCHANGED <<content, synced, key, op, opened, snap, landed>>
      BY <1>12, QuietSteps DEF Quiet
    <3>2. /\ pc[p] = "destname" /\ result' = result
          /\ pc'[p] = "rename"
      BY <1>12, <2>2 DEF CheckDestName, Goto, Answer, TypeOK, diskVars
    <3> QED
      BY <1>1, <3>1, <3>2 DEF Good, Made, Proven, Same, Unchanged, Effect, Valid
  <2> QED
    BY <2>1, <2>2
<1>13. CASE RenameOk(p)
  <2>1. /\ Moved(p) /\ pc[p] = "rename"
        /\ pc'[p] \in {"dirsync", "decide", "done"} /\ result'[p] # "verified"
    BY <1>1, <1>13 DEF RenameOk, Rejected, Goto, Answer, TypeOK, Effect
  <2>2. Proven(p) /\ snap[p].content.text # Torn
    BY <1>1, <2>1 DEF Good
  <2> QED
    BY <2>1, <2>2, MovedFacts DEF Good, Proven
<1>14. CASE RenameErrorLate(p)
  <2>1. /\ Moved(p) /\ pc[p] = "rename"
        /\ pc'[p] \in {"dirsync", "decide", "done"} /\ result'[p] # "verified"
    BY <1>1, <1>14 DEF RenameErrorLate, Rejected, Goto, Answer, TypeOK, Effect
  <2>2. Proven(p) /\ snap[p].content.text # Torn
    BY <1>1, <2>1 DEF Good
  <2> QED
    BY <2>1, <2>2, MovedFacts DEF Good, Proven
<1>15. CASE RenameError(p)
  <2>1. CASE Abandon(p)
    BY <2>1, AbandonGood
  <2>2. CASE ~Abandon(p)
    <3>1. UNCHANGED <<content, synced, key, op, opened, snap, landed>>
      BY <1>15, QuietSteps DEF Quiet
    <3>2. /\ pc[p] = "rename" /\ result' = result
          /\ pc'[p] = "decide"
      BY <1>15, <2>2 DEF RenameError, Rejected, Goto, Answer, TypeOK, diskVars
    <3> QED
      BY <1>1, <3>1, <3>2 DEF Good, Made, Proven, Same, Unchanged, Effect, Valid
  <2> QED
    BY <2>1, <2>2
<1>16. CASE DecideSource(p)
  <2>1. CASE Abandon(p)
    BY <2>1, AbandonGood
  <2>2. CASE ~Abandon(p)
    <3>1. UNCHANGED <<content, synced, key, op, opened, snap, landed>>
      BY <1>16, QuietSteps DEF Quiet
    <3>2. /\ pc[p] = "decide" /\ result' = result
          /\ pc'[p] \in {"kept", "gone"}
      BY <1>16, <2>2 DEF DecideSource, Goto, Answer, TypeOK, diskVars
    <3> QED
      BY <1>1, <3>1, <3>2 DEF Good, Made, Proven, Same, Unchanged, Effect, Valid
  <2> QED
    BY <2>1, <2>2
<1>17. CASE DecideDestination(p)
  <2>1. CASE Abandon(p)
    BY <2>1, AbandonGood
  <2>2. CASE ~Abandon(p)
    <3>1. UNCHANGED <<content, synced, key, op, opened, snap, landed>>
      BY <1>17, QuietSteps DEF Quiet
    <3>2. /\ pc[p] \in {"kept", "gone"}
          /\ \/ pc'[p] = "dirsync_warned" /\ result' = result
             \/ pc'[p] = "done" /\ result'[p] = "uncertain"
      BY <1>17, <2>2 DEF DecideDestination, Goto, Answer, TypeOK, diskVars
    <3> QED
      BY <1>1, <3>1, <3>2 DEF Good, Made, Proven, Same, Unchanged, Effect, Valid
  <2> QED
    BY <2>1, <2>2
<1>18. CASE SyncDirectory(p)
  <2>1. /\ pc[p] \in {"dirsync", "dirsync_warned"} /\ pc'[p] = "done"
        /\ result'[p] # "verified"
        /\ UNCHANGED <<content, key, op, opened, snap, landed>>
    BY <1>18 DEF SyncDirectory, Answer, NotDurable, TypeOK, jobVars
  <2> QED
    BY <1>1, <2>1 DEF Good, Proven
<1>19. CASE Fail(p)
  BY <1>1, <1>19, AbandonGood DEF Fail
<1>20. CASE Kill(p)
  <2>1. /\ pc'[p] = "done" /\ result'[p] = "killed"
        /\ UNCHANGED <<content, key, op, opened, snap, landed>>
    BY <1>20 DEF Kill, Answer, TypeOK, diskVars, jobVars
  <2> QED
    BY <1>1, <2>1 DEF Good, Proven
<1>21. CASE Damage(p)
  <2>1. /\ pc[p] = "validate" /\ content'[p] = Garbage
        /\ UNCHANGED <<synced, key, pc, op, opened, snap, landed, result>>
    BY <1>21 DEF Damage, TypeOK, jobVars
  <2> QED
    BY <1>1, <2>1 DEF Good, Proven
<1> QED
  BY <1>2, <1>3, <1>4, <1>5, <1>6, <1>7, <1>8, <1>9, <1>10, <1>11, <1>12,
     <1>13, <1>14, <1>15, <1>16, <1>17, <1>18, <1>19, <1>20, <1>21 DEF StepOf

LEMMA GoodStep ==
    ASSUME RInv, [Next]_vars, NEW q \in Proc PROVE Good(q)'
<1>1. CASE \E p \in Proc : StepOf(p) \/ Kill(p) \/ Damage(p)
  <2>1. PICK p \in Proc : StepOf(p) \/ Kill(p) \/ Damage(p)
    BY <1>1
  <2>2. CASE p = q
    BY <2>1, <2>2, ActorGood
  <2>3. CASE p # q
    <3>1. Apart(q)
      BY <2>1, <2>3, StepApart, OthersApart
    <3> QED
      BY <3>1, OthersGood
  <2> QED
    BY <2>2, <2>3
<1>2. CASE \/ EditInPlace \/ ReplaceInput \/ Rekey
           \/ \E p \in Proc : MeddleWithTemp(p)
  BY <1>2, OthersApart, OthersGood
<1>3. CASE PowerLoss
  <2>1. /\ pc'[q] \in {"idle", "done"}
        /\ result'[q] = "verified" => result[q] = "verified"
        /\ UNCHANGED <<op, snap, landed>>
    BY <1>3 DEF PowerLoss, jobVars, RInv, HInv, TInv, TypeOK
  <2> QED
    BY <2>1 DEF Good, Proven, RInv
<1>4. CASE UNCHANGED vars
  BY <1>4 DEF vars, jobVars, Good, Proven, Made, Same, RInv
<1> QED
  BY <1>1, <1>2, <1>3, <1>4 DEF Next

LEMMA Invariant == Spec => []RInv
<1>1. RInv /\ [Next]_vars => RInv'
  <2> SUFFICES ASSUME RInv, [Next]_vars PROVE RInv'
    OBVIOUS
  <2>1. HInv /\ TInv /\ Bounded /\ Placed
    BY DEF RInv, HInv
  <2>2. HInv' /\ Bounded' /\ Placed'
    BY <2>1, TypeStep, EffectStep, BoundedStep, PlacedStep DEF HInv
  <2>3. Sound' /\ \A q \in Proc : Good(q)'
    BY SoundStep, GoodStep
  <2> QED
    BY <2>2, <2>3 DEF RInv
<1> QED
  BY InitRInv, <1>1, PTL DEF Spec

\* The file is never torn, also after a power failure at any step.
THEOREM NeverHalfAFile == Spec => []NeverTorn
<1>1. RInv => NeverTorn
  <2> SUFFICES ASSUME Sound PROVE NeverTorn
    BY DEF RInv
  <2>1. Input \in Name /\ Input \notin Proc
    BY InodeFacts DEF Input
  <2> QED
    BY <2>1 DEF Sound, Whole, NeverTorn
<1> QED
  BY Invariant, <1>1, PTL

\* Nothing is called authentic, and no envelope stripped, under another key
\* than the one the tag was made with.
THEOREM OnlyUnderItsKey == Spec => []VerifiedUnderThisKey
<1>1. RInv => VerifiedUnderThisKey
  BY DEF RInv, Good, Proven, Authentic, HInv, Effect, VerifiedUnderThisKey
<1> QED
  BY Invariant, <1>1, PTL

LEMMA Lands ==
    ASSUME RInv, [Next]_vars, NEW p \in Proc, landed'[p], ~landed[p]
    PROVE  Moved(p) /\ pc[p] = "rename" /\ dir[p] = p
<1> USE DEF RInv, HInv, TInv
<1>1. landed' # landed
  OBVIOUS
<1>2. PICK q \in Proc : Moved(q) /\ pc[q] = "rename"
  BY <1>1 DEF Next, StepOf, Open, CreateTemp, ReadFirstHalf, ReadSecondHalf,
     CheckRead, SyncTemp, Validate, RecheckHandles, RecheckNames, CheckTempName,
     CheckDestName, RenameOk, RenameErrorLate, RenameError, DecideSource,
     DecideDestination, SyncDirectory, Fail, Abandon, MeddleWithTemp, Damage,
     Kill, EditInPlace, ReplaceInput, Rekey, PowerLoss, vars
<1>3. p = q
  BY <1>2, MovedFacts
<1> QED
  BY <1>2, <1>3, MovedFacts

\* What a rename puts under the file's name is the image, under one key, of the
\* whole file as it was when the call opened it.
THEOREM OnlyTheImageLands == Spec => LandsTheImage
<1>1. RInv /\ [Next]_vars =>
        [\A p \in Proc : landed'[p] /\ ~landed[p] =>
          content[p] = Image(op[p], snap[p].content, snap[p].key)]_vars
  <2> SUFFICES ASSUME RInv, [Next]_vars, NEW p \in Proc, landed'[p], ~landed[p]
               PROVE  Made(p)
    BY DEF Made
  <2>1. pc[p] = "rename"
    BY Lands
  <2> QED
    BY <2>1 DEF RInv, Good
<1> QED
  BY Invariant, <1>1, PTL DEF Spec, LandsTheImage
-----------------------------------------------------------------------------
(* Changes made by somebody else.                                          *)

\* What a call saw at its last look still holds, unless a change was made since.
Looked(p) ==
    /\ pc[p] \in {"sync", "validate", "handles", "names", "tempname", "destname",
                  "rename"} /\ "edited" \notin missed[p] =>
          content[opened[p]] = snap[p].content
    /\ pc[p] \in {"tempname", "destname", "rename"} /\ "replaced" \notin missed[p] =>
          dir[Input] = opened[p]

LEMMA OthersLooked ==
    ASSUME RInv, NEW q \in Proc, Apart(q), Looked(q) PROVE Looked(q)'
<1>1. pc[q] \notin {"idle", "done"} => opened[q] \in Inode
  BY DEF RInv, HInv, TInv, Started
<1> QED
  BY <1>1 DEF Apart, Looked

LEMMA ActorLooked ==
    ASSUME RInv, NEW p \in Proc, StepOf(p) \/ Kill(p) \/ Damage(p), Looked(p)
    PROVE  Looked(p)'
<1> USE InodeFacts DEF RInv, HInv, TInv
<1>1. CASE Open(p)
  <2>1. pc'[p] \in {"read1", "stage", "done"}
    BY <1>1 DEF Open, Goto, Answer, Abandon, Rejected, TypeOK
  <2> QED
    BY <2>1 DEF Looked
<1>2. CASE CreateTemp(p)
  <2>1. pc'[p] \in {"read1"}
    BY <1>2 DEF CreateTemp, Goto, Answer, Abandon, Rejected, TypeOK
  <2> QED
    BY <2>1 DEF Looked
<1>3. CASE ReadFirstHalf(p)
  <2>1. pc'[p] \in {"read2"}
    BY <1>3 DEF ReadFirstHalf, Goto, Answer, Abandon, Rejected, TypeOK
  <2> QED
    BY <2>1 DEF Looked
<1>4. CASE ReadSecondHalf(p)
  <2>1. pc'[p] \in {"check", "done"}
    BY <1>4 DEF ReadSecondHalf, Goto, Answer, Abandon, Rejected, TypeOK
  <2> QED
    BY <2>1 DEF Looked
<1>5. CASE RenameOk(p)
  <2>1. pc'[p] \in {"dirsync"}
    BY <1>5 DEF RenameOk, Goto, Answer, Abandon, Rejected, TypeOK
  <2> QED
    BY <2>1 DEF Looked
<1>6. CASE RenameErrorLate(p)
  <2>1. pc'[p] \in {"decide", "done"}
    BY <1>6 DEF RenameErrorLate, Goto, Answer, Abandon, Rejected, TypeOK
  <2> QED
    BY <2>1 DEF Looked
<1>7. CASE DecideSource(p)
  <2>1. pc'[p] \in {"kept", "gone"}
    BY <1>7 DEF DecideSource, Goto, Answer, Abandon, Rejected, TypeOK
  <2> QED
    BY <2>1 DEF Looked
<1>8. CASE DecideDestination(p)
  <2>1. pc'[p] \in {"dirsync_warned", "done"}
    BY <1>8 DEF DecideDestination, Goto, Answer, Abandon, Rejected, TypeOK
  <2> QED
    BY <2>1 DEF Looked
<1>9. CASE SyncDirectory(p)
  <2>1. pc'[p] \in {"done"}
    BY <1>9 DEF SyncDirectory, Goto, Answer, Abandon, Rejected, TypeOK
  <2> QED
    BY <2>1 DEF Looked
<1>10. CASE Fail(p)
  <2>1. pc'[p] \in {"done"}
    BY <1>10 DEF Fail, Goto, Answer, Abandon, Rejected, TypeOK
  <2> QED
    BY <2>1 DEF Looked
<1>11. CASE Kill(p)
  <2>1. pc'[p] \in {"done"}
    BY <1>11 DEF Kill, Goto, Answer, Abandon, Rejected, TypeOK
  <2> QED
    BY <2>1 DEF Looked
<1>12. CASE RenameError(p)
  <2>1. pc'[p] \in {"decide", "done"}
    BY <1>12 DEF RenameError, Goto, Answer, Abandon, Rejected, TypeOK
  <2> QED
    BY <2>1 DEF Looked
<1>13. CASE CheckRead(p)
  <2>1. CASE Abandon(p)
    BY <2>1, AbandonQuiet DEF Looked
  <2>2. CASE ~Abandon(p)
    <3>1. UNCHANGED <<dir, content, opened, snap>>
      BY <1>13, <2>2 DEF CheckRead, diskVars, jobVars
    <3>2. pc'[p] \in {"names", "sync"} /\ Unchanged(p)
      BY <1>13, <2>2 DEF CheckRead, Goto, Answer, TypeOK, Rejected
    <3> QED
      BY <3>1, <3>2 DEF Looked, Unchanged, StillNamed
  <2> QED
    BY <2>1, <2>2
<1>14. CASE SyncTemp(p)
  <2>1. /\ UNCHANGED <<content, opened, snap, missed>> /\ pc[p] = "sync"
        /\ pc'[p] \in {"handles", "validate"}
    BY <1>14 DEF SyncTemp, jobVars, Goto, TypeOK
  <2> QED
    BY <2>1 DEF Looked
<1>15. CASE Validate(p)
  <2>1. CASE Abandon(p)
    BY <2>1, AbandonQuiet DEF Looked
  <2>2. CASE ~Abandon(p)
    <3>1. UNCHANGED <<dir, content, opened, snap>>
      BY <1>15, <2>2 DEF Validate, diskVars, jobVars
    <3>2. pc[p] = "validate" /\ pc'[p] = "handles" /\ missed' = missed
      BY <1>15, <2>2 DEF Validate, Goto, Answer, TypeOK, Rejected
    <3> QED
      BY <3>1, <3>2 DEF Looked, Unchanged, StillNamed
  <2> QED
    BY <2>1, <2>2
<1>16. CASE RecheckHandles(p)
  <2>1. CASE Abandon(p)
    BY <2>1, AbandonQuiet DEF Looked
  <2>2. CASE ~Abandon(p)
    <3>1. UNCHANGED <<dir, content, opened, snap>>
      BY <1>16, <2>2 DEF RecheckHandles, diskVars, jobVars
    <3>2. pc'[p] = "names" /\ Unchanged(p)
      BY <1>16, <2>2 DEF RecheckHandles, Goto, Answer, TypeOK, Rejected
    <3> QED
      BY <3>1, <3>2 DEF Looked, Unchanged, StillNamed
  <2> QED
    BY <2>1, <2>2
<1>17. CASE RecheckNames(p)
  <2>1. CASE Abandon(p)
    BY <2>1, AbandonQuiet DEF Looked
  <2>2. CASE ~Abandon(p)
    <3>1. UNCHANGED <<dir, content, opened, snap>>
      BY <1>17, <2>2 DEF RecheckNames, diskVars, jobVars
    <3>2. /\ pc[p] = "names" /\ pc'[p] \in {"tempname", "done"}
          /\ StillNamed(p)
          /\ "edited" \in missed[p] => "edited" \in missed'[p]
      BY <1>17, <2>2 DEF RecheckNames, Goto, Answer, TypeOK, Rejected
    <3> QED
      BY <3>1, <3>2 DEF Looked, Unchanged, StillNamed
  <2> QED
    BY <2>1, <2>2
<1>18. CASE CheckTempName(p)
  <2>1. CASE Abandon(p)
    BY <2>1, AbandonQuiet DEF Looked
  <2>2. CASE ~Abandon(p)
    <3>1. UNCHANGED <<dir, content, opened, snap>>
      BY <1>18, <2>2 DEF CheckTempName, diskVars, jobVars
    <3>2. /\ pc[p] = "tempname" /\ pc'[p] \in {"destname", "rename"}
          /\ missed' = missed
      BY <1>18, <2>2 DEF CheckTempName, Goto, Answer, TypeOK, Rejected
    <3> QED
      BY <3>1, <3>2 DEF Looked, Unchanged, StillNamed
  <2> QED
    BY <2>1, <2>2
<1>19. CASE CheckDestName(p)
  <2>1. CASE Abandon(p)
    BY <2>1, AbandonQuiet DEF Looked
  <2>2. CASE ~Abandon(p)
    <3>1. UNCHANGED <<dir, content, opened, snap>>
      BY <1>19, <2>2 DEF CheckDestName, diskVars, jobVars
    <3>2. /\ pc[p] = "destname" /\ pc'[p] = "rename"
          /\ StillNamed(p)
          /\ "edited" \in missed[p] => "edited" \in missed'[p]
      BY <1>19, <2>2 DEF CheckDestName, Goto, Answer, TypeOK, Rejected
    <3> QED
      BY <3>1, <3>2 DEF Looked, Unchanged, StillNamed
  <2> QED
    BY <2>1, <2>2
<1>20. CASE Damage(p)
  <2>1. /\ UNCHANGED <<pc, opened, snap, missed>> /\ pc[p] = "validate"
        /\ \A i \in Inode \ {p} : content'[i] = content[i]
    BY <1>20 DEF Damage, jobVars, TypeOK
  <2>2. opened[p] \in Inode \ {p}
    BY <2>1 DEF Started, Placed, Effect
  <2> QED
    BY <2>1, <2>2 DEF Looked
<1> QED
  BY <1>1, <1>2, <1>3, <1>4, <1>5, <1>6, <1>7, <1>8, <1>9, <1>10, <1>11,
     <1>12, <1>13, <1>14, <1>15, <1>16, <1>17, <1>18, <1>19, <1>20 DEF StepOf

LEMMA LookedStep ==
    ASSUME RInv, [Next]_vars, NEW q \in Proc, Looked(q) PROVE Looked(q)'
<1>1. CASE \E p \in Proc : StepOf(p) \/ Kill(p) \/ Damage(p)
  <2>1. PICK p \in Proc : StepOf(p) \/ Kill(p) \/ Damage(p)
    BY <1>1
  <2>2. CASE p = q
    BY <2>1, <2>2, ActorLooked
  <2>3. CASE p # q
    BY <2>1, <2>3, StepApart, OthersApart, OthersLooked
  <2> QED
    BY <2>2, <2>3
<1>2. CASE \/ EditInPlace \/ ReplaceInput \/ Rekey
           \/ \E p \in Proc : MeddleWithTemp(p)
  BY <1>2, OthersApart, OthersLooked
<1>3. CASE PowerLoss
  <2>1. pc'[q] \in {"idle", "done"}
    BY <1>3 DEF PowerLoss
  <2> QED
    BY <2>1 DEF Looked
<1>4. CASE UNCHANGED vars
  BY <1>4 DEF vars, jobVars, Looked
<1> QED
  BY <1>1, <1>2, <1>3, <1>4 DEF Next

\* What a call overwrites is the file it read, unless somebody changed or
\* replaced it after the last look the code takes.
THEOREM LostOnlyWhenLate == Spec => OnlyLateChangesAreLost
<1>1. Init => \A p \in Proc : Looked(p)
  BY DEF Init, Looked
<1>2. Spec => [](\A p \in Proc : Looked(p))
  <2>1. RInv /\ (\A p \in Proc : Looked(p)) /\ [Next]_vars
            => (\A p \in Proc : Looked(p))'
    BY LookedStep
  <2> QED
    BY <1>1, <2>1, Invariant, PTL DEF Spec
<1>3. RInv /\ (\A p \in Proc : Looked(p)) /\ [Next]_vars =>
        [\A p \in Proc : landed'[p] /\ ~landed[p] =>
          \/ /\ dir[Input] = opened[p]
             /\ content[opened[p]] = snap[p].content
          \/ missed[p] # {}]_vars
  <2> SUFFICES ASSUME RInv, [Next]_vars, NEW p \in Proc, Looked(p),
                      landed'[p], ~landed[p], missed[p] = {}
               PROVE  /\ dir[Input] = opened[p]
                      /\ content[opened[p]] = snap[p].content
    OBVIOUS
  <2>1. pc[p] = "rename"
    BY Lands
  <2> QED
    BY <2>1 DEF Looked
<1> QED
  BY <1>2, <1>3, Invariant, PTL DEF Spec, OnlyLateChangesAreLost
-----------------------------------------------------------------------------
(* What was displaced stays away.                                          *)

\* The temporary name of a running call names what no other name names, and
\* what no call has opened; a file that was displaced has no way back.
Named ==
    /\ dir[Input] \in Inode /\ dirDisk[Input] \in Inode
    /\ \A p \in Proc : pc[p] = "idle" => dir[p] = None /\ dirDisk[p] = None
    /\ \A p \in Proc : pc[p] # "done" /\ dir[p] # None =>
          /\ \A n \in Name \ {p} : dir[n] # dir[p]
          /\ dirDisk[Input] # dir[p]
          /\ \A q \in Proc : opened[q] # dir[p]
Displaced ==
    \A p \in Proc :
        /\ pc[p] = "dirsync" => dir[Input] # opened[p]
        /\ result[p] = "committed" =>
              dir[Input] # opened[p] /\ dirDisk[Input] # opened[p]

LEMMA InitNamed == Init => Named /\ Displaced
  BY InodeFacts DEF Init, Named, Displaced, Input

LEMMA NamedStep ==
    ASSUME RInv, Named, Displaced, [Next]_vars PROVE Named' /\ Displaced'
<1> USE InodeFacts DEF RInv, HInv, TInv
<1>0. Input \in Name /\ Input \notin Proc
  BY DEF Input
<1>1. ASSUME NEW p \in Proc, \/ CheckRead(p) \/ Validate(p) \/ RecheckHandles(p) \/ RecheckNames(p)
           \/ CheckTempName(p) \/ CheckDestName(p) \/ RenameError(p)
           \/ DecideSource(p) \/ DecideDestination(p) \/ Fail(p) \/ Kill(p) PROVE Named' /\ Displaced'
  <2>1. Quiet(p)
    BY <1>1, QuietSteps
  <2>2. pc[p] # "done"
    BY <1>1 DEF CheckRead, Validate, RecheckHandles, RecheckNames, CheckTempName,
       CheckDestName, RenameError, DecideSource, DecideDestination, Fail, Kill
  <2>3. dir'[Input] = dir[Input] /\ UNCHANGED <<dirDisk, opened>>
    BY <1>0, <2>1 DEF Quiet
  <2>4. \A q \in Proc : /\ dir'[q] # None => dir'[q] = dir[q]
                        /\ pc'[q] = "idle" => pc[q] = "idle"
                        /\ pc[q] = "done" => pc'[q] = "done"
    BY <2>1, <2>2 DEF Quiet
  <2>5. Named'
    BY <2>1, <2>3, <2>4 DEF Named, Quiet, Name
  <2>6. Displaced'
    BY <2>1, <2>3 DEF Displaced, Quiet
  <2> QED
    BY <2>5, <2>6
<1>2. ASSUME NEW p \in Proc, Open(p) PROVE Named' /\ Displaced'
  <2>1. /\ UNCHANGED <<dir, dirDisk>> /\ dir[p] = None /\ pc[p] = "idle"
        /\ result[p] = "none" /\ result'[p] # "committed" /\ pc'[p] # "dirsync"
        /\ opened'[p] = dir[Input] /\ pc'[p] # "idle"
        /\ \A q \in Proc \ {p} : /\ opened'[q] = opened[q] /\ pc'[q] = pc[q]
                                 /\ result'[q] = result[q]
    BY <1>2 DEF Open, Goto, Answer, TypeOK, Named, Effect, diskVars
  <2>2. Named'
    BY <1>0, <2>1 DEF Named
  <2>3. Displaced'
    BY <2>1 DEF Displaced
  <2> QED
    BY <2>2, <2>3
<1>3. ASSUME NEW p \in Proc, CreateTemp(p) PROVE Named' /\ Displaced'
  <2>1. /\ \A m \in Name : dir'[m] = IF m = p THEN p ELSE dir[m]
        /\ pc[p] = "stage" /\ pc'[p] = "read1"
        /\ \A q \in Proc \ {p} : pc'[q] = pc[q]
        /\ UNCHANGED <<dirDisk, opened, result>>
    BY <1>3 DEF CreateTemp, Goto, TypeOK, jobVars
  <2>2. ~landed[p]
    BY <2>1 DEF Effect
  <2>3. /\ dir[Input] # p /\ dirDisk[Input] # p
        /\ \A q \in Proc : opened[q] # p /\ (q # p => dir[q] # p)
    BY <2>2 DEF Placed
  <2>4. Named'
    BY <1>0, <2>1, <2>3 DEF Named, Name
  <2>5. Displaced'
    BY <1>0, <2>1 DEF Displaced
  <2> QED
    BY <2>4, <2>5
<1>4. ASSUME NEW p \in Proc, ReadFirstHalf(p) PROVE Named' /\ Displaced'
  <2>1. Named'
    BY <1>0, <1>4
    DEF ReadFirstHalf, Goto, Answer, TypeOK, Named, Name, diskVars, jobVars
  <2>2. Displaced'
    BY <1>0, <1>4
    DEF ReadFirstHalf, Goto, Answer, TypeOK, Displaced, Effect, diskVars,
        jobVars
  <2> QED
    BY <2>1, <2>2
<1>5. ASSUME NEW p \in Proc, ReadSecondHalf(p) PROVE Named' /\ Displaced'
  <2>1. /\ \A m \in Name : dir'[m] = dir[m] \/ (m = p /\ dir'[m] = None)
        /\ UNCHANGED <<dirDisk, opened>> /\ pc[p] = "read2"
        /\ pc'[p] \in {"check", "done"} /\ result'[p] \in {result[p], "error"}
        /\ \A q \in Proc \ {p} : pc'[q] = pc[q] /\ result'[q] = result[q]
    <3>1. CASE Abandon(p)
      BY <1>5, <3>1, AbandonQuiet
      DEF ReadSecondHalf, Quiet, Abandon, Answer, TypeOK
    <3>2. CASE ~Abandon(p)
      BY <1>5, <3>2 DEF ReadSecondHalf, Goto, TypeOK, jobVars
    <3> QED
      BY <3>1, <3>2
  <2>2. Named'
    BY <1>0, <2>1 DEF Named, Name
  <2>3. Displaced'
    BY <1>0, <2>1 DEF Displaced
  <2> QED
    BY <2>2, <2>3
<1>6. ASSUME NEW p \in Proc, SyncTemp(p) PROVE Named' /\ Displaced'
  <2>1. Named'
    BY <1>0, <1>6
    DEF SyncTemp, Goto, Answer, TypeOK, Named, Name, diskVars, jobVars
  <2>2. Displaced'
    BY <1>0, <1>6
    DEF SyncTemp, Goto, Answer, TypeOK, Displaced, Effect, diskVars, jobVars
  <2> QED
    BY <2>1, <2>2
<1>7. ASSUME NEW p \in Proc, RenameOk(p) PROVE Named' /\ Displaced'
  <2>1. /\ Moved(p) /\ pc[p] = "rename" /\ result'[p] # "committed"
        /\ pc'[p] \in {"dirsync", "decide", "done"}
        /\ \A q \in Proc \ {p} : pc'[q] = pc[q] /\ result'[q] = result[q]
    BY <1>7 DEF RenameOk, Rejected, Goto, Answer, TypeOK, Effect
  <2>2. /\ dir'[Input] = dir[p] /\ dir[p] \in Inode /\ dir'[p] = None
        /\ \A q \in Proc \ {p} : dir'[q] = dir[q]
        /\ UNCHANGED <<dirDisk, opened>>
    BY <1>0, <2>1, MovedFacts DEF TypeOK, Name
  <2>3. Named'
    BY <1>0, <2>1, <2>2 DEF Named, Name
  <2>4. \A q \in Proc : dir'[Input] # opened[q]
    BY <2>1, <2>2 DEF Named
  <2>5. Displaced'
    BY <2>1, <2>2, <2>4 DEF Displaced
  <2> QED
    BY <2>3, <2>5
<1>8. ASSUME NEW p \in Proc, RenameErrorLate(p) PROVE Named' /\ Displaced'
  <2>1. /\ Moved(p) /\ pc[p] = "rename" /\ result'[p] # "committed"
        /\ pc'[p] \in {"dirsync", "decide", "done"}
        /\ \A q \in Proc \ {p} : pc'[q] = pc[q] /\ result'[q] = result[q]
    BY <1>8 DEF RenameErrorLate, Rejected, Goto, Answer, TypeOK, Effect
  <2>2. /\ dir'[Input] = dir[p] /\ dir[p] \in Inode /\ dir'[p] = None
        /\ \A q \in Proc \ {p} : dir'[q] = dir[q]
        /\ UNCHANGED <<dirDisk, opened>>
    BY <1>0, <2>1, MovedFacts DEF TypeOK, Name
  <2>3. Named'
    BY <1>0, <2>1, <2>2 DEF Named, Name
  <2>4. \A q \in Proc : dir'[Input] # opened[q]
    BY <2>1, <2>2 DEF Named
  <2>5. Displaced'
    BY <2>1, <2>2, <2>4 DEF Displaced
  <2> QED
    BY <2>3, <2>5
<1>9. ASSUME NEW p \in Proc, SyncDirectory(p) PROVE Named' /\ Displaced'
  <2>1. /\ dirDisk' \in {dir, dirDisk} /\ UNCHANGED <<dir, opened>>
        /\ pc[p] \in {"dirsync", "dirsync_warned"} /\ pc'[p] = "done"
        /\ result'[p] = "committed" => pc[p] = "dirsync" /\ dirDisk' = dir
        /\ \A q \in Proc \ {p} : pc'[q] = pc[q] /\ result'[q] = result[q]
    BY <1>9
    DEF SyncDirectory, DirectorySynced, NotDurable, Answer, TypeOK, jobVars
  <2>2. Named'
    BY <1>0, <2>1 DEF Named
  <2>3. Displaced'
    BY <2>1 DEF Displaced
  <2> QED
    BY <2>2, <2>3
<1>10. ASSUME NEW p \in Proc, MeddleWithTemp(p) PROVE Named' /\ Displaced'
  <2>1. /\ \A m \in Name \ {p} : dir'[m] = dir[m]
        /\ dir'[p] \in {None, events + 1} /\ dir[p] # None
        /\ UNCHANGED <<dirDisk, opened, pc, result>>
    BY <1>10 DEF MeddleWithTemp, jobVars, TypeOK
  <2>2. events + 1 \in Inode /\ events + 1 \notin Proc
    BY <1>10 DEF MeddleWithTemp, Happens, TypeOK, Inode
  <2>3. /\ \A m \in Name : dir[m] # events + 1 /\ dirDisk[m] # events + 1
        /\ \A q \in Proc : opened[q] # events + 1
    BY <2>2 DEF Bounded, TypeOK
  <2>4. Named'
    BY <1>0, <2>1, <2>3 DEF Named, Name
  <2>5. Displaced'
    BY <1>0, <2>1 DEF Displaced
  <2> QED
    BY <2>4, <2>5
<1>11. ASSUME NEW p \in Proc, Damage(p) PROVE Named' /\ Displaced'
  <2>1. Named'
    BY <1>0, <1>11
    DEF Damage, Goto, Answer, TypeOK, Named, Name, diskVars, jobVars
  <2>2. Displaced'
    BY <1>0, <1>11
    DEF Damage, Goto, Answer, TypeOK, Displaced, Effect, diskVars, jobVars
  <2> QED
    BY <2>1, <2>2
<1>12. ASSUME EditInPlace \/ Rekey \/ UNCHANGED vars PROVE Named' /\ Displaced'
  <2>1. UNCHANGED <<dir, dirDisk, opened, pc, result>>
    BY <1>12 DEF EditInPlace, Rekey, diskVars, jobVars, vars
  <2> QED
    BY <2>1 DEF Named, Displaced
<1>13. ASSUME ReplaceInput PROVE Named' /\ Displaced'
  <2>1. /\ \A m \in Name \ {Input} : dir'[m] = dir[m]
        /\ dir'[Input] = events + 1 /\ dirDisk'[Input] = events + 1
        /\ \A m \in Name \ {Input} : dirDisk'[m] = dirDisk[m]
        /\ UNCHANGED <<opened, pc, result>>
    BY <1>0, <1>13 DEF ReplaceInput, jobVars, TypeOK
  <2>2. events + 1 \in Inode /\ events + 1 \notin Proc
    BY <1>13 DEF ReplaceInput, Happens, TypeOK, Inode
  <2>3. /\ \A m \in Name : dir[m] # events + 1 /\ dirDisk[m] # events + 1
        /\ \A q \in Proc : opened[q] # events + 1
    BY <2>2 DEF Bounded, TypeOK
  <2>4. Named'
    BY <1>0, <2>1, <2>2, <2>3 DEF Named, Name
  <2>5. Displaced'
    BY <1>0, <2>1, <2>3 DEF Displaced
  <2> QED
    BY <2>4, <2>5
<1>14. ASSUME PowerLoss PROVE Named' /\ Displaced'
  <2>1. /\ \A m \in Name : dir'[m] \in {dir[m], dirDisk[m]} /\ dirDisk'[m] = dir'[m]
        /\ opened' = opened
        /\ \A q \in Proc : /\ pc'[q] \in {"idle", "done"}
                           /\ pc'[q] = "idle" => pc[q] = "idle"
                           /\ result'[q] = "committed" => result[q] = "committed"
    BY <1>14 DEF PowerLoss, jobVars, TypeOK
  <2>2. Named'
    BY <1>0, <2>1 DEF Named, Name
  <2>3. Displaced'
    BY <1>0, <2>1 DEF Displaced
  <2> QED
    BY <2>2, <2>3
<1> QED
  BY <1>1, <1>2, <1>3, <1>4, <1>5, <1>6, <1>7, <1>8, <1>9, <1>10, <1>11,
     <1>12, <1>13, <1>14 DEF Next, StepOf

LEMMA NamesInvariant == Spec => [](Named /\ Displaced)
<1>1. RInv /\ (Named /\ Displaced) /\ [Next]_vars => (Named /\ Displaced)'
  BY NamedStep
<1> QED
  BY <1>1, InitNamed, Invariant, PTL DEF Spec

\* What a call replaced does not come back after it reported success.
THEOREM SuccessLasts == Spec => []CommittedStays
<1>1. Named /\ Displaced => CommittedStays
  BY DEF Displaced, CommittedStays
<1> QED
  BY <1>1, NamesInvariant, PTL

\* Where only otp2 meets renames that report an error late, both answers of a
\* call hold: an error was not applied, and a success stays applied.
THEOREM AnswersAreHonest ==
    ASSUME Late \subseteq {"otp2"} PROVE Spec => []AnswersHold
<1>1. ErrorMeansNotApplied /\ CommittedStays => AnswersHold
  BY DEF AnswersHold
<1> QED
  BY <1>1, HonestErrors, SuccessLasts, PTL
-----------------------------------------------------------------------------
(* Refinement: every step is a step of ReplacePromise, or changes nothing   *)
(* there.                                                                  *)

\* Files that others made hold what they wrote into them.
Theirs ==
    \A i \in Inode \ Proc : i \in synced => \E t \in Text : content[i] = Plain(t)

Shown == content[dir[Input]]
Safe  == content[dirDisk[Input]]
PhaseAt(p) == IF pc[p] = "idle" THEN "idle"
              ELSE IF pc[p] = "done" THEN "over"
              ELSE IF landed[p] THEN "applied"
              ELSE IF pc[p] = "dirsync" THEN "displaced"
              ELSE "working"
Phases == [p \in Proc |-> PhaseAt(p)]
Views  == [p \in Proc |-> IF pc[p] = "idle" THEN Plain(0) ELSE snap[p].content]

PInv == /\ RInv /\ Named /\ Displaced /\ Theirs /\ ErrorMeansNotApplied
        /\ Late \subseteq {"otp2"}

\* What can change nothing or write a file of its own, keeps Theirs.
LEMMA TheirsStep ==
    ASSUME RInv, Theirs, [Next]_vars PROVE Theirs'
<1> USE InodeFacts DEF RInv, HInv, TInv
<1>1. ASSUME NEW p \in Proc,
           \/ CheckRead(p) \/ Validate(p) \/ RecheckHandles(p) \/ RecheckNames(p)
           \/ CheckTempName(p) \/ CheckDestName(p) \/ RenameError(p)
           \/ DecideSource(p) \/ DecideDestination(p) \/ Fail(p) \/ Kill(p)
      PROVE  Theirs'
  BY <1>1, QuietSteps DEF Quiet, Theirs
<1>2. ASSUME NEW p \in Proc, RenameOk(p) \/ RenameErrorLate(p) PROVE Theirs'
  BY <1>2, MovedFacts DEF RenameOk, RenameErrorLate, Theirs
<1>3. ASSUME NEW p \in Proc, Open(p) \/ CreateTemp(p) \/ ReadFirstHalf(p)
                             \/ SyncDirectory(p) PROVE Theirs'
  BY <1>3 DEF Open, CreateTemp, ReadFirstHalf, SyncDirectory, diskVars, Theirs
<1>4. ASSUME NEW p \in Proc, SyncTemp(p) PROVE Theirs'
  BY <1>4 DEF SyncTemp, SyncedBy, Theirs
<1>5. ASSUME NEW p \in Proc, ReadSecondHalf(p) \/ Damage(p) PROVE Theirs'
  <2>1. synced' = synced /\ \A i \in Inode \ {p} : content'[i] = content[i]
    BY <1>5 DEF ReadSecondHalf, Abandon, Damage, TypeOK
  <2> QED
    BY <2>1 DEF Theirs
<1>6. ASSUME EditInPlace \/ ReplaceInput \/ \E p \in Proc : MeddleWithTemp(p)
      PROVE  Theirs'
  <2>1. events + 1 \in Text
    BY <1>6 DEF EditInPlace, ReplaceInput, MeddleWithTemp, Happens, Text, TypeOK
  <2>2. PICK k \in Inode : /\ content' = [content EXCEPT ![k] = Plain(events + 1)]
                           /\ synced' \in {synced, synced \cup {k}}
    <3>1. dir[Input] # None => dir[Input] \in Inode
      BY DEF TypeOK
    <3>2. events + 1 \in 0..MaxEvents => events + 1 \in Inode
      BY DEF Inode
    <3> QED
      BY <1>6, <2>1, <3>1, <3>2
      DEF EditInPlace, ReplaceInput, MeddleWithTemp, Text
  <2>3. \A i \in Inode : \/ content'[i] = Plain(events + 1)
                         \/ content'[i] = content[i] /\ (i \in synced' => i \in synced)
    BY <2>2 DEF TypeOK
  <2> QED
    BY <2>1, <2>3 DEF Theirs
<1>7. ASSUME Rekey \/ UNCHANGED vars PROVE Theirs'
  BY <1>7 DEF Rekey, diskVars, vars, Theirs
<1>8. ASSUME PowerLoss PROVE Theirs'
  BY <1>8 DEF PowerLoss, Theirs
<1> QED
  BY <1>1, <1>2, <1>3, <1>4, <1>5, <1>6, <1>7, <1>8 DEF Next, StepOf

LEMMA InitPromise == Init => Promise!Init
<1> SUFFICES ASSUME Init PROVE Promise!Init
  OBVIOUS
<1>1. Shown = Plain(0) /\ Safe = Plain(0)
  BY InodeFacts DEF Init, Shown, Safe, Input
<1>2. 0 \in Text
  BY InodeFacts DEF Text
<1> QED
  BY <1>1, <1>2 DEF Init, Promise!Init, Shown, Safe

\* How the steps of a call show.
LEMMA StutterMap ==
    ASSUME UNCHANGED <<Shown, Safe, Phases, Views, result>>
    PROVE  UNCHANGED Promise!vars
  BY DEF Promise!vars, Shown, Safe, Phases, PhaseAt, Views

LEMMA AskMap ==
    ASSUME NEW p \in Proc, Phases[p] = "idle", NEW r,
           Phases' = [Phases EXCEPT ![p] = r], Views' = [Views EXCEPT ![p] = Shown],
           UNCHANGED <<Shown, Safe>>,
           \/ r = "working" /\ result' = result
           \/ r = "over" /\ result' = [result EXCEPT ![p] = "error"]
    PROVE  Promise!Ask(p) \/ Promise!Refuse(p)
  BY DEF Promise!Ask, Promise!Refuse, Shown, Safe, Phases, PhaseAt, Views

LEMMA ApplyMap ==
    ASSUME NEW p \in Proc, Phases[p] = "working",
           Phases' = [Phases EXCEPT ![p] = "applied"],
           Turned(Views[p], Shown'), UNCHANGED <<Safe, Views, result>>
    PROVE  Promise!Apply(p)
  BY DEF Promise!Apply, Shown, Safe, Phases, PhaseAt, Views

LEMMA DisplaceMap ==
    ASSUME NEW p \in Proc, Phases[p] = "working",
           Phases' = [Phases EXCEPT ![p] = "displaced"],
           \E t \in Text : Shown' = Plain(t), UNCHANGED <<Safe, Views, result>>
    PROVE  Promise!Displace(p)
  BY DEF Promise!Displace, Shown, Safe, Phases, PhaseAt, Views

LEMMA AnswerMap ==
    ASSUME NEW p \in Proc, Phases[p] \in {"working", "applied", "displaced"},
           NEW r \in {"committed", "uncertain", "error", "verified", "killed"},
           Phases' = [Phases EXCEPT ![p] = "over"],
           result' = [result EXCEPT ![p] = r],
           r \in {"error", "verified"} => Phases[p] # "applied",
           r = "committed" => Phases[p] # "working" /\ Safe' = Shown,
           Safe' \in {Safe, Shown}, UNCHANGED <<Shown, Views>>
    PROVE  Promise!Answer(p)
  BY DEF Promise!Answer, Shown, Safe, Phases, PhaseAt, Views

LEMMA EditMap ==
    ASSUME \E t \in Text : Shown' = Plain(t), Safe' \in {Safe, Shown'},
           UNCHANGED <<Phases, Views, result>>
    PROVE  Promise!Edit
  BY DEF Promise!Edit, Shown, Safe, Phases, PhaseAt, Views

LEMMA LoseMap ==
    ASSUME Shown' \in {Shown, Safe}, Safe' = Shown', Views' = Views,
           Phases' = [p \in Proc |-> IF Phases[p] = "idle" THEN "idle" ELSE "over"],
           result' = [p \in Proc |-> IF Phases[p] \in {"idle", "over"}
                                     THEN result[p] ELSE "killed"]
    PROVE  Promise!Lose
  BY DEF Promise!Lose, Shown, Safe, Phases, PhaseAt, Views

\* A step of p shows in the phase of p alone.
LEMMA OnePhase ==
    ASSUME NEW p \in Proc,
           \A q \in Proc \ {p} : pc'[q] = pc[q] /\ landed'[q] = landed[q]
    PROVE  Phases' = [Phases EXCEPT ![p] = PhaseAt(p)']
  BY DEF Phases, PhaseAt

LEMMA SameView ==
    ASSUME NEW p \in Proc, pc[p] # "idle", pc'[p] # "idle", snap' = snap,
           \A q \in Proc \ {p} : pc'[q] = pc[q]
    PROVE  Views' = Views
  BY DEF Views

\* A call that stops without having renamed anything.
LEMMA AbandonMap ==
    ASSUME PInv, NEW p \in Proc, Abandon(p), ErrorMeansNotApplied',
           pc[p] \notin {"idle", "done"}
    PROVE  Promise!Answer(p)
<1> USE InodeFacts DEF PInv, RInv, HInv, TInv
<1>1. /\ pc'[p] = "done" /\ result' = [result EXCEPT ![p] = "error"]
      /\ result'[p] = "error"
      /\ \A q \in Proc \ {p} : pc'[q] = pc[q] /\ landed'[q] = landed[q]
      /\ UNCHANGED <<dirDisk, content, landed, snap>>
  BY DEF Abandon, Answer, TypeOK, jobVars
<1>2. dir'[Input] = dir[Input]
  BY AbandonQuiet DEF Quiet, Input
<1>3. UNCHANGED <<Shown, Safe>>
  BY <1>1, <1>2 DEF Shown, Safe
<1>4. Views' = Views
  BY <1>1, SameView
<1>5. Phases' = [Phases EXCEPT ![p] = "over"]
  BY <1>1, OnePhase DEF PhaseAt
<1>6. ~landed[p]
  BY <1>1 DEF ErrorMeansNotApplied
<1>7. Phases[p] \in {"working", "applied", "displaced"} /\ Phases[p] # "applied"
  BY <1>6 DEF Phases, PhaseAt
<1> QED
  BY <1>1, <1>3, <1>4, <1>5, <1>7, AnswerMap

LEMMA QuietMap ==
    ASSUME PInv, NEW p \in Proc, ErrorMeansNotApplied',
           \/ CheckRead(p) \/ Validate(p) \/ RecheckHandles(p) \/ RecheckNames(p)
           \/ CheckTempName(p) \/ CheckDestName(p) \/ RenameError(p)
           \/ DecideSource(p) \/ DecideDestination(p) \/ Fail(p) \/ Kill(p)
    PROVE  Promise!Answer(p) \/ UNCHANGED Promise!vars
<1> USE InodeFacts DEF PInv, RInv, HInv, TInv
<1>1. Quiet(p) /\ pc[p] \notin {"idle", "done"}
  BY QuietSteps
  DEF CheckRead, Validate, RecheckHandles, RecheckNames, CheckTempName, CheckDestName,
      RenameError, DecideSource, DecideDestination, Fail, Kill
<1>2. CASE Abandon(p)
  BY <1>1, <1>2, AbandonMap
<1>3. CASE ~Abandon(p)
  <2>1. \/ /\ pc'[p] # "done" /\ result' = result /\ pc[p] # "dirsync"
        \/ \E r \in {"uncertain", "verified", "killed"} :
              /\ pc'[p] = "done" /\ result' = [result EXCEPT ![p] = r]
              /\ r = "verified" => pc[p] = "names"
    BY <1>3
    DEF CheckRead, Validate, RecheckHandles, RecheckNames, CheckTempName, CheckDestName,
        RenameError, DecideSource, DecideDestination, Fail, Kill, Goto, Answer,
        Rejected, TypeOK
  <2>2. UNCHANGED <<Shown, Safe>>
    BY <1>1 DEF Quiet, Shown, Safe, Input
  <2>3. Views' = Views
    BY <1>1, SameView DEF Quiet
  <2>4. Phases' = [Phases EXCEPT ![p] = PhaseAt(p)']
    BY <1>1, OnePhase DEF Quiet
  <2>5. CASE pc'[p] # "done"
    <3>1. PhaseAt(p)' = PhaseAt(p) /\ result' = result
      BY <1>1, <2>1, <2>5 DEF Quiet, PhaseAt
    <3>2. Phases' = Phases
      BY <2>4, <3>1 DEF Phases
    <3> QED
      BY <2>2, <2>3, <3>1, <3>2, StutterMap
  <2>6. CASE pc'[p] = "done"
    <3>1. PICK r \in {"uncertain", "verified", "killed"} :
              /\ result' = [result EXCEPT ![p] = r]
              /\ r = "verified" => pc[p] = "names"
      BY <2>1, <2>6
    <3>2. PhaseAt(p)' = "over" /\ Phases[p] \in {"working", "applied", "displaced"}
      BY <1>1, <2>6 DEF PhaseAt, Phases
    <3>3. r = "verified" => Phases[p] # "applied"
      BY <3>1 DEF Phases, PhaseAt, Effect
    <3> QED
      BY <2>2, <2>3, <2>4, <3>1, <3>2, <3>3, AnswerMap
  <2> QED
    BY <2>5, <2>6
<1> QED
  BY <1>2, <1>3

\* Staging, reading, writing and synchronising the temporary file.
LEMMA HiddenMap ==
    ASSUME PInv, NEW p \in Proc, ErrorMeansNotApplied',
           \/ CreateTemp(p) \/ ReadFirstHalf(p) \/ ReadSecondHalf(p) \/ SyncTemp(p)
           \/ Damage(p) \/ MeddleWithTemp(p)
    PROVE  Promise!Answer(p) \/ UNCHANGED Promise!vars
<1> USE InodeFacts DEF PInv, RInv, HInv, TInv
<1>1. CASE Abandon(p)
  <2>1. pc'[p] = "done" /\ events' = events
    BY <1>1 DEF Abandon, Answer, TypeOK
  <2>2. ReadSecondHalf(p)
    BY <2>1
    DEF CreateTemp, ReadFirstHalf, SyncTemp, Damage, MeddleWithTemp, Happens,
       Goto, TypeOK
  <2>3. pc[p] = "read2"
    BY <2>2 DEF ReadSecondHalf
  <2> QED
    BY <1>1, <2>3, AbandonMap
<1>2. CASE ~Abandon(p) /\ ~MeddleWithTemp(p)
  <2>1. /\ pc[p] \notin {"idle", "done", "decide", "gone", "dirsync", "dirsync_warned"}
        /\ pc'[p] \notin {"idle", "done", "dirsync"}
        /\ \A q \in Proc \ {p} : pc'[q] = pc[q]
        /\ UNCHANGED <<dirDisk, landed, snap, result>>
        /\ dir'[Input] = dir[Input]
        /\ \A i \in Inode \ {p} : content'[i] = content[i]
    BY <1>2 DEF CreateTemp, ReadFirstHalf, ReadSecondHalf, SyncTemp, Damage, Goto,
       TypeOK, diskVars, jobVars, Input
  <2>2. ~landed[p]
    BY <2>1 DEF Effect
  <2>3. dir[Input] # p /\ dirDisk[Input] # p
    BY <2>2 DEF Placed
  <2>4. UNCHANGED <<Shown, Safe>>
    BY <2>1, <2>3 DEF Shown, Safe, Named
  <2>5. Views' = Views
    BY <2>1, SameView
  <2>6. Phases' = Phases
    BY <2>1, <2>2 DEF Phases, PhaseAt
  <2> QED
    BY <2>1, <2>4, <2>5, <2>6, StutterMap
<1>3. CASE MeddleWithTemp(p)
  <2>1. UNCHANGED <<dirDisk, pc, landed, snap, result>> /\ dir'[Input] = dir[Input]
    BY <1>3 DEF MeddleWithTemp, jobVars, TypeOK, Input
  <2>2. \A i \in Inode \ {events + 1} : content'[i] = content[i]
    BY <1>3 DEF MeddleWithTemp, TypeOK
  <2>3. events + 1 \notin Proc /\ dir[Input] # events + 1 /\ dirDisk[Input] # events + 1
    BY DEF TypeOK, Bounded, Named
  <2>4. UNCHANGED <<Shown, Safe>>
    BY <2>1, <2>2, <2>3 DEF Shown, Safe, Named
  <2>5. Views' = Views /\ Phases' = Phases
    BY <2>1 DEF Views, Phases, PhaseAt
  <2> QED
    BY <2>1, <2>4, <2>5, StutterMap
<1> QED
  BY <1>1, <1>2, <1>3

LEMMA OpenMap ==
    ASSUME PInv, NEW p \in Proc, Open(p) PROVE Promise!Ask(p) \/ Promise!Refuse(p)
<1> USE InodeFacts DEF PInv, RInv, HInv, TInv
<1>1. /\ pc[p] = "idle" /\ snap'[p].content = Shown
      /\ \A q \in Proc \ {p} : pc'[q] = pc[q] /\ snap'[q] = snap[q]
      /\ UNCHANGED <<dir, dirDisk, content, landed>>
      /\ \/ pc'[p] \in {"read1", "stage"} /\ result' = result
         \/ pc'[p] = "done" /\ result' = [result EXCEPT ![p] = "error"]
  BY DEF Open, Goto, Answer, TypeOK, diskVars, Shown
<1>2. ~landed[p]
  BY <1>1 DEF Effect
<1>3. Phases' = [Phases EXCEPT ![p] = PhaseAt(p)'] /\ Phases[p] = "idle"
  BY <1>1, OnePhase DEF Phases, PhaseAt
<1>4. Views' = [Views EXCEPT ![p] = Shown]
  BY <1>1 DEF Views
<1>5. UNCHANGED <<Shown, Safe>>
  BY <1>1 DEF Shown, Safe
<1>6. \/ PhaseAt(p)' = "working" /\ result' = result
      \/ PhaseAt(p)' = "over" /\ result' = [result EXCEPT ![p] = "error"]
  BY <1>1, <1>2 DEF PhaseAt
<1> QED
  BY <1>3, <1>4, <1>5, <1>6, AskMap

LEMMA RenameMap ==
    ASSUME PInv, NEW p \in Proc, RenameOk(p) \/ RenameErrorLate(p)
    PROVE  Promise!Apply(p) \/ Promise!Displace(p) \/ Promise!Edit
<1> USE InodeFacts DEF PInv, RInv, HInv, TInv
<1>1. /\ Moved(p) /\ pc[p] = "rename" /\ result' = result
      /\ pc'[p] \in {"dirsync", "decide"}
      /\ \A q \in Proc \ {p} : pc'[q] = pc[q]
  <2>1. CASE RenameOk(p)
    BY <2>1 DEF RenameOk, Goto, TypeOK
  <2>2. CASE RenameErrorLate(p)
    <3>1. tool = "otp2"
      BY <2>2 DEF RenameErrorLate
    <3> QED
      BY <2>2, <3>1 DEF RenameErrorLate, Rejected, Goto, TypeOK
  <2> QED
    BY <2>1, <2>2
<1>2. /\ Shown' = content[dir[p]] /\ Safe' = Safe /\ dir[p] # None
      /\ landed'[p] <=> dir[p] = p
      /\ \A q \in Proc \ {p} : landed'[q] = landed[q]
      /\ UNCHANGED <<op, snap>>
  BY <1>1, MovedFacts DEF Shown, Safe
<1>3. Views' = Views /\ Views[p] = snap[p].content
  BY <1>1, <1>2, SameView DEF Views
<1>4. Phases' = [Phases EXCEPT ![p] = PhaseAt(p)'] /\ Phases[p] = "working"
  BY <1>1, <1>2, OnePhase DEF Phases, PhaseAt, Effect
<1>5. CASE dir[p] = p
  <2>1. PhaseAt(p)' = "applied"
    BY <1>1, <1>2, <1>5 DEF PhaseAt
  <2>2. Made(p) /\ op[p] \in AllOps
    BY <1>1 DEF Good, Started, OpsOf, AllOps
  <2>3. Turned(Views[p], Shown')
    <3>1. snap[p].key \in Key
      BY DEF TypeOK, View
    <3>2. Shown' = Image(op[p], Views[p], snap[p].key)
      BY <1>2, <1>3, <1>5, <2>2 DEF Made
    <3> QED
      BY <2>2, <3>1, <3>2 DEF Turned
  <2> QED
    BY <1>1, <1>2, <1>3, <1>4, <2>1, <2>3, ApplyMap
<1>6. CASE dir[p] # p
  <2>1. dir[p] \in Inode \ Proc /\ dir[p] \in synced
    BY <1>2, <1>6 DEF TypeOK, Name, Placed, Sound, Whole
  <2>2. \E t \in Text : Shown' = Plain(t)
    BY <1>2, <2>1 DEF Theirs
  <2>3. PhaseAt(p)' = IF pc'[p] = "dirsync" THEN "displaced" ELSE "working"
    BY <1>1, <1>2, <1>6 DEF PhaseAt
  <2>4. CASE pc'[p] = "dirsync"
    BY <1>1, <1>2, <1>3, <1>4, <2>2, <2>3, <2>4, DisplaceMap
  <2>5. CASE pc'[p] # "dirsync"
    <3>1. PhaseAt(p)' = PhaseAt(p)
      BY <1>1, <1>4, <2>3, <2>5 DEF Phases
    <3>2. \A q \in Proc : PhaseAt(q)' = PhaseAt(q)
      BY <1>1, <1>2, <3>1 DEF PhaseAt
    <3>3. Phases' = Phases
      BY <3>2 DEF Phases
    <3> QED
      BY <1>1, <1>2, <1>3, <2>2, <3>3, EditMap
  <2> QED
    BY <2>4, <2>5
<1> QED
  BY <1>5, <1>6

LEMMA SyncDirectoryMap ==
    ASSUME PInv, NEW p \in Proc, SyncDirectory(p) PROVE Promise!Answer(p)
<1> USE InodeFacts DEF PInv, RInv, HInv, TInv
<1>1. PICK r \in {"committed", "uncertain"} :
         /\ pc[p] \in {"dirsync", "dirsync_warned"} /\ pc'[p] = "done"
         /\ result' = [result EXCEPT ![p] = r]
         /\ dirDisk' \in {dir, dirDisk}
         /\ r = "committed" => pc[p] = "dirsync" /\ dirDisk' = dir
         /\ \A q \in Proc \ {p} : pc'[q] = pc[q] /\ landed'[q] = landed[q]
         /\ UNCHANGED <<dir, content, snap>>
  BY DEF SyncDirectory, DirectorySynced, NotDurable, Answer, TypeOK, jobVars
<1>2. Shown' = Shown /\ Safe' \in {Safe, Shown} /\ (r = "committed" => Safe' = Shown)
  BY <1>1 DEF Shown, Safe
<1>3. Views' = Views
  BY <1>1, SameView
<1>4. Phases' = [Phases EXCEPT ![p] = "over"]
  BY <1>1, OnePhase DEF PhaseAt
<1>5. /\ Phases[p] \in {"working", "applied", "displaced"}
      /\ r = "committed" => Phases[p] # "working"
  BY <1>1 DEF Phases, PhaseAt
<1> QED
  BY <1>1, <1>2, <1>3, <1>4, <1>5, AnswerMap

LEMMA OthersMap ==
    ASSUME PInv, PInv', EditInPlace \/ ReplaceInput \/ Rekey \/ UNCHANGED vars
    PROVE  Promise!Edit \/ UNCHANGED Promise!vars
<1> USE InodeFacts DEF PInv, RInv, HInv, TInv
<1>1. UNCHANGED <<pc, landed, snap, result>>
  BY DEF EditInPlace, ReplaceInput, Rekey, jobVars, vars
<1>2. Views' = Views /\ Phases' = Phases
  BY <1>1 DEF Views, Phases, PhaseAt
<1>3. CASE Rekey \/ UNCHANGED vars
  <2>1. UNCHANGED <<Shown, Safe>>
    BY <1>3 DEF Rekey, diskVars, vars, Shown, Safe
  <2> QED
    BY <1>1, <1>2, <2>1, StutterMap
<1>4. CASE EditInPlace
  <2>1. events + 1 \in Text
    BY <1>4 DEF EditInPlace, Happens, TypeOK, Text
  <2>2. Shown' = Plain(events + 1) /\ Safe' \in {Safe, Shown'}
    BY <1>4 DEF EditInPlace, Shown, Safe, TypeOK, Named
  <2> QED
    BY <1>1, <1>2, <2>1, <2>2, EditMap
<1>5. CASE ReplaceInput
  <2>1. events + 1 \in Text /\ events + 1 \in Inode
    BY <1>5 DEF ReplaceInput, Happens, TypeOK, Text, Inode
  <2>2. Shown' = Plain(events + 1) /\ Safe' = Shown'
    BY <1>5, <2>1 DEF ReplaceInput, Shown, Safe, TypeOK
  <2> QED
    BY <1>1, <1>2, <2>1, <2>2, EditMap
<1> QED
  BY <1>3, <1>4, <1>5

LEMMA PowerLossMap ==
    ASSUME PInv, PowerLoss PROVE Promise!Lose
<1> USE InodeFacts DEF PInv, RInv, HInv, TInv
<1>1. /\ dir'[Input] \in {dir[Input], dirDisk[Input]} /\ dirDisk' = dir'
      /\ \A i \in synced : content'[i] = content[i]
      /\ UNCHANGED <<landed, snap>>
  BY DEF PowerLoss, jobVars, TypeOK
<1>2. dir[Input] \in synced /\ dirDisk[Input] \in synced
  BY DEF Named, Sound, Whole, Input
<1>3. Shown' \in {Shown, Safe} /\ Safe' = Shown'
  BY <1>1, <1>2 DEF Shown, Safe
<1>4. /\ pc' = [p \in Proc |-> IF pc[p] = "idle" THEN "idle" ELSE "done"]
      /\ result' = [p \in Proc |-> IF pc[p] \in {"idle", "done"} THEN result[p]
                                   ELSE "killed"]
  BY DEF PowerLoss
<1>5. Views' = Views
  BY <1>1, <1>4 DEF Views
<1>6. Phases' = [p \in Proc |-> IF Phases[p] = "idle" THEN "idle" ELSE "over"]
  BY <1>4 DEF Phases, PhaseAt
<1>7. result' = [p \in Proc |-> IF Phases[p] \in {"idle", "over"}
                                THEN result[p] ELSE "killed"]
  BY <1>4 DEF Phases, PhaseAt
<1> QED
  BY <1>3, <1>5, <1>6, <1>7, LoseMap

LEMMA NextPromise ==
    ASSUME PInv, PInv', [Next]_vars PROVE [Promise!Next]_Promise!vars
<1>1. ErrorMeansNotApplied'
  BY DEF PInv
<1>2. ASSUME NEW p \in Proc, StepOf(p) \/ MeddleWithTemp(p) \/ Damage(p) \/ Kill(p)
      PROVE  \/ Promise!Ask(p) \/ Promise!Refuse(p) \/ Promise!Apply(p)
             \/ Promise!Displace(p) \/ Promise!Answer(p)
             \/ Promise!Edit \/ UNCHANGED Promise!vars
  BY <1>1, <1>2, QuietMap, HiddenMap, OpenMap, RenameMap, SyncDirectoryMap
  DEF StepOf
<1>3. CASE EditInPlace \/ ReplaceInput \/ Rekey \/ UNCHANGED vars
  BY <1>3, OthersMap DEF Promise!Next
<1>4. CASE PowerLoss
  BY <1>4, PowerLossMap DEF Promise!Next
<1> QED
  BY <1>2, <1>3, <1>4 DEF Next, Promise!Next

\* Where only otp2 meets renames that report an error late, the tools keep the
\* promise: a call takes effect at most once and at one moment, "error" is
\* answered only by a call that never takes effect, "committed" only by one
\* whose effect is on disk.
THEOREM ImplementsPromise ==
    ASSUME Late \subseteq {"otp2"} PROVE Spec => KeepsThePromise
<1>1. Spec => []Theirs
  <2>1. Init => Theirs
    <3>1. 0 \in Text
      BY InodeFacts DEF Text
    <3> QED
      BY <3>1, InodeFacts DEF Init, Theirs
  <2>2. RInv /\ Theirs /\ [Next]_vars => Theirs'
    BY TheirsStep
  <2> QED
    BY <2>1, <2>2, Invariant, PTL DEF Spec
<1>2. Spec => []ErrorMeansNotApplied
  BY HonestErrors
<1>3. RInv /\ (Named /\ Displaced) /\ Theirs /\ ErrorMeansNotApplied => PInv
  BY DEF PInv
<1>4. Spec => []PInv
  BY <1>1, <1>2, <1>3, Invariant, NamesInvariant, PTL
<1>5. PInv /\ PInv' /\ [Next]_vars => [Promise!Next]_Promise!vars
  BY NextPromise
<1>6. Spec => Promise!Init /\ [][Promise!Next]_Promise!vars
  BY <1>4, <1>5, InitPromise, PTL DEF Spec
<1> QED
  BY <1>6 DEF KeepsThePromise, Promise!Spec
=============================================================================

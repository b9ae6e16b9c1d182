---------------------------- MODULE KeySet_proofs ----------------------------
(* Proofs about KeySet, for any number of processes, keys, files of other  *)
(* programs and power failures.                                            *)
EXTENDS KeySet, TLAPS

LEMMA Basics ==
    /\ 1 \in KeyName /\ NKeys \in KeyName /\ NKeys \in Int
    /\ \A k \in KeyName : k \in Int /\ 1 <= k /\ k <= NKeys
    /\ \A k \in KeyName : k < NKeys => k + 1 \in KeyName
    /\ Good \in Maker /\ Junk \in Maker /\ Proc \subseteq Maker
    /\ Good \notin Proc /\ Junk \notin Proc /\ None \notin Proc
    /\ None \notin Maker /\ Good # Junk
BY KeySetAssumption DEF KeyName, Maker

LEMMA InitType == Init => TypeOK
BY Basics, KeySetAssumption DEF Init, TypeOK, Step, Result

\* The two ways a process goes on.
LEMMA GoType ==
    ASSUME TypeOK, NEW p \in Proc, NEW s \in Step, NEW k \in KeyName, Goto(p, s, k)
    PROVE  /\ pc' \in [Proc -> Step] /\ at' \in [Proc -> KeyName]
           /\ result' \in [Proc -> Result] /\ tool' \in Tools /\ fallback' \in BOOLEAN
BY DEF TypeOK, Goto, place

LEMMA AnswerType ==
    ASSUME TypeOK, NEW p \in Proc, NEW r \in Result, Answer(p, r)
    PROVE  /\ pc' \in [Proc -> Step] /\ at' \in [Proc -> KeyName]
           /\ result' \in [Proc -> Result] /\ tool' \in Tools /\ fallback' \in BOOLEAN
BY DEF TypeOK, Answer, place, Step

LEMMA NextKeyGoes ==
    ASSUME TypeOK, NEW p \in Proc, NEW s, NEW t, NextKeyOr(p, s, t)
    PROVE  \/ at[p] < NKeys /\ Goto(p, s, at[p] + 1) /\ at[p] + 1 \in KeyName
           \/ at[p] = NKeys /\ Goto(p, t, 1)
<1>1. at[p] \in KeyName
  BY DEF TypeOK
<1>2. at[p] \in Int /\ at[p] <= NKeys /\ NKeys \in Int
  BY <1>1, Basics
<1>3. CASE at[p] < NKeys
  <2>1. at[p] + 1 \in KeyName
    BY <1>1, <1>3, Basics
  <2> QED
    BY <1>3, <2>1 DEF NextKeyOr
<1>4. CASE ~(at[p] < NKeys)
  <2>1. at[p] = NKeys
    BY <1>2, <1>4
  <2> QED
    BY <1>4, <2>1 DEF NextKeyOr
<1> QED
  BY <1>3, <1>4

LEMMA NextNameGoes ==
    ASSUME TypeOK, NEW p \in Proc, NextNameOrOk(p)
    PROVE  \/ at[p] < NKeys /\ Goto(p, "look", at[p] + 1) /\ at[p] + 1 \in KeyName
           \/ at[p] = NKeys /\ Answer(p, "ok")
<1>1. at[p] \in KeyName
  BY DEF TypeOK
<1>2. at[p] \in Int /\ at[p] <= NKeys /\ NKeys \in Int
  BY <1>1, Basics
<1>3. CASE at[p] < NKeys
  <2>1. at[p] + 1 \in KeyName
    BY <1>1, <1>3, Basics
  <2> QED
    BY <1>3, <2>1 DEF NextNameOrOk
<1>4. CASE ~(at[p] < NKeys)
  <2>1. at[p] = NKeys
    BY <1>2, <1>4
  <2> QED
    BY <1>4, <2>1 DEF NextNameOrOk
<1> QED
  BY <1>3, <1>4

Jobs == /\ pc' \in [Proc -> Step] /\ at' \in [Proc -> KeyName]
        /\ result' \in [Proc -> Result] /\ tool' \in Tools /\ fallback' \in BOOLEAN

LEMMA TypeStep == TypeOK /\ [Next]_vars => TypeOK'
<1> SUFFICES ASSUME TypeOK, [Next]_vars PROVE TypeOK'
  OBVIOUS
<1>s. {"idle", "precheck", "stage", "publish", "unlinktemp", "rollback",
         "rollbacksync", "sync", "look", "load", "write", "persist",
         "dirsync", "fill", "flush", "identify", "done"} \subseteq Step
  BY DEF Step
<1>r. /\ \A t : Report(t) \in Result
      /\ {"none", "ok", "exists", "error", "cleanup_failed",
           "rollback_incomplete", "temp_remains", "not_synced", "read",
           "killed"} \subseteq Result
  BY DEF Report, Result
<1>t. \A p \in Proc : at[p] \in KeyName
  BY DEF TypeOK
<1> USE Basics
<1>1. ASSUME NEW p \in Proc, Start(p) PROVE TypeOK'
  <2>1. \E s \in Step : Goto(p, s, 1)
    BY <1>1, <1>s, KeySetAssumption DEF Start, TypeOK, AllTools
  <2>2. Jobs
    BY <2>1, GoType DEF Jobs
  <2> QED
    BY <1>1, <2>2 DEF TypeOK, Jobs, Start
<1>2. ASSUME NEW p \in Proc, Use(p) PROVE TypeOK'
  <2>1. PICK k \in KeyName : Use(p)!(k)
    BY <1>2 DEF Use
  <2>2. Jobs
    BY <2>1, <1>r, AnswerType DEF Jobs
  <2>3. got' \in [Proc -> (KeyName \X Maker) \cup {None}]
    <3>1. CASE Readable(k)
      <4>1. dir[k] \in Maker
        BY <3>1 DEF Readable
      <4> QED
        BY <2>1, <4>1 DEF TypeOK
    <3> QED
      BY <2>1, <3>1 DEF TypeOK
  <2> QED
    BY <2>1, <2>2, <2>3 DEF TypeOK, Jobs
<1>3. ASSUME NEW p \in Proc, Precheck(p) PROVE TypeOK'
  <2>1. Jobs
    BY <1>3, <1>s, <1>r, NextKeyGoes, GoType, AnswerType DEF Jobs, Precheck
  <2> QED
    BY <1>3, <2>1 DEF TypeOK, Jobs, Precheck
<1>4. ASSUME NEW p \in Proc, Stage(p) PROVE TypeOK'
  <2>1. Jobs
    BY <1>4, <1>s, <1>r, NextKeyGoes, GoType, AnswerType DEF Jobs, Stage
  <2>2. /\ temp' \in [Proc -> SUBSET KeyName]
        /\ trouble' \in [Proc -> SUBSET Trouble]
    <3>1. CASE /\ temp' = [temp EXCEPT ![p] = @ \cup {at[p]}]
               /\ UNCHANGED trouble
      BY <3>1, <1>t DEF TypeOK
    <3>2. CASE \E S \in {temp[p], temp[p] \cup {at[p]}} : CleanUp(p, S)
      <4>1. PICK S \in SUBSET KeyName : CleanUp(p, S)
        BY <3>2, <1>t DEF TypeOK
      <4>2. PICK left \in SUBSET S :
              /\ temp' = [temp EXCEPT ![p] = (@ \ S) \cup left]
              /\ trouble' = [trouble EXCEPT ![p] =
                     @ \cup (IF left = {} THEN {} ELSE {"cleanup"})]
        BY <4>1 DEF CleanUp
      <4>3. (temp[p] \ S) \cup left \in SUBSET KeyName
        BY <4>1, <4>2 DEF TypeOK
      <4>4. trouble[p] \cup (IF left = {} THEN {} ELSE {"cleanup"}) \in SUBSET Trouble
        BY DEF TypeOK, Trouble
      <4> QED
        BY <4>2, <4>3, <4>4 DEF TypeOK
    <3> QED
      BY <1>4, <3>1, <3>2 DEF Stage
  <2>3. written' \in [Proc -> SUBSET KeyName]
    BY <1>4, <1>t DEF TypeOK, Stage
  <2> QED
    BY <1>4, <2>1, <2>2, <2>3 DEF TypeOK, Jobs, Stage
<1>5. ASSUME NEW p \in Proc, Publish(p) PROVE TypeOK'
  <2>1. CASE PublishedByRename(p)
    <3>1. Jobs
      BY <2>1, <1>s, NextKeyGoes, GoType DEF Jobs, PublishedByRename
    <3> QED
      BY <1>5, <1>t, <2>1, <3>1
      DEF TypeOK, Jobs, Publish, PublishedByRename, Install
  <2>2. CASE PublishedByLink(p)
    <3>1. Jobs
      BY <2>2, <1>s, <1>t, GoType DEF Jobs, PublishedByLink
    <3> QED
      BY <1>5, <1>t, <2>2, <3>1 DEF TypeOK, Jobs, Publish, PublishedByLink, Install
  <2>3. CASE NotPublished(p)
    <3>1. Jobs
      BY <2>3, <1>s, GoType DEF Jobs, NotPublished
    <3>2. /\ temp' \in [Proc -> SUBSET KeyName]
          /\ trouble' \in [Proc -> SUBSET Trouble]
      BY <2>3 DEF TypeOK, NotPublished, Trouble
    <3> QED
      BY <1>5, <2>3, <3>1, <3>2 DEF TypeOK, Jobs, Publish, NotPublished
  <2> QED
    BY <1>5, <2>1, <2>2, <2>3 DEF Publish
<1>6. ASSUME NEW p \in Proc, UnlinkTemp(p) PROVE TypeOK'
  <2>1. Jobs
    BY <1>6, <1>s, <1>r, NextKeyGoes, GoType, AnswerType DEF Jobs, UnlinkTemp
  <2>2. /\ temp' \in [Proc -> SUBSET KeyName]
        /\ created' \in [Proc -> SUBSET KeyName]
        /\ trouble' = trouble
    <3>1. UNCHANGED trouble
      BY <1>6 DEF UnlinkTemp
    <3>2. created' \in {created, [created EXCEPT ![p] = @ \cup {at[p]}]}
      BY <1>6 DEF UnlinkTemp
    <3>3. \E S \in SUBSET KeyName : temp' = [temp EXCEPT ![p] = S]
      <4>1. CASE temp' = [temp EXCEPT ![p] = @ \ {at[p]}]
        <5>1. temp[p] \ {at[p]} \in SUBSET KeyName
          BY DEF TypeOK
        <5> QED
          BY <4>1, <5>1
      <4>2. CASE \E left \in SUBSET (temp[p] \ {at[p]}) :
                  temp' = [temp EXCEPT ![p] = left \cup {at[p]}]
        <5>1. PICK left \in SUBSET (temp[p] \ {at[p]}) :
                  temp' = [temp EXCEPT ![p] = left \cup {at[p]}]
          BY <4>2
        <5>2. left \cup {at[p]} \in SUBSET KeyName
          BY <1>t DEF TypeOK
        <5> QED
          BY <5>1, <5>2
      <4> QED
        BY <1>6, <4>1, <4>2 DEF UnlinkTemp
    <3> QED
      BY <3>1, <3>2, <3>3, <1>t DEF TypeOK
  <2> QED
    BY <1>6, <2>1, <2>2 DEF TypeOK, Jobs, UnlinkTemp
<1>7. ASSUME NEW p \in Proc, Rollback(p) PROVE TypeOK'
  <2>1. Jobs
    BY <1>7, <1>s, NextKeyGoes, GoType DEF Jobs, Rollback
  <2>2. dir' \in [KeyName -> Maker \cup {None}] /\ trouble' \in [Proc -> SUBSET Trouble]
    BY <1>7, <1>t DEF TypeOK, Rollback, Trouble
  <2> QED
    BY <1>7, <2>1, <2>2 DEF TypeOK, Jobs, Rollback
<1>8. ASSUME NEW p \in Proc, RollbackSync(p) PROVE TypeOK'
  <2>1. Jobs
    BY <1>8, <1>r, AnswerType DEF Jobs, RollbackSync
  <2>2. dirDisk' \in [KeyName -> Maker \cup {None}] /\ trouble' \in [Proc -> SUBSET Trouble]
    BY <1>8 DEF TypeOK, RollbackSync, RemovalSynced, Trouble
  <2> QED
    BY <1>8, <2>1, <2>2 DEF TypeOK, Jobs, RollbackSync
<1>9. ASSUME NEW p \in Proc, Sync(p) PROVE TypeOK'
  <2>1. Jobs
    BY <1>9, <1>r, AnswerType DEF Jobs, Sync
  <2> QED
    BY <1>9, <2>1 DEF TypeOK, Jobs, Sync, SetSynced
<1>10. ASSUME NEW p \in Proc, Look(p) \/ Load(p) \/ Identify(p) PROVE TypeOK'
  <2>1. CASE Look(p)
    <3>1. \E s \in Step : Goto(p, s, at[p])
      BY <2>1, <1>s DEF Look
    <3>2. Jobs
      BY <3>1, <1>t, GoType DEF Jobs
    <3> QED
      BY <2>1, <3>2 DEF TypeOK, Jobs, Look
  <2>2. CASE Load(p)
    <3>1. Jobs
      BY <2>2, <1>s, <1>r, NextNameGoes, GoType, AnswerType DEF Jobs, Load
    <3> QED
      BY <2>2, <3>1 DEF TypeOK, Jobs, Load
  <2>3. CASE Identify(p)
    <3>1. Jobs
      BY <2>3, <1>s, <1>t, <1>r, GoType, AnswerType DEF Jobs, Identify
    <3> QED
      BY <2>3, <3>1 DEF TypeOK, Jobs, Identify
  <2> QED
    BY <1>10, <2>1, <2>2, <2>3
<1>11. ASSUME NEW p \in Proc, Write(p) PROVE TypeOK'
  <2>1. Jobs
    BY <1>11, <1>s, <1>t, <1>r, GoType, AnswerType DEF Jobs, Write
  <2>2. temp' \in [Proc -> SUBSET KeyName] /\ written' \in [Proc -> SUBSET KeyName]
    BY <1>11, <1>t DEF TypeOK, Write
  <2> QED
    BY <1>11, <2>1, <2>2 DEF TypeOK, Jobs, Write
<1>12. ASSUME NEW p \in Proc, Persist(p) PROVE TypeOK'
  <2>1. Jobs
    <3>1. \/ Goto(p, "dirsync", at[p])
          \/ \E r \in Result : Answer(p, r)
      BY <1>12, <1>r DEF Persist
    <3> QED
      BY <3>1, <1>s, <1>t, GoType, AnswerType DEF Jobs
  <2>2. /\ temp' \in [Proc -> SUBSET KeyName] /\ created' \in [Proc -> SUBSET KeyName]
        /\ dir' \in [KeyName -> Maker \cup {None}]
    BY <1>12, <1>t DEF TypeOK, Persist
  <2> QED
    BY <1>12, <2>1, <2>2 DEF TypeOK, Jobs, Persist
<1>13. ASSUME NEW p \in Proc, DirSync(p) PROVE TypeOK'
  <2>1. Jobs
    BY <1>13, <1>s, <1>r, NextNameGoes, GoType, AnswerType DEF Jobs, DirSync
  <2> QED
    BY <1>13, <2>1 DEF TypeOK, Jobs, DirSync, KeptAfter
<1>14. ASSUME NEW p \in Proc, Create(p) PROVE TypeOK'
  <2>1. Jobs
    BY <1>14, <1>s, <1>t, <1>r, GoType, AnswerType DEF Jobs, Create
  <2> QED
    BY <1>14, <1>t, <2>1 DEF TypeOK, Jobs, Create
<1>15. ASSUME NEW p \in Proc, Fill(p) \/ Flush(p) PROVE TypeOK'
  <2>1. Jobs
    BY <1>15, <1>s, <1>t, <1>r, GoType, AnswerType DEF Jobs, Fill, Flush, Withdraw
  <2>2. dir' \in [KeyName -> Maker \cup {None}] /\ written' \in [Proc -> SUBSET KeyName]
    BY <1>15, <1>t DEF TypeOK, Fill, Flush, Withdraw
  <2> QED
    BY <1>15, <2>1, <2>2 DEF TypeOK, Jobs, Fill, Flush
<1>16. ASSUME NEW p \in Proc, Kill(p) PROVE TypeOK'
  <2>1. Jobs
    BY <1>16, <1>r, AnswerType DEF Jobs, Kill
  <2> QED
    BY <1>16, <2>1 DEF TypeOK, Jobs, Kill
<1>17. CASE Intrude
  BY <1>17, KeySetAssumption DEF TypeOK, Intrude, place
<1>18. CASE WriteBack
  BY <1>18 DEF TypeOK, WriteBack, place
<1>19. CASE PowerLoss
  <2>1. /\ pc' \in [Proc -> Step] /\ result' \in [Proc -> Result]
        /\ written' \in [Proc -> SUBSET KeyName]
    BY <1>19, <1>s, <1>r DEF TypeOK, PowerLoss
  <2> QED
    BY <1>19, <2>1, KeySetAssumption DEF TypeOK, PowerLoss, place
<1>20. CASE UNCHANGED vars
  BY <1>20 DEF TypeOK, vars, place
<1> QED
  BY <1>1, <1>2, <1>3, <1>4, <1>5, <1>6, <1>7, <1>8, <1>9, <1>10, <1>11, <1>12,
     <1>13, <1>14, <1>15, <1>16, <1>17, <1>18, <1>19, <1>20 DEF Next, StepOf

\* Every variable keeps its type.
THEOREM TypeCorrect == Spec => []TypeOK
BY InitType, TypeStep, PTL DEF Spec
-----------------------------------------------------------------------------
(* Names and their makers.                                                 *)

\* The steps each tool has.
StepsOf(t) ==
    CASE t \in {"cascade", "be"} -> {"precheck", "stage", "publish", "unlinktemp",
                                     "rollback", "rollbacksync", "sync"}
      [] t = "multicrypt" -> {"look", "load", "write", "persist", "dirsync"}
      [] t = "otp1-auth" -> {"write", "fill", "flush", "identify", "dirsync"}
      [] t = "tf1024" -> {"write", "fill", "flush"}

Running(p) == pc[p] \notin {"idle", "done"}

\* A process runs its tool's steps, has made nothing before it starts and
\* answers when it is done.
Order(p) ==
    /\ Running(p) => pc[p] \in StepsOf(tool)
    /\ pc[p] = "unlinktemp" => tool = "cascade"
    /\ pc[p] = "idle" => created[p] = {}
    /\ pc[p] = "write" /\ tool # "multicrypt" => created[p] = {}
    /\ result[p] # "none" => pc[p] = "done"

\* A running process still has the keys it has published, but for those that
\* its rollback has got to.
Holds(p) ==
    /\ Running(p) /\ pc[p] # "rollbacksync" =>
         \A k \in created[p] : (pc[p] = "rollback" => k >= at[p]) => dir[k] = p
    /\ pc[p] = "unlinktemp" => dir[at[p]] = p

\* A key is in its maker's list, unless the maker stopped half way.
Listed(p) == \A k \in KeyName :
    dir[k] = p \/ dirDisk[k] = p =>
        \/ k \in created[p]
        \/ pc[p] = "unlinktemp" /\ k = at[p]
        \/ result[p] \in {"temp_remains", "cleanup_failed", "killed"}

\* cascade and be: what has been published by each step.
SetSoFar(p) == tool \in {"cascade", "be"} =>
    /\ pc[p] \in {"precheck", "stage"} => created[p] = {}
    /\ pc[p] \in {"publish", "unlinktemp"} => created[p] = 1..at[p] - 1
    /\ pc[p] = "sync" => created[p] = KeyName
    /\ pc[p] = "rollback" => NKeys \notin created[p]
    /\ \A k \in KeyName :
         /\ pc[p] = "rollback" /\ k < at[p] => "rollback" \in trouble[p] \/ dir[k] # p
         /\ pc[p] = "rollbacksync" => "rollback" \in trouble[p] \/ dir[k] # p

\* multicrypt: what is on disk and what can be used by each step.
NamesSoFar(p) == tool = "multicrypt" =>
    /\ pc[p] = "persist" => at[p] \in written[p]
    /\ \A k \in KeyName : dir[k] = p \/ dirDisk[k] = p => k \in written[p]
    /\ Running(p) => \A k \in created[p] :
         dirDisk[k] = p \/ (pc[p] = "dirsync" /\ k = at[p])
    /\ Running(p) /\ losses = 0 => \A k \in KeyName :
         k < at[p] \/ (k = at[p] /\ pc[p] = "dirsync") => Readable(k)

\* The last key of a set is there only with the others.
LastOfAll ==
    tool \in {"cascade", "be"} /\ losses = 0 => \A p \in Proc :
        dir[NKeys] = p => \A k \in KeyName : dir[k] = p

Shape ==
    /\ fallback => tool = "cascade"
    /\ \A p \in Proc : Order(p) /\ Holds(p) /\ Listed(p) /\ SetSoFar(p) /\ NamesSoFar(p)

\* What a step of process p may do to the directory.
Move(p) ==
    \/ dir' = dir
    \/ dir[at[p]] = None /\ dir' = [dir EXCEPT ![at[p]] = p]
    \/ /\ dir[at[p]] = p /\ pc[p] \in {"rollback", "fill", "flush"}
       /\ dir' = [dir EXCEPT ![at[p]] = None]

LEMMA Moves ==
    ASSUME TypeOK, Shape, NEW p \in Proc, StepOf(p) \/ Kill(p) PROVE Move(p)
<1> USE DEF Move
<1>1. CASE Rollback(p)
  <2>1. at[p] \in ToRemove(p) => dir[at[p]] = p
    <3> SUFFICES ASSUME at[p] \in created[p] PROVE dir[at[p]] = p
      BY DEF ToRemove
    <3>1. pc[p] = "rollback" /\ at[p] \in Int
      BY <1>1, Basics DEF Rollback, TypeOK
    <3>2. Holds(p)
      BY DEF Shape
    <3> QED
      BY <3>1, <3>2 DEF Holds, Running
  <2>2. pc[p] = "rollback"
    BY <1>1 DEF Rollback
  <2> QED
    BY <1>1, <2>1, <2>2 DEF Rollback
<1>2. CASE Fill(p) \/ Flush(p)
  BY <1>2 DEF Fill, Flush, Withdraw
<1>3. CASE Publish(p)
  BY <1>3 DEF Publish, PublishedByRename, PublishedByLink, NotPublished, Install
<1>4. CASE Persist(p) \/ Create(p)
  BY <1>4 DEF Persist, Create, Free
<1>5. CASE DirSync(p)
  BY <1>5 DEF DirSync, KeptAfter
<1>6. CASE \/ Start(p) \/ Use(p) \/ Precheck(p) \/ Stage(p) \/ UnlinkTemp(p)
           \/ RollbackSync(p) \/ Sync(p) \/ Look(p) \/ Load(p) \/ Write(p)
           \/ Identify(p) \/ Kill(p)
  BY <1>6 DEF Start, Use, Precheck, Stage, UnlinkTemp, RollbackSync, Sync, Look,
     Load, Write, Identify, Kill
<1> QED
  BY <1>1, <1>2, <1>3, <1>4, <1>5, <1>6 DEF StepOf

\* The synchronised directory follows the directory.
Behind ==
    /\ tool' = tool /\ fallback' = fallback /\ losses' = losses
    /\ \A k \in KeyName : dirDisk'[k] \in {dirDisk[k], dir[k], dir'[k]}

LEMMA Synchronised ==
    ASSUME TypeOK, NEW p \in Proc, StepOf(p) \/ Kill(p) PROVE Behind
<1> USE DEF Behind, Goto, Answer, place
<1>1. CASE \/ Start(p) \/ Use(p) \/ Precheck(p) \/ Stage(p) \/ UnlinkTemp(p)
           \/ Rollback(p) \/ RollbackSync(p) \/ Sync(p)
  BY <1>1 DEF Start, Use, Precheck, Stage, UnlinkTemp, Rollback, RollbackSync,
     RemovalSynced, Sync, SetSynced, NextKeyOr
<1>2. CASE Publish(p)
  BY <1>2 DEF Publish, PublishedByRename, PublishedByLink, NotPublished, NextKeyOr
<1>3. CASE \/ Look(p) \/ Load(p) \/ Write(p) \/ Persist(p) \/ DirSync(p)
           \/ Create(p) \/ Fill(p) \/ Flush(p) \/ Identify(p) \/ Kill(p)
  BY <1>3 DEF Look, Load, Write, Persist, DirSync, NextNameOrOk, Create, Fill,
     Flush, Withdraw, Identify, Kill
<1> QED
  BY <1>1, <1>2, <1>3 DEF StepOf

\* What every process keeps that takes no part in a step.
Apart(q) ==
    /\ pc'[q] = pc[q] /\ at'[q] = at[q] /\ created'[q] = created[q]
    /\ trouble'[q] = trouble[q] /\ result'[q] = result[q] /\ got'[q] = got[q]
    /\ written[q] \subseteq written'[q]

LEMMA OthersApart ==
    ASSUME TypeOK, NEW p \in Proc, StepOf(p) \/ Kill(p), NEW q \in Proc, q # p
    PROVE  Apart(q)
<1> USE DEF Apart, Goto, Answer, TypeOK
<1>1. CASE \/ Start(p) \/ Use(p) \/ Precheck(p) \/ Rollback(p) \/ RollbackSync(p)
           \/ Sync(p)
  BY <1>1 DEF Start, Use, Precheck, Rollback, RollbackSync, RemovalSynced, Sync,
     SetSynced, NextKeyOr
<1>2. CASE Stage(p)
  BY <1>2 DEF Stage, CleanUp, NextKeyOr
<1>3. CASE Publish(p)
  BY <1>3 DEF Publish, PublishedByRename, PublishedByLink, NotPublished, NextKeyOr
<1>4. CASE UnlinkTemp(p)
  BY <1>4 DEF UnlinkTemp, NextKeyOr
<1>5. CASE \/ Look(p) \/ Load(p) \/ Write(p) \/ Persist(p) \/ DirSync(p)
  BY <1>5 DEF Look, Load, Write, Persist, DirSync, NextNameOrOk
<1>6. CASE \/ Create(p) \/ Fill(p) \/ Flush(p) \/ Identify(p) \/ Kill(p)
  BY <1>6 DEF Create, Fill, Flush, Withdraw, Identify, Kill
<1> QED
  BY <1>1, <1>2, <1>3, <1>4, <1>5, <1>6 DEF StepOf

\* A step of p neither gives other processes keys nor takes them away.
LEMMA OthersKeys ==
    ASSUME TypeOK, Shape, NEW p \in Proc, StepOf(p) \/ Kill(p), NEW q \in Proc, q # p
    PROVE  \A k \in KeyName : /\ dir'[k] = q <=> dir[k] = q
                              /\ dirDisk'[k] = q => dir[k] = q \/ dirDisk[k] = q
                              /\ dir[k] = q /\ dirDisk[k] = q => dirDisk'[k] = q
<1>1. Move(p) /\ Behind
  BY Moves, Synchronised
<1>2. q # None
  BY Basics
<1>3. \A k \in KeyName : dir'[k] = q <=> dir[k] = q
  BY <1>1, <1>2 DEF Move, TypeOK
<1> QED
  BY <1>1, <1>3 DEF Behind

\* Where nothing removes keys, a key that can be used stays so.
LEMMA StaysReadable ==
    ASSUME TypeOK, Shape, NEW p \in Proc, StepOf(p) \/ Kill(p), tool = "multicrypt"
    PROVE  /\ \A k \in KeyName : dir[k] # None => dir'[k] = dir[k]
           /\ \A q \in Proc : written[q] \subseteq written'[q]
           /\ \A k \in KeyName : Readable(k) => Readable(k)'
<1>1. pc[p] \notin {"rollback", "fill", "flush", "unlinktemp"}
  BY DEF Shape, Order, Running, StepsOf
<1>2. \A k \in KeyName : dir[k] # None => dir'[k] = dir[k]
  BY <1>1, Moves DEF Move, TypeOK
<1>3. ~Stage(p) /\ ~Fill(p)
  BY DEF Stage, Fill, Shape, Order, Running, StepsOf
<1>4. written[p] \subseteq written'[p]
  BY <1>3 DEF TypeOK, StepOf, Start, Use, Precheck, Publish, UnlinkTemp, Rollback,
     RollbackSync, Sync, Look, Load, Write, Persist, DirSync, Create, Flush,
     Identify, Kill
<1>5. \A q \in Proc : written[q] \subseteq written'[q]
  BY <1>4, OthersApart DEF Apart
<1>6. ASSUME NEW k \in KeyName, Readable(k) PROVE Readable(k)'
  <2>1. dir[k] # None
    BY <1>6, Basics DEF Readable
  <2>2. dir'[k] = dir[k]
    BY <1>2, <2>1
  <2> QED
    BY <1>5, <1>6, <2>2 DEF Readable
<1> QED
  BY <1>2, <1>5, <1>6

LEMMA OthersShape ==
    ASSUME TypeOK, Shape, NEW p \in Proc, StepOf(p) \/ Kill(p), NEW q \in Proc, q # p
    PROVE  (Order(q) /\ Holds(q) /\ Listed(q) /\ SetSoFar(q) /\ NamesSoFar(q))'
<1>1. Apart(q) /\ Behind
  BY OthersApart, Synchronised
<1>2. \A k \in KeyName : /\ dir'[k] = q <=> dir[k] = q
                         /\ dirDisk'[k] = q => dir[k] = q \/ dirDisk[k] = q
                         /\ dir[k] = q /\ dirDisk[k] = q => dirDisk'[k] = q
  BY OthersKeys
<1>3. Order(q) /\ Holds(q) /\ Listed(q) /\ SetSoFar(q) /\ NamesSoFar(q)
  BY DEF Shape
<1>4. created[q] \subseteq KeyName /\ at[q] \in KeyName
  BY DEF TypeOK
<1>5. Order(q)'
  BY <1>1, <1>3 DEF Order, Apart, Running, Behind
<1>6. Holds(q)'
  BY <1>1, <1>2, <1>3, <1>4 DEF Holds, Apart, Running
<1>7. Listed(q)'
  BY <1>1, <1>2, <1>3 DEF Listed, Apart
<1>8. SetSoFar(q)'
  BY <1>1, <1>2, <1>3 DEF SetSoFar, Apart, Behind
<1>9. NamesSoFar(q)'
  <2> SUFFICES ASSUME tool = "multicrypt" PROVE NamesSoFar(q)'
    BY <1>1 DEF NamesSoFar, Behind
  <2>1. \A k \in KeyName : Readable(k) => Readable(k)'
    BY StaysReadable
  <2>2. (pc[q] = "persist" => at[q] \in written[q])'
    BY <1>1, <1>3 DEF NamesSoFar, Apart
  <2>3. (\A k \in KeyName : dir[k] = q \/ dirDisk[k] = q => k \in written[q])'
    BY <1>1, <1>2, <1>3 DEF NamesSoFar, Apart
  <2>4. (Running(q) => \A k \in created[q] :
           dirDisk[k] = q \/ (pc[q] = "dirsync" /\ k = at[q]))'
    <3> SUFFICES ASSUME Running(q), NEW k \in created[q],
                        ~ (pc[q] = "dirsync" /\ k = at[q])
                 PROVE  dirDisk'[k] = q
      BY <1>1 DEF Apart, Running
    <3>1. dirDisk[k] = q /\ k \in KeyName
      BY <1>3, <1>4 DEF NamesSoFar
    <3>2. pc[q] # "rollbacksync" /\ pc[q] # "rollback"
      BY <1>3 DEF Order, StepsOf
    <3>3. dir[k] = q
      BY <1>3, <3>2 DEF Holds
    <3> QED
      BY <1>2, <3>1, <3>3
  <2>5. (Running(q) /\ losses = 0 => \A k \in KeyName :
           k < at[q] \/ (k = at[q] /\ pc[q] = "dirsync") => Readable(k))'
    BY <1>1, <1>3, <2>1 DEF NamesSoFar, Apart, Running, Behind
  <2> QED
    BY <2>2, <2>3, <2>4, <2>5 DEF NamesSoFar
<1> QED
  BY <1>5, <1>6, <1>7, <1>8, <1>9
-----------------------------------------------------------------------------
(* The process that takes the step.                                        *)

All(p) == Order(p) /\ Holds(p) /\ Listed(p) /\ SetSoFar(p) /\ NamesSoFar(p)

\* cascade and be.
LEMMA ActorCascade ==
    ASSUME TypeOK, Shape, NEW p \in Proc,
           \/ Precheck(p) \/ Stage(p) \/ Publish(p) \/ UnlinkTemp(p)
           \/ Rollback(p) \/ RollbackSync(p) \/ Sync(p)
    PROVE  All(p)'
<1> USE Basics
<1>1. /\ Order(p) /\ Holds(p) /\ Listed(p) /\ SetSoFar(p) /\ at[p] \in KeyName
      /\ created[p] \subseteq KeyName
  BY DEF Shape, TypeOK
<1>2. pc[p] \in {"precheck", "stage", "publish", "unlinktemp", "rollback",
                 "rollbacksync", "sync"}
  BY DEF Precheck, Stage, Publish, UnlinkTemp, Rollback, RollbackSync, Sync
<1>3. tool \in {"cascade", "be"} /\ tool' = tool
  <2>1. tool' = tool
    BY Synchronised DEF Behind, StepOf
  <2>2. tool \in AllTools
    BY KeySetAssumption DEF TypeOK
  <2> QED
    BY <1>1, <1>2, <2>1, <2>2 DEF Order, Running, StepsOf, AllTools
<1>4. result[p] = "none" /\ Running(p)
  BY <1>1, <1>2 DEF Order, Running, TypeOK
<1>5. NamesSoFar(p)'
  BY <1>3 DEF NamesSoFar
<1>6. at[p] \in Int /\ 1 <= at[p] /\ at[p] <= NKeys /\ NKeys \in Int
  BY <1>1
<1>7. ASSUME Precheck(p) PROVE All(p)'
  <2>1. \/ NextKeyOr(p, "precheck", "stage")
        \/ Answer(p, "exists")
    BY <1>7 DEF Precheck
  <2>2. pc[p] = "precheck" /\ created[p] = {} /\ UNCHANGED <<dir, dirDisk, created, trouble>>
    BY <1>1, <1>3, <1>7 DEF Precheck, SetSoFar
  <2>3. pc'[p] \in {"precheck", "stage", "done"} /\ (result'[p] # "none" => pc'[p] = "done")
    BY <1>4, <2>1, NextKeyGoes DEF Goto, Answer, TypeOK
  <2> QED
    BY <1>1, <1>3, <1>5, <2>2, <2>3
    DEF All, Order, Holds, Listed, SetSoFar, Running, StepsOf
<1>8. ASSUME Stage(p) PROVE All(p)'
  <2>1. \/ NextKeyOr(p, "stage", "publish")
        \/ \E r : Answer(p, r)
    BY <1>8 DEF Stage
  <2>2. pc[p] = "stage" /\ created[p] = {} /\ UNCHANGED <<dir, dirDisk, created>>
    BY <1>1, <1>3, <1>8 DEF Stage, SetSoFar
  <2>3. /\ pc'[p] \in {"stage", "publish", "done"}
        /\ pc'[p] = "publish" => at'[p] = 1
        /\ result'[p] # "none" => pc'[p] = "done"
    BY <1>4, <2>1, NextKeyGoes DEF Goto, Answer, TypeOK
  <2>4. 1..1 - 1 = {}
    OBVIOUS
  <2> QED
    BY <1>1, <1>3, <1>5, <2>2, <2>3, <2>4
    DEF All, Order, Holds, Listed, SetSoFar, Running, StepsOf
<1> DEFINE Before == 1..at[p] - 1
<1>9. /\ at[p] < NKeys => (1..at[p] + 1 - 1) = Before \cup {at[p]}
      /\ at[p] = NKeys => KeyName = Before \cup {at[p]}
      /\ at[p] \notin Before /\ Before \subseteq KeyName /\ NKeys \notin Before
  BY <1>6 DEF KeyName
<1> HIDE DEF Before
<1>10. ASSUME created[p] = Before, dir'[at[p]] = p, 
              \A k \in KeyName \ {at[p]} : dir'[k] = dir[k],
              dirDisk' = dirDisk, NextKeyOr(p, "publish", "sync"),
              created' = [created EXCEPT ![p] = @ \cup {at[p]}],
              pc[p] \in {"publish", "unlinktemp"}
       PROVE  All(p)'
  <2>1. /\ pc'[p] \in {"publish", "sync"}
        /\ pc'[p] = "publish" => at[p] < NKeys /\ at'[p] = at[p] + 1
        /\ pc'[p] = "sync" => at[p] = NKeys
        /\ result'[p] = result[p]
    BY <1>10, NextKeyGoes DEF Goto, TypeOK
  <2>2. created'[p] = Before \cup {at[p]}
    BY <1>10 DEF TypeOK
  <2>3. Order(p)'
    BY <1>3, <1>4, <2>1 DEF Order, Running, StepsOf
  <2>4. \A k \in created'[p] : dir'[k] = p
    BY <1>1, <1>4, <1>9, <1>10, <2>2 DEF Holds
  <2>5. Holds(p)'
    BY <2>1, <2>4 DEF Holds
  <2>6. Listed(p)'
    BY <1>1, <1>4, <1>9, <1>10, <2>2 DEF Listed
  <2>7. SetSoFar(p)'
    BY <1>9, <2>1, <2>2 DEF SetSoFar, Before
  <2> QED
    BY <1>5, <2>3, <2>5, <2>6, <2>7 DEF All
<1>11. ASSUME Publish(p) PROVE All(p)'
  <2>1. pc[p] = "publish" /\ created[p] = Before /\ dirDisk' = dirDisk
    BY <1>1, <1>3, <1>11 DEF Publish, SetSoFar, Before
  <2>2. CASE PublishedByRename(p)
    <3>1. dir'[at[p]] = p /\ \A k \in KeyName \ {at[p]} : dir'[k] = dir[k]
      BY <1>1, <2>2 DEF PublishedByRename, Install, TypeOK
    <3> QED
      BY <1>10, <2>1, <2>2, <3>1 DEF PublishedByRename
  <2>3. CASE PublishedByLink(p)
    <3>1. dir'[at[p]] = p /\ \A k \in KeyName \ {at[p]} : dir'[k] = dir[k]
      BY <1>1, <2>3 DEF PublishedByLink, Install, TypeOK
    <3>2. /\ pc'[p] = "unlinktemp" /\ at'[p] = at[p] /\ result'[p] = result[p]
          /\ created' = created
      BY <2>3 DEF PublishedByLink, Goto, TypeOK
    <3>3. tool = "cascade"
      BY <2>3 DEF PublishedByLink, Shape
    <3>4. \A k \in created[p] : dir'[k] = p
      BY <1>1, <1>4, <2>1, <3>1 DEF Holds
    <3>5. Listed(p)'
      BY <1>1, <1>4, <2>1, <3>1, <3>2 DEF Listed
    <3>6. SetSoFar(p)'
      BY <2>1, <3>2 DEF SetSoFar, Before
    <3>7. Order(p)'
      BY <1>3, <1>4, <3>2, <3>3 DEF Order, Running, StepsOf
    <3>8. Holds(p)'
      BY <3>1, <3>2, <3>4 DEF Holds
    <3> QED
      BY <1>5, <3>5, <3>6, <3>7, <3>8 DEF All
  <2>4. CASE NotPublished(p)
    <3>1. /\ pc'[p] = "rollback" /\ at'[p] = 1 /\ result'[p] = result[p]
          /\ created' = created /\ dir' = dir
      BY <2>4 DEF NotPublished, Goto, TypeOK
    <3>2. \A k \in created[p] : dir[k] = p
      BY <1>1, <1>4, <2>1 DEF Holds
    <3>3. Listed(p)'
      BY <1>1, <1>4, <2>1, <3>1 DEF Listed
    <3>4. SetSoFar(p)'
      BY <1>9, <2>1, <3>1 DEF SetSoFar
    <3>5. Order(p)'
      BY <1>3, <1>4, <3>1 DEF Order, Running, StepsOf
    <3>6. Holds(p)'
      BY <3>1, <3>2 DEF Holds
    <3> QED
      BY <1>5, <3>3, <3>4, <3>5, <3>6 DEF All
  <2> QED
    BY <1>11, <2>2, <2>3, <2>4 DEF Publish
<1>12. ASSUME UnlinkTemp(p) PROVE All(p)'
  <2>1. pc[p] = "unlinktemp" /\ created[p] = Before /\ dirDisk' = dirDisk /\ dir' = dir
    BY <1>1, <1>3, <1>12 DEF UnlinkTemp, SetSoFar, Before
  <2>2. dir[at[p]] = p
    BY <1>1, <2>1 DEF Holds
  <2>3. CASE NextKeyOr(p, "publish", "sync")
             /\ created' = [created EXCEPT ![p] = @ \cup {at[p]}]
    BY <1>10, <2>1, <2>2, <2>3
  <2>4. CASE /\ \E r \in {"temp_remains", "cleanup_failed"} : Answer(p, r)
             /\ created' = created
    <3>1. pc'[p] = "done" /\ result'[p] \in {"temp_remains", "cleanup_failed"}
      BY <2>4 DEF Answer, TypeOK
    <3> QED
      BY <1>5, <2>1, <3>1
      DEF All, Order, Holds, Listed, SetSoFar, Running
  <2> QED
    BY <1>12, <2>3, <2>4 DEF UnlinkTemp
<1>13. ASSUME Rollback(p) PROVE All(p)'
  <2>1. /\ pc[p] = "rollback" /\ dirDisk' = dirDisk /\ created' = created
        /\ NextKeyOr(p, "rollback", "rollbacksync")
    BY <1>13 DEF Rollback
  <2>2. /\ \A k \in KeyName \ {at[p]} : dir'[k] = dir[k]
        /\ dir'[at[p]] \in {dir[at[p]], None}
        /\ dir'[at[p]] # p \/ "rollback" \in trouble'[p]
        /\ "rollback" \in trouble[p] => "rollback" \in trouble'[p]
    <3>1. CASE at[p] \in created[p]
      BY <1>1, <1>13, <3>1 DEF Rollback, ToRemove, TypeOK
    <3>2. CASE at[p] \notin created[p]
      <4>1. dir[at[p]] # p
        BY <1>1, <1>4, <2>1, <3>2 DEF Listed
      <4> QED
        BY <1>1, <1>13, <3>2, <4>1 DEF Rollback, ToRemove, TypeOK
    <3> QED
      BY <3>1, <3>2
  <2>3. /\ pc'[p] \in {"rollback", "rollbacksync"} /\ result'[p] = result[p]
        /\ pc'[p] = "rollback" => at'[p] = at[p] + 1
        /\ pc'[p] = "rollbacksync" => at[p] = NKeys
    BY <2>1, NextKeyGoes DEF Goto, TypeOK
  <2>4. Order(p)'
    BY <1>3, <1>4, <2>3 DEF Order, Running, StepsOf
  <2>5. ASSUME NEW k \in created'[p], pc'[p] = "rollback", k >= at'[p]
        PROVE  dir'[k] = p
    <3>1. k \in created[p] /\ k \in KeyName /\ k \in Int
      BY <1>1, <2>1, <2>5
    <3>2. k >= at[p] /\ k # at[p]
      BY <1>6, <2>3, <2>5, <3>1
    <3> QED
      BY <1>1, <1>4, <2>1, <2>2, <3>1, <3>2 DEF Holds
  <2>8. Holds(p)'
    BY <2>3, <2>5 DEF Holds
  <2>6. Listed(p)'
    BY <1>1, <1>4, <2>1, <2>2, <2>3 DEF Listed
  <2>7. SetSoFar(p)'
    BY <1>1, <1>3, <1>6, <2>1, <2>2, <2>3 DEF SetSoFar
  <2> QED
    BY <1>5, <2>4, <2>6, <2>7, <2>8 DEF All
<1>14. ASSUME RollbackSync(p) \/ Sync(p) PROVE All(p)'
  <2>1. /\ pc[p] \in {"rollbacksync", "sync"} /\ created' = created /\ dir' = dir
        /\ dirDisk' \in {dirDisk, dir} /\ \E r : Answer(p, r)
    BY <1>14 DEF RollbackSync, RemovalSynced, Sync, SetSynced
  <2>2. pc'[p] = "done"
    BY <2>1 DEF Answer, TypeOK
  <2> QED
    BY <1>1, <1>4, <1>5, <2>1, <2>2 DEF All, Order, Holds, Listed, SetSoFar, Running
<1> QED
  BY <1>7, <1>8, <1>11, <1>12, <1>13, <1>14

\* multicrypt, otp1-auth and tf1024, and what all tools have.
LEMMA ActorOthers ==
    ASSUME TypeOK, Shape, NEW p \in Proc,
           \/ Start(p) \/ Use(p) \/ Look(p) \/ Load(p) \/ Write(p) \/ Persist(p)
           \/ DirSync(p) \/ Create(p) \/ Fill(p) \/ Flush(p) \/ Identify(p) \/ Kill(p)
    PROVE  All(p)'
<1> USE Basics
<1>1. /\ Order(p) /\ Holds(p) /\ Listed(p) /\ SetSoFar(p) /\ NamesSoFar(p)
      /\ at[p] \in KeyName /\ created[p] \subseteq KeyName
  BY DEF Shape, TypeOK
<1>2. at[p] \in Int /\ 1 <= at[p] /\ at[p] <= NKeys /\ NKeys \in Int
  BY <1>1
<1>3. tool' = tool /\ losses' = losses /\ tool \in AllTools
  BY Synchronised, KeySetAssumption DEF Behind, StepOf, TypeOK
<1>4. pc[p] # "done" => result[p] = "none"
  BY <1>1 DEF Order, TypeOK
<1>5. tool = "multicrypt" => \A k \in KeyName : Readable(k) => Readable(k)'
  BY StaysReadable DEF StepOf
\* A process that has answered, or stops.
<1>6. ASSUME NEW r \in Result \ {"none", "ok"}, Answer(p, r), dir' = dir,
             dirDisk' = dirDisk, UNCHANGED <<created, written>>,
             pc[p] # "unlinktemp" \/ r = "killed", pc[p] # "done"
      PROVE  All(p)'
  <2>1. pc'[p] = "done" /\ result'[p] = r
    BY <1>6 DEF Answer, TypeOK
  <2>2. pc'[p] \notin {"idle", "write", "unlinktemp", "precheck", "stage", "publish",
                     "sync", "rollback", "rollbacksync", "persist"} /\ ~Running(p)'
    BY <2>1 DEF Running
  <2>3. Order(p)' /\ Holds(p)'
    BY <2>1, <2>2 DEF Order, Holds
  <2>4. Listed(p)'
    <3>1. CASE r = "killed"
      BY <2>1, <3>1 DEF Listed
    <3>2. CASE pc[p] # "unlinktemp"
      BY <1>1, <1>4, <1>6, <2>1, <3>2 DEF Listed
    <3> QED
      BY <1>6, <3>1, <3>2
  <2>5. SetSoFar(p)' /\ NamesSoFar(p)'
    BY <1>1, <1>3, <1>6, <2>2 DEF SetSoFar, NamesSoFar
  <2> QED
    BY <2>3, <2>4, <2>5 DEF All
<1>7. ASSUME Start(p) PROVE All(p)'
  <2>1. /\ pc[p] = "idle" /\ created[p] = {} /\ result[p] = "none"
        /\ UNCHANGED <<dir, dirDisk, written, created>>
    BY <1>1, <1>4, <1>7 DEF Start, Order
  <2>2. \/ tool \in {"cascade", "be"} /\ Goto(p, "precheck", 1)
        \/ tool = "multicrypt" /\ Goto(p, "look", 1)
        \/ tool \in {"otp1-auth", "tf1024"} /\ Goto(p, "write", 1)
    BY <1>3, <1>7 DEF Start, AllTools
  <2>3. /\ at'[p] = 1 /\ result'[p] = "none"
        /\ \/ tool \in {"cascade", "be"} /\ pc'[p] = "precheck"
           \/ tool = "multicrypt" /\ pc'[p] = "look"
           \/ tool \in {"otp1-auth", "tf1024"} /\ pc'[p] = "write"
    BY <2>1, <2>2 DEF Goto, TypeOK
  <2>4. \A k \in KeyName : ~(k < 1)
    OBVIOUS
  <2> QED
    BY <1>1, <1>3, <2>1, <2>3, <2>4
    DEF All, Order, Holds, Listed, SetSoFar, NamesSoFar, Running, StepsOf
<1>8. ASSUME Use(p) PROVE All(p)'
  <2>1. pc[p] = "idle" /\ \E r \in {"read", "error"} : Answer(p, r)
    BY <1>8 DEF Use
  <2> QED
    BY <1>6, <1>8, <2>1 DEF Use, Result
<1>9. ASSUME Kill(p) PROVE All(p)'
  BY <1>6, <1>9 DEF Kill, Result
\* multicrypt goes on to the next name, when the present one can be used.
<1>10. ASSUME tool = "multicrypt", NextNameOrOk(p), dir' = dir, Running(p),
              UNCHANGED <<created, written>>,
              \A k \in created[p] : dirDisk'[k] = p,
              \A k \in KeyName : dirDisk'[k] = p => dir[k] = p \/ dirDisk[k] = p,
              losses = 0 => Readable(at[p])
       PROVE  All(p)'
  <2>1. \/ /\ pc'[p] = "look" /\ at'[p] = at[p] + 1 /\ result'[p] = result[p]
        \/ pc'[p] = "done" /\ result'[p] = "ok"
    BY <1>10, NextNameGoes DEF Goto, Answer, TypeOK
  <2>2. Order(p)' /\ Listed(p)' /\ SetSoFar(p)'
    BY <1>1, <1>3, <1>4, <1>10, <2>1
    DEF Order, Listed, SetSoFar, Running, StepsOf
  <2>3. Holds(p)'
    BY <1>1, <1>10, <2>1 DEF Holds, Order, StepsOf
  <2>4. ASSUME NEW k \in KeyName, k < at[p] + 1, losses = 0 PROVE Readable(k)'
    <3>1. k = at[p] \/ k < at[p]
      BY <1>2, <2>4
    <3> QED
      BY <1>1, <1>5, <1>10, <2>4, <3>1 DEF NamesSoFar
  <2>5. NamesSoFar(p)'
    BY <1>1, <1>3, <1>10, <2>1, <2>4 DEF NamesSoFar, Running
  <2> QED
    BY <2>2, <2>3, <2>5 DEF All
<1>11. ASSUME Running(p), tool = "multicrypt" PROVE
         /\ pc[p] \in {"look", "load", "write", "persist", "dirsync"}
         /\ \A k \in created[p] : dir[k] = p
  BY <1>1, <1>11 DEF Order, StepsOf, Holds
<1>12. ASSUME NEW s \in {"load", "write", "persist"}, Goto(p, s, at[p]),
              pc[p] \in {"look", "write"}, tool = "multicrypt",
              UNCHANGED <<dir, dirDisk, created>>,
              s = "persist" => at[p] \in written'[p],
              written[p] \subseteq written'[p]
       PROVE  All(p)'
  <2>1. pc'[p] = s /\ at'[p] = at[p] /\ result'[p] = result[p] /\ Running(p)
    BY <1>12 DEF Goto, TypeOK, Running
  <2>2. Order(p)' /\ Listed(p)' /\ SetSoFar(p)'
    BY <1>1, <1>3, <1>4, <1>12, <2>1
    DEF Order, Listed, SetSoFar, Running, StepsOf
  <2>3. Holds(p)'
    BY <1>11, <1>12, <2>1 DEF Holds
  <2>4. NamesSoFar(p)'
    BY <1>1, <1>3, <1>5, <1>12, <2>1 DEF NamesSoFar, Running
  <2> QED
    BY <2>2, <2>3, <2>4 DEF All
<1>13. ASSUME Look(p) PROVE All(p)'
  <2>1. tool = "multicrypt" /\ pc[p] = "look"
    BY <1>1, <1>3, <1>13 DEF Look, Order, Running, StepsOf, AllTools
  <2> QED
    BY <1>12, <1>13, <2>1 DEF Look
<1>14. ASSUME Load(p) PROVE All(p)'
  <2>1. tool = "multicrypt" /\ pc[p] = "load" /\ Running(p)
    BY <1>1, <1>3, <1>14 DEF Load, Order, Running, StepsOf, AllTools
  <2>2. CASE Answer(p, "error")
    BY <1>6, <1>14, <2>1, <2>2 DEF Load, Result
  <2>3. CASE Readable(at[p]) /\ NextNameOrOk(p)
    BY <1>1, <1>10, <1>14, <2>1, <2>3 DEF Load, NamesSoFar
  <2> QED
    BY <1>14, <2>2, <2>3 DEF Load, Loads
<1>15. ASSUME Write(p) PROVE All(p)'
  <2>1. tool = "multicrypt" /\ pc[p] = "write" /\ Running(p)
    BY <1>15 DEF Write, Running
  <2>2. CASE Answer(p, "error") /\ UNCHANGED written
    BY <1>6, <1>15, <2>1, <2>2 DEF Write, Result
  <2>3. CASE Goto(p, "persist", at[p]) /\ written' = [written EXCEPT ![p] = @ \cup {at[p]}]
    BY <1>12, <1>15, <2>1, <2>3 DEF Write, TypeOK
  <2> QED
    BY <1>15, <2>2, <2>3 DEF Write
<1>16. ASSUME Persist(p) PROVE All(p)'
  <2>1. tool = "multicrypt" /\ pc[p] = "persist" /\ Running(p)
    BY <1>1, <1>3, <1>16 DEF Persist, Order, Running, StepsOf, AllTools
  <2>2. CASE (\E r \in {"error", "exists"} : Answer(p, r)) /\ UNCHANGED <<dir, created>>
    BY <1>6, <1>16, <2>1, <2>2 DEF Persist, Result
  <2>3. CASE /\ Goto(p, "dirsync", at[p]) /\ Free(p)
             /\ dir' = [dir EXCEPT ![at[p]] = p]
             /\ created' = [created EXCEPT ![p] = @ \cup {at[p]}]
    <3>1. /\ pc'[p] = "dirsync" /\ at'[p] = at[p] /\ result'[p] = result[p]
          /\ dir'[at[p]] = p /\ \A k \in KeyName \ {at[p]} : dir'[k] = dir[k]
          /\ created'[p] = created[p] \cup {at[p]}
          /\ UNCHANGED <<dirDisk, written>>
      BY <1>1, <1>16, <2>3 DEF Goto, TypeOK, Persist
    <3>2. Order(p)' /\ Listed(p)' /\ SetSoFar(p)'
      BY <1>1, <1>3, <1>4, <2>1, <3>1
      DEF Order, Listed, SetSoFar, Running, StepsOf
    <3>3. Holds(p)'
      BY <1>1, <1>11, <2>1, <3>1 DEF Holds
    <3>4. Readable(at[p])'
      BY <1>1, <2>1, <3>1 DEF NamesSoFar, Readable
    <3>5. NamesSoFar(p)'
      BY <1>1, <1>3, <1>5, <2>1, <3>1, <3>4 DEF NamesSoFar, Running
    <3> QED
      BY <3>2, <3>3, <3>5 DEF All
  <2> QED
    BY <1>16, <2>2, <2>3 DEF Persist
<1>17. ASSUME DirSync(p) PROVE All(p)'
  <2>1. /\ tool \in {"multicrypt", "otp1-auth"} /\ pc[p] = "dirsync" /\ Running(p)
        /\ dir' = dir /\ UNCHANGED <<created, written>>
    BY <1>1, <1>3, <1>17 DEF DirSync, KeptAfter, Order, Running, StepsOf, AllTools
  <2>2. CASE Answer(p, "not_synced") /\ dirDisk' = dirDisk
    BY <1>6, <2>1, <2>2 DEF Result
  <2>3. CASE tool = "multicrypt" /\ dirDisk' = dir /\ NextNameOrOk(p)
    BY <1>1, <1>10, <1>11, <2>1, <2>3 DEF NamesSoFar
  <2>4. CASE tool = "otp1-auth" /\ dirDisk' = dir /\ Answer(p, "ok")
    <3>1. pc'[p] = "done" /\ result'[p] = "ok"
      BY <2>4 DEF Answer, TypeOK
    <3> QED
      BY <1>1, <1>3, <1>4, <2>1, <2>4, <3>1
      DEF All, Order, Holds, Listed, SetSoFar, NamesSoFar, Running
  <2> QED
    BY <1>17, <2>1, <2>2, <2>3, <2>4 DEF DirSync, KeptAfter
<1>18. ASSUME Create(p) \/ Fill(p) \/ Flush(p) \/ Identify(p) PROVE All(p)'
  <2>1. /\ tool \in {"otp1-auth", "tf1024"} /\ Running(p) /\ tool' = tool
        /\ pc[p] \in {"write", "fill", "flush", "identify"} /\ dirDisk' = dirDisk
    BY <1>1, <1>3, <1>18
    DEF Create, Fill, Flush, Identify, Order, Running, StepsOf, AllTools
  <2>2. SetSoFar(p)' /\ NamesSoFar(p)'
    BY <2>1 DEF SetSoFar, NamesSoFar
  <2>3. CASE (\E r \in {"error", "ok"} : Answer(p, r)) /\ created' = created
    <3>1. pc'[p] = "done" /\ result'[p] \in {"error", "ok"}
      BY <2>3 DEF Answer, TypeOK
    <3>2. \A k \in KeyName : dir'[k] = p => dir[k] = p
      BY <1>1, <1>18, <2>3 DEF Create, Fill, Flush, Withdraw, Identify, TypeOK, Goto, Answer
    <3> QED
      BY <1>1, <1>4, <2>1, <2>2, <2>3, <3>1, <3>2 DEF All, Order, Holds, Listed, Running
  <2>4. CASE /\ Goto(p, "fill", at[p]) /\ dir' = [dir EXCEPT ![at[p]] = p]
             /\ created' = [created EXCEPT ![p] = {at[p]}] /\ Create(p)
    <3>1. /\ pc'[p] = "fill" /\ result'[p] = result[p] /\ created'[p] = {at[p]}
          /\ dir'[at[p]] = p
      BY <1>1, <2>4 DEF Goto, TypeOK
    <3>2. created[p] = {}
      BY <1>1, <2>1, <2>4 DEF Create, Order
    <3>3. \A k \in KeyName : ~(k # at[p] /\ (dir'[k] = p \/ dirDisk'[k] = p))
      BY <1>1, <1>4, <2>1, <2>4, <3>2 DEF Listed, TypeOK, Create, Running
    <3> QED
      BY <1>1, <1>4, <2>1, <2>2, <3>1, <3>3 DEF All, Order, Holds, Listed, Running, StepsOf
  <2>5. CASE \E s \in {"flush", "identify", "dirsync"} :
               Goto(p, s, at[p]) /\ UNCHANGED <<dir, created>>
               /\ (s # "flush" => tool = "otp1-auth")
    <3>1. /\ pc'[p] \in StepsOf(tool) \cap {"flush", "identify", "dirsync"}
          /\ result'[p] = result[p] /\ at'[p] = at[p]
          /\ UNCHANGED <<dir, created>>
      BY <2>1, <2>5 DEF Goto, TypeOK, StepsOf
    <3> QED
      BY <1>1, <1>4, <2>1, <2>2, <3>1 DEF All, Order, Holds, Listed, Running
  <2>6. Identify(p) => tool = "otp1-auth"
    BY <1>1, <1>3, <1>18 DEF Identify, Order, Running, StepsOf, AllTools
  <2> QED
    BY <1>18, <2>1, <2>3, <2>4, <2>5, <2>6 DEF Create, Fill, Flush, Withdraw, Identify
<1> QED
  BY <1>7, <1>8, <1>9, <1>13, <1>14, <1>15, <1>16, <1>17, <1>18
-----------------------------------------------------------------------------
(* The surroundings, and the invariant.                                    *)

LEMMA SurroundingsShape ==
    ASSUME TypeOK, Shape, NEW q \in Proc,
           Intrude \/ WriteBack \/ PowerLoss \/ UNCHANGED vars
    PROVE  All(q)'
<1> USE Basics
<1>1. /\ Order(q) /\ Holds(q) /\ Listed(q) /\ SetSoFar(q) /\ NamesSoFar(q)
      /\ at[q] \in KeyName /\ created[q] \subseteq KeyName
  BY DEF Shape, TypeOK
<1>2. CASE Intrude
  <2>1. PICK k \in KeyName, m \in {Good, Junk} :
          /\ dir[k] = None /\ dir' = [dir EXCEPT ![k] = m] /\ losses' = losses
          /\ UNCHANGED <<tool, dirDisk, written, pc, at, created, trouble, result>>
    BY <1>2 DEF Intrude, place
  <2>2. \A j \in KeyName, r \in Proc : dir'[j] = r <=> dir[j] = r
    BY <2>1 DEF TypeOK
  <2>3. \A j \in KeyName : Readable(j) => Readable(j)'
    BY <2>1 DEF Readable, TypeOK
  <2>4. (Order(q) /\ Listed(q) /\ SetSoFar(q))'
    BY <1>1, <2>1, <2>2 DEF Order, Listed, SetSoFar, Running
  <2>5. Holds(q)'
    BY <1>1, <2>1, <2>2 DEF Holds, Running
  <2>6. NamesSoFar(q)'
    BY <1>1, <2>1, <2>2, <2>3 DEF NamesSoFar, Running
  <2> QED
    BY <2>4, <2>5, <2>6 DEF All
<1>3. CASE WriteBack
  <2>1. /\ \A k \in KeyName : dirDisk'[k] \in {dirDisk[k], dir[k]}
        /\ UNCHANGED <<tool, dir, written, pc, at, created, trouble, result, losses>>
    BY <1>3 DEF WriteBack, place, TypeOK
  <2>2. (Order(q) /\ Holds(q) /\ Listed(q) /\ SetSoFar(q))'
    BY <1>1, <2>1 DEF Order, Holds, Listed, SetSoFar, Running
  <2>3. NamesSoFar(q)'
    <3> SUFFICES ASSUME tool = "multicrypt" PROVE NamesSoFar(q)'
      BY <2>1 DEF NamesSoFar
    <3>1. \A k \in KeyName : Readable(k)' = Readable(k)
      BY <2>1 DEF Readable
    <3>2. Running(q) => pc[q] \notin {"rollback", "rollbacksync"}
      BY <1>1 DEF Order, StepsOf
    <3>3. Running(q) => \A k \in created[q] : dir[k] = q
      BY <1>1, <3>2 DEF Holds
    <3>4. (Running(q) => \A k \in created[q] :
             dirDisk[k] = q \/ (pc[q] = "dirsync" /\ k = at[q]))'
      BY <1>1, <2>1, <3>3 DEF NamesSoFar, Running
    <3> QED
      BY <1>1, <2>1, <3>1, <3>4 DEF NamesSoFar, Running
  <2> QED
    BY <2>2, <2>3 DEF All
<1>4. CASE PowerLoss
  <2>1. /\ UNCHANGED <<tool, dirDisk, at, created, trouble>> /\ dir' = dirDisk
        /\ losses' = losses + 1
        /\ pc'[q] = IF pc[q] = "idle" THEN "idle" ELSE "done"
        /\ result'[q] = IF pc[q] \in {"idle", "done"} THEN result[q] ELSE "killed"
    BY <1>4 DEF PowerLoss, place
  <2>2. tool = "multicrypt" => written'[q] = written[q]
    <3> SUFFICES ASSUME tool = "multicrypt" PROVE written'[q] = written[q]
      OBVIOUS
    <3>1. pc[q] # "flush"
      BY <1>1 DEF Order, Running, StepsOf
    <3> QED
      BY <1>4, <3>1 DEF PowerLoss
  <2>3. losses' # 0
    BY <2>1, KeySetAssumption DEF TypeOK
  <2>4. Order(q)' /\ Holds(q)' /\ SetSoFar(q)'
    BY <1>1, <2>1 DEF Order, Holds, SetSoFar, Running
  <2>5. Listed(q)'
    BY <1>1, <2>1 DEF Listed, Order, Running
  <2>6. NamesSoFar(q)'
    BY <1>1, <2>1, <2>2, <2>3 DEF NamesSoFar, Running
  <2> QED
    BY <2>4, <2>5, <2>6 DEF All
<1>5. CASE UNCHANGED vars
  <2>1. UNCHANGED <<tool, dir, dirDisk, written, pc, at, created, trouble, result, losses>>
    BY <1>5 DEF vars, place
  <2>2. \A k \in KeyName : Readable(k)' = Readable(k)
    BY <2>1 DEF Readable
  <2> QED
    BY <1>1, <2>1, <2>2 DEF All, Order, Holds, Listed, SetSoFar, NamesSoFar, Running
<1> QED
  BY <1>2, <1>3, <1>4, <1>5

LEMMA Actor ==
    ASSUME TypeOK, Shape, NEW p \in Proc, StepOf(p) \/ Kill(p) PROVE All(p)'
BY ActorCascade, ActorOthers DEF StepOf

LEMMA ShapeStep == TypeOK /\ Shape /\ [Next]_vars => Shape'
<1> SUFFICES ASSUME TypeOK, Shape, [Next]_vars PROVE Shape'
  OBVIOUS
<1>1. fallback' = fallback /\ tool' = tool
  <2>1. CASE \E p \in Proc : StepOf(p) \/ Kill(p)
    BY <2>1, Synchronised DEF Behind
  <2>2. CASE Intrude \/ WriteBack \/ PowerLoss \/ UNCHANGED vars
    BY <2>2 DEF Intrude, WriteBack, PowerLoss, vars, place
  <2> QED
    BY <2>1, <2>2 DEF Next
<1>2. ASSUME NEW q \in Proc PROVE All(q)'
  <2>1. CASE \E p \in Proc : StepOf(p) \/ Kill(p)
    BY <2>1, Actor, OthersShape DEF All
  <2>2. CASE Intrude \/ WriteBack \/ PowerLoss \/ UNCHANGED vars
    BY <2>2, SurroundingsShape
  <2> QED
    BY <2>1, <2>2 DEF Next
<1> QED
  BY <1>1, <1>2 DEF Shape, All

LEMMA InitShape == Init => Shape
<1> SUFFICES ASSUME Init PROVE Shape
  OBVIOUS
<1>1. fallback => tool = "cascade"
  BY DEF Init
<1>2. ASSUME NEW p \in Proc PROVE Order(p) /\ Holds(p) /\ Listed(p) /\ SetSoFar(p) /\ NamesSoFar(p)
  BY Basics DEF Init, Order, Holds, Listed, SetSoFar, NamesSoFar, Running
<1> QED
  BY <1>1, <1>2 DEF Shape

\* A key of somebody else is never overwritten or removed by a generation.
THEOREM NobodyElseRemoves == Spec => OnlyTheMakerRemoves
<1> DEFINE Taken(k) == dir[k] # None /\ dir'[k] # dir[k] =>
          /\ dir'[k] = None \/ losses' # losses
          /\ losses' # losses \/ \E p \in Proc :
                dir[k] = p /\ pc[p] \in {"rollback", "fill", "flush"}
<1>1. TypeOK /\ Shape /\ [Next]_vars => [\A k \in KeyName : Taken(k)]_vars
  <2> SUFFICES ASSUME TypeOK, Shape, [Next]_vars, NEW k \in KeyName,
                      dir[k] # None, dir'[k] # dir[k]
               PROVE  Taken(k)
    OBVIOUS
  <2>1. CASE \E p \in Proc : StepOf(p) \/ Kill(p)
    <3>1. PICK p \in Proc : StepOf(p) \/ Kill(p)
      BY <2>1
    <3>2. Move(p)
      BY <3>1, Moves
    <3> QED
      BY <3>2 DEF Move, TypeOK
  <2>2. CASE PowerLoss
    BY <2>2, KeySetAssumption DEF PowerLoss, TypeOK
  <2>3. CASE Intrude \/ WriteBack \/ UNCHANGED vars
    BY <2>3 DEF Intrude, WriteBack, vars, TypeOK
  <2> QED
    BY <2>1, <2>2, <2>3 DEF Next
<1> QED
  BY <1>1, InitType, TypeStep, InitShape, ShapeStep, PTL DEF Spec, OnlyTheMakerRemoves

\* What a reader accepts is complete, whatever its generator is still doing.
THEOREM ReadersGetWholeKeys == Spec => ReaderGetsWholeKey
<1> DEFINE Whole == \A p \in Proc, k \in KeyName, m \in Maker :
          got'[p] = <<k, m>> /\ got[p] # got'[p] =>
             m # Junk /\ (m \in Proc => k \in written[m])
<1>1. TypeOK /\ [Next]_vars => [Whole]_vars
  <2> SUFFICES ASSUME TypeOK, [Next]_vars, NEW p \in Proc, NEW k \in KeyName,
                      NEW m \in Maker, got'[p] = <<k, m>>, got[p] # got'[p]
               PROVE  m # Junk /\ (m \in Proc => k \in written[m])
    OBVIOUS
  <2>1. Use(p)
    <3>1. \E q \in Proc : StepOf(q) \/ Kill(q)
      BY DEF Next, Intrude, WriteBack, PowerLoss, vars
    <3>2. StepOf(p) \/ Kill(p)
      BY <3>1, OthersApart DEF Apart
    <3> QED
      BY <3>2 DEF StepOf, Start, Precheck, Stage, Publish, UnlinkTemp, Rollback,
         RollbackSync, Sync, Look, Load, Write, Persist, DirSync, Create, Fill,
         Flush, Identify, Kill
  <2>2. PICK j \in KeyName : Readable(j) /\ got' = [got EXCEPT ![p] = <<j, dir[j]>>]
    BY <2>1 DEF Use
  <2>3. k = j /\ m = dir[j]
    BY <2>2 DEF TypeOK
  <2> QED
    BY <2>2, <2>3, Basics DEF Readable
<1> QED
  BY <1>1, InitType, TypeStep, PTL DEF Spec, ReaderGetsWholeKey
-----------------------------------------------------------------------------
(* What the answers promise.                                               *)

Promises == SuccessIsOwnSetOnDisk /\ PlainFailureLeavesNothing /\ SuccessIsUsable

\* A process that takes a step has not answered yet.
LEMMA Answering ==
    ASSUME TypeOK, Shape, NEW p \in Proc, StepOf(p) \/ Kill(p)
    PROVE  pc[p] # "done" /\ result[p] = "none" /\ tool' = tool /\ tool \in AllTools
<1>1. pc[p] # "done"
  BY DEF StepOf, Start, Use, Precheck, Stage, Publish, UnlinkTemp, Rollback,
     RollbackSync, Sync, Look, Load, Write, Persist, DirSync, Create, Fill,
     Flush, Identify, Kill
<1>2. result[p] = "none"
  BY <1>1 DEF Shape, Order
<1> QED
  BY <1>1, <1>2, Synchronised, KeySetAssumption DEF Behind, TypeOK

\* A set is reported as made when it is all there and on disk.
LEMMA NewSuccess ==
    ASSUME TypeOK, Shape, NEW p \in Proc, StepOf(p) \/ Kill(p), result'[p] = "ok",
           tool \in {"cascade", "be"}, NEW k \in KeyName
    PROVE  dir'[k] = p /\ dirDisk'[k] = p
<1> USE Basics DEF Goto, Answer, TypeOK
<1>1. result[p] = "none" /\ Order(p) /\ Holds(p) /\ SetSoFar(p)
  BY Answering DEF Shape
<1>2. Sync(p)
  <2>1. ~ (Look(p) \/ Load(p) \/ Write(p) \/ Persist(p) \/ DirSync(p) \/ Create(p)
           \/ Fill(p) \/ Flush(p) \/ Identify(p))
    BY <1>1 DEF Look, Load, Write, Persist, DirSync, Create, Fill, Flush, Identify,
       Order, Running, StepsOf
  <2>2. ~ (Start(p) \/ Use(p) \/ Precheck(p) \/ Stage(p) \/ UnlinkTemp(p)
           \/ Rollback(p) \/ RollbackSync(p) \/ Kill(p))
    BY <1>1 DEF Start, Use, Precheck, Stage, UnlinkTemp, Rollback, RollbackSync,
       Kill, NextKeyOr, Report
  <2>3. ~ Publish(p)
    BY <1>1 DEF Publish, PublishedByRename, PublishedByLink, NotPublished, NextKeyOr
  <2> QED
    BY <2>1, <2>2, <2>3 DEF StepOf
<1>3. pc[p] = "sync" /\ dir' = dir /\ dirDisk' = dir
  BY <1>2 DEF Sync, SetSynced
<1>4. k \in created[p]
  BY <1>1, <1>3 DEF SetSoFar
<1> QED
  BY <1>1, <1>3, <1>4 DEF Holds, Running

\* A plain failure is reported when nothing has been made, or all of it is
\* gone again, on disk as well.
LEMMA NewFailure ==
    ASSUME TypeOK, Shape, NEW p \in Proc, StepOf(p) \/ Kill(p),
           result'[p] \in {"exists", "error"}, tool = "cascade", NEW k \in KeyName
    PROVE  dir'[k] # p /\ dirDisk'[k] # p
<1> USE Basics DEF Goto, Answer, TypeOK
<1>1. result[p] = "none" /\ Order(p) /\ Listed(p) /\ SetSoFar(p)
  BY Answering DEF Shape
<1>2. Use(p) \/ Precheck(p) \/ Stage(p) \/ RollbackSync(p)
  <2>1. ~ (Look(p) \/ Load(p) \/ Write(p) \/ Persist(p) \/ DirSync(p) \/ Create(p)
           \/ Fill(p) \/ Flush(p) \/ Identify(p))
    BY <1>1 DEF Look, Load, Write, Persist, DirSync, Create, Fill, Flush, Identify,
       Order, Running, StepsOf
  <2>2. ~ (Start(p) \/ UnlinkTemp(p) \/ Rollback(p) \/ Sync(p) \/ Kill(p))
    BY <1>1 DEF Start, UnlinkTemp, Rollback, Sync, Kill, NextKeyOr
  <2>3. ~ Publish(p)
    BY <1>1 DEF Publish, PublishedByRename, PublishedByLink, NotPublished, NextKeyOr
  <2> QED
    BY <2>1, <2>2, <2>3 DEF StepOf
<1>3. CASE Use(p) \/ Precheck(p) \/ Stage(p)
  <2>1. created[p] = {} /\ pc[p] # "unlinktemp" /\ UNCHANGED <<dir, dirDisk>>
    BY <1>1, <1>3 DEF Use, Precheck, Stage, Order, SetSoFar
  <2> QED
    BY <1>1, <2>1 DEF Listed
<1>4. CASE RollbackSync(p)
  <2>1. result'[p] = Report(trouble'[p]) /\ dir' = dir
    BY <1>4 DEF RollbackSync
  <2>2. "rollback" \notin trouble'[p]
    BY <2>1 DEF Report
  <2>3. "rollback" \notin trouble[p] /\ ((created[p] = {} /\ dirDisk' = dirDisk) \/ dirDisk' = dir)
    BY <1>4, <2>2 DEF RollbackSync, RemovalSynced
  <2>4. dir[k] # p
    BY <1>1, <1>4, <2>3 DEF SetSoFar, RollbackSync
  <2>5. created[p] = {} => dirDisk[k] # p
    BY <1>1, <1>4 DEF Listed, RollbackSync
  <2> QED
    BY <2>1, <2>3, <2>4, <2>5
<1> QED
  BY <1>2, <1>3, <1>4

\* multicrypt has looked at all names, and synchronised what it has created.
LEMMA NewUsable ==
    ASSUME TypeOK, Shape, NEW p \in Proc, StepOf(p) \/ Kill(p), result'[p] = "ok",
           tool = "multicrypt"
    PROVE  /\ \A k \in created'[p] : dir'[k] = p /\ dirDisk'[k] = p
           /\ losses' = 0 => \A k \in KeyName : Readable(k)'
<1> USE Basics DEF Goto, Answer, TypeOK
<1>1. result[p] = "none" /\ Order(p) /\ Holds(p) /\ NamesSoFar(p) /\ losses' = losses
  BY Answering, Synchronised DEF Shape, Behind
<1>2. Load(p) \/ DirSync(p)
  <2>1. ~ (Precheck(p) \/ Stage(p) \/ Publish(p) \/ UnlinkTemp(p) \/ Rollback(p)
           \/ RollbackSync(p) \/ Sync(p) \/ Fill(p) \/ Flush(p) \/ Identify(p))
    BY <1>1 DEF Precheck, Stage, Publish, UnlinkTemp, Rollback, RollbackSync, Sync,
       Fill, Flush, Identify, Order, Running, StepsOf
  <2>2. ~ (Start(p) \/ Use(p) \/ Look(p) \/ Write(p) \/ Persist(p) \/ Create(p) \/ Kill(p))
    BY <1>1 DEF Start, Use, Look, Write, Persist, Create, Kill
  <2> QED
    BY <2>1, <2>2 DEF StepOf
<1>3. /\ pc[p] \in {"load", "dirsync"} /\ UNCHANGED <<dir, created>>
      /\ at[p] = NKeys /\ at[p] \in KeyName
      /\ pc[p] = "load" => Readable(at[p]) /\ dirDisk' = dirDisk
      /\ pc[p] = "dirsync" => dirDisk' = dir
  <2>1. NextNameOrOk(p)
    BY <1>1, <1>2 DEF Load, DirSync
  <2>2. at[p] = NKeys
    BY <1>1, <2>1, NextNameGoes
  <2> QED
    BY <1>1, <1>2, <2>2 DEF Load, Loads, DirSync, KeptAfter
<1>4. \A k \in created[p] : dir[k] = p
  BY <1>1, <1>3 DEF Holds, Running
<1>5. \A k \in created[p] : dirDisk'[k] = p
  BY <1>1, <1>3, <1>4 DEF NamesSoFar, Running
<1>6. losses = 0 => \A k \in KeyName : Readable(k)
  BY <1>1, <1>3 DEF NamesSoFar, Running
<1> QED
  BY <1>1, <1>3, <1>4, <1>5, <1>6, StaysReadable

LEMMA PromisesStep == TypeOK /\ Shape /\ Promises /\ [Next]_vars => Promises'
<1> SUFFICES ASSUME TypeOK, Shape, Promises, [Next]_vars PROVE Promises'
  OBVIOUS
<1> USE DEF Promises
<1>1. CASE \E p \in Proc : StepOf(p) \/ Kill(p)
  <2>1. PICK p \in Proc : StepOf(p) \/ Kill(p)
    BY <1>1
  <2>2. tool' = tool /\ losses' = losses
    BY <2>1, Synchronised DEF Behind
  <2>3. ASSUME NEW q \in Proc, q # p, NEW k \in KeyName
        PROVE  /\ result'[q] = result[q] /\ created'[q] = created[q]
               /\ dir'[k] = q <=> dir[k] = q
               /\ dirDisk'[k] = q => dir[k] = q \/ dirDisk[k] = q
               /\ dir[k] = q /\ dirDisk[k] = q => dirDisk'[k] = q
    BY <2>1, <2>3, OthersApart, OthersKeys DEF Apart
  <2>4. SuccessIsOwnSetOnDisk'
    <3> SUFFICES ASSUME NEW q \in Proc, tool \in {"cascade", "be"}, result'[q] = "ok",
                        NEW k \in KeyName
                 PROVE  dir'[k] = q /\ dirDisk'[k] = q
      BY <2>2 DEF SuccessIsOwnSetOnDisk
    <3>1. CASE q = p
      BY <2>1, <3>1, NewSuccess
    <3>2. CASE q # p
      BY <2>3, <3>2 DEF SuccessIsOwnSetOnDisk
    <3> QED
      BY <3>1, <3>2
  <2>5. PlainFailureLeavesNothing'
    <3> SUFFICES ASSUME NEW q \in Proc, tool = "cascade",
                        result'[q] \in {"exists", "error"}, NEW k \in KeyName
                 PROVE  dir'[k] # q /\ dirDisk'[k] # q
      BY <2>2 DEF PlainFailureLeavesNothing
    <3>1. CASE q = p
      BY <2>1, <3>1, NewFailure
    <3>2. CASE q # p
      BY <2>3, <3>2 DEF PlainFailureLeavesNothing
    <3> QED
      BY <3>1, <3>2
  <2>6. SuccessIsUsable'
    <3> SUFFICES ASSUME NEW q \in Proc, tool = "multicrypt", result'[q] = "ok"
                 PROVE  /\ \A k \in created'[q] : dir'[k] = q /\ dirDisk'[k] = q
                        /\ losses = 0 => \A k \in KeyName : Readable(k)'
      BY <2>2 DEF SuccessIsUsable
    <3>1. CASE q = p
      BY <2>1, <2>2, <3>1, NewUsable
    <3>2. CASE q # p
      <4>1. created[q] \subseteq KeyName
        BY DEF TypeOK
      <4>2. \A k \in created'[q] : dir'[k] = q /\ dirDisk'[k] = q
        <5>1. result'[q] = result[q] /\ created'[q] = created[q]
          BY <2>1, <3>2, OthersApart DEF Apart
        <5> QED
          BY <2>3, <3>2, <4>1, <5>1 DEF SuccessIsUsable
      <4>3. result[q] = "ok"
        BY <2>1, <3>2, OthersApart DEF Apart
      <4> QED
        BY <2>1, <4>2, <4>3, StaysReadable DEF SuccessIsUsable
    <3> QED
      BY <3>1, <3>2
  <2> QED
    BY <2>4, <2>5, <2>6
<1>2. CASE Intrude
  <2>1. PICK k \in KeyName, m \in {Good, Junk} :
          /\ dir[k] = None /\ dir' = [dir EXCEPT ![k] = m]
          /\ UNCHANGED <<tool, dirDisk, written, created, result, losses>>
    BY <1>2 DEF Intrude, place
  <2>2. \A j \in KeyName, r \in Proc : dir'[j] = r <=> dir[j] = r
    BY <2>1, Basics DEF TypeOK
  <2>3. \A j \in KeyName : Readable(j) => Readable(j)'
    BY <2>1, Basics DEF Readable, TypeOK
  <2>4. \A r \in Proc : created[r] \subseteq KeyName
    BY DEF TypeOK
  <2>5. SuccessIsOwnSetOnDisk' /\ PlainFailureLeavesNothing'
    BY <2>1, <2>2 DEF SuccessIsOwnSetOnDisk, PlainFailureLeavesNothing
  <2>6. SuccessIsUsable'
    BY <2>1, <2>2, <2>3, <2>4 DEF SuccessIsUsable
  <2> QED
    BY <2>5, <2>6
<1>3. CASE WriteBack \/ UNCHANGED vars
  <2>1. /\ \A k \in KeyName : dirDisk'[k] \in {dirDisk[k], dir[k]}
        /\ UNCHANGED <<tool, dir, written, created, result, losses>>
    BY <1>3 DEF WriteBack, vars, place, TypeOK
  <2>2. \A j \in KeyName : Readable(j)' = Readable(j)
    BY <2>1 DEF Readable
  <2>3. \A r \in Proc : created[r] \subseteq KeyName
    BY DEF TypeOK
  <2>4. SuccessIsOwnSetOnDisk' /\ PlainFailureLeavesNothing'
    BY <2>1 DEF SuccessIsOwnSetOnDisk, PlainFailureLeavesNothing
  <2>5. SuccessIsUsable'
    BY <2>1, <2>2, <2>3 DEF SuccessIsUsable
  <2> QED
    BY <2>4, <2>5
<1>4. CASE PowerLoss
  <2>1. /\ UNCHANGED <<tool, dirDisk, created>> /\ dir' = dirDisk /\ losses' # 0
        /\ \A q \in Proc : result'[q] \in {result[q], "killed"}
    BY <1>4, KeySetAssumption DEF PowerLoss, place, TypeOK
  <2> QED
    BY <2>1 DEF SuccessIsOwnSetOnDisk, PlainFailureLeavesNothing, SuccessIsUsable
<1> QED
  BY <1>1, <1>2, <1>3, <1>4 DEF Next

\* Success is a whole set that can be used and stays, and a plain failure
\* leaves nothing behind, whoever else generates, fails or is killed.
THEOREM AnswersAreTrue == Spec => []Inv
<1>1. Init => Promises
  BY DEF Init, Promises, SuccessIsOwnSetOnDisk, PlainFailureLeavesNothing, SuccessIsUsable
<1>2. TypeOK /\ Promises => Inv
  BY DEF Inv, Promises
<1> QED
  BY <1>1, <1>2, InitType, TypeStep, InitShape, ShapeStep, PromisesStep, PTL DEF Spec
-----------------------------------------------------------------------------
(* Keys in use.                                                            *)

\* What may be relied on stays: every key in multicrypt, the last of a set.
LEMMA StaysInUse ==
    ASSUME TypeOK, Shape, [Next]_vars, losses' = losses, NEW k \in KeyName, dir[k] # None,
           tool = "multicrypt" \/ (tool \in {"cascade", "be"} /\ k = NKeys)
    PROVE  dir'[k] = dir[k] /\ tool' = tool
<1>1. CASE \E p \in Proc : StepOf(p) \/ Kill(p)
  <2>1. PICK p \in Proc : StepOf(p) \/ Kill(p)
    BY <1>1
  <2>2. Move(p) /\ tool' = tool
    BY <2>1, Moves, Synchronised DEF Behind
  <2>3. Order(p) /\ Listed(p) /\ SetSoFar(p)
    BY DEF Shape
  <2>4. ~ (dir[k] = p /\ pc[p] \in {"rollback", "fill", "flush"})
    <3> SUFFICES ASSUME dir[k] = p, pc[p] \in {"rollback", "fill", "flush"} PROVE FALSE
      OBVIOUS
    <3>1. tool \in {"cascade", "be"} /\ k = NKeys /\ pc[p] = "rollback" /\ result[p] = "none"
      BY <2>3 DEF Order, Running, StepsOf, TypeOK
    <3> QED
      BY <2>3, <3>1 DEF Listed, SetSoFar
  <2> QED
    BY <2>2, <2>4 DEF Move, TypeOK
<1>2. CASE PowerLoss
  BY <1>2, KeySetAssumption DEF PowerLoss, TypeOK
<1>3. CASE Intrude \/ WriteBack \/ UNCHANGED vars
  BY <1>3 DEF Intrude, WriteBack, vars, place, TypeOK
<1> QED
  BY <1>1, <1>2, <1>3 DEF Next

\* A process whose last key is there keeps the others, too.
LEMMA SetStays ==
    ASSUME TypeOK, Shape, LastOfAll, [Next]_vars, losses' = 0, losses = 0,
           tool \in {"cascade", "be"}, NEW q \in Proc, dir[NKeys] = q, NEW k \in KeyName
    PROVE  dir[k] = q /\ dir'[k] = q
<1> USE Basics
<1>1. dir[k] = q
  BY DEF LastOfAll
<1>2. CASE \E p \in Proc : StepOf(p) \/ Kill(p)
  <2>1. PICK p \in Proc : StepOf(p) \/ Kill(p)
    BY <1>2
  <2>2. Move(p)
    BY <2>1, Moves
  <2>3. CASE p # q
    BY <1>1, <2>1, <2>3, OthersKeys
  <2>4. CASE p = q
    <3>1. Order(q) /\ Listed(q) /\ SetSoFar(q)
      BY DEF Shape
    <3>2. ~ (pc[q] \in {"rollback", "fill", "flush"})
      BY <3>1 DEF Order, Running, StepsOf, Listed, SetSoFar, TypeOK
    <3> QED
      BY <1>1, <2>2, <2>4, <3>2 DEF Move, TypeOK
  <2> QED
    BY <2>3, <2>4
<1>3. CASE PowerLoss
  BY <1>3, KeySetAssumption DEF PowerLoss, TypeOK
<1>4. CASE Intrude \/ WriteBack \/ UNCHANGED vars
  BY <1>1, <1>4 DEF Intrude, WriteBack, vars, place, TypeOK
<1> QED
  BY <1>1, <1>2, <1>3, <1>4 DEF Next

LEMMA LossesStep ==
    ASSUME TypeOK, [Next]_vars, losses' = 0
    PROVE  losses = 0 /\ tool' = tool /\ ~PowerLoss
<1>1. ~PowerLoss
  BY KeySetAssumption DEF PowerLoss, TypeOK
<1>2. CASE \E p \in Proc : StepOf(p) \/ Kill(p)
  BY <1>1, <1>2, Synchronised DEF Behind
<1>3. CASE Intrude \/ WriteBack \/ UNCHANGED vars
  BY <1>1, <1>3 DEF Intrude, WriteBack, vars, place
<1> QED
  BY <1>1, <1>2, <1>3 DEF Next

LEMMA LastStep == TypeOK /\ Shape /\ LastOfAll /\ [Next]_vars => LastOfAll'
<1> SUFFICES ASSUME TypeOK, Shape, LastOfAll, [Next]_vars, losses' = 0,
                    tool' \in {"cascade", "be"}, NEW q \in Proc, dir'[NKeys] = q,
                    NEW k \in KeyName
             PROVE  dir'[k] = q
  BY DEF LastOfAll
<1> USE Basics
<1>1. losses = 0 /\ tool' = tool /\ ~PowerLoss
  BY LossesStep
<1>2. CASE dir[NKeys] = q
  BY <1>1, <1>2, SetStays
<1>3. CASE dir[NKeys] # q
  <2>1. PICK p \in Proc : StepOf(p) \/ Kill(p)
    BY <1>1, <1>3 DEF Next, Intrude, WriteBack, vars, TypeOK
  <2>2. p = q /\ Move(p)
    BY <1>3, <2>1, OthersKeys, Moves
  <2>3. at[q] = NKeys /\ dir' = [dir EXCEPT ![NKeys] = q] /\ dir[NKeys] = None
    BY <1>3, <2>2 DEF Move, TypeOK
  <2>4. Publish(q)
    <3>1. Order(q)
      BY DEF Shape
    <3>2. ~ (Look(q) \/ Load(q) \/ Write(q) \/ Persist(q) \/ DirSync(q) \/ Create(q)
             \/ Fill(q) \/ Flush(q) \/ Identify(q))
      BY <1>1, <3>1 DEF Look, Load, Write, Persist, DirSync, Create, Fill, Flush,
         Identify, Order, Running, StepsOf
    <3>3. ~ (Start(q) \/ Use(q) \/ Precheck(q) \/ Stage(q) \/ UnlinkTemp(q)
             \/ RollbackSync(q) \/ Sync(q) \/ Kill(q))
      BY <1>3 DEF Start, Use, Precheck, Stage, UnlinkTemp, RollbackSync, Sync, Kill
    <3>4. ~ Rollback(q)
      BY <1>3, <2>3 DEF Rollback, TypeOK
    <3>5. Publish(q)
      BY <2>1, <2>2, <3>2, <3>3, <3>4 DEF StepOf
    <3> QED
      BY <3>5
  <2>5. pc[q] = "publish"
    BY <2>4 DEF Publish
  <2>6. created[q] = 1..NKeys - 1 /\ Holds(q)
    BY <1>1, <2>3, <2>5 DEF Shape, SetSoFar
  <2>7. CASE k = NKeys
    BY <2>7
  <2>8. CASE k # NKeys
    <3>1. k \in created[q]
      BY <2>6, <2>8 DEF KeyName
    <3>2. dir[k] = q
      BY <2>5, <2>6, <3>1 DEF Holds, Running
    <3> QED
      BY <2>3, <2>8, <3>2 DEF TypeOK
  <2> QED
    BY <2>7, <2>8
<1> QED
  BY <1>2, <1>3

LEMMA InUseStep ==
    TypeOK /\ Shape /\ LastOfAll /\ KeyInUseStays /\ [Next]_vars => KeyInUseStays'
<1> SUFFICES ASSUME TypeOK, Shape, LastOfAll, KeyInUseStays, [Next]_vars, losses' = 0,
                    NEW p \in Proc, NEW k \in KeyName, NEW m \in Maker,
                    got'[p] = <<k, m>>
             PROVE  /\ tool' = "multicrypt" \/ (tool' = "be" /\ k = 2) => dir'[k] = m
                    /\ tool' = "be" /\ k = 2 /\ m \in Proc => dir'[1] = m
  BY DEF KeyInUseStays
<1> USE Basics
<1>1. losses = 0 /\ tool' = tool
  BY LossesStep
<1>2. tool = "be" => NKeys = 2
  BY KeySetAssumption DEF TypeOK
<1>3. /\ tool = "multicrypt" \/ (tool = "be" /\ k = 2) => dir[k] = m
      /\ tool = "be" /\ k = 2 /\ m \in Proc => dir[1] = m
  <2>1. CASE got[p] = <<k, m>>
    BY <1>1, <2>1 DEF KeyInUseStays
  <2>2. CASE got[p] # <<k, m>>
    <3>1. \E q \in Proc : StepOf(q) \/ Kill(q)
      BY <2>2 DEF Next, Intrude, WriteBack, PowerLoss, vars
    <3>2. StepOf(p) \/ Kill(p)
      BY <2>2, <3>1, OthersApart DEF Apart
    <3>3. Use(p)
      BY <2>2, <3>2 DEF StepOf, Start, Precheck, Stage, Publish, UnlinkTemp,
         Rollback, RollbackSync, Sync, Look, Load, Write, Persist, DirSync, Create,
         Fill, Flush, Identify, Kill
    <3>4. dir[k] = m
      BY <2>2, <3>3 DEF Use, TypeOK
    <3> QED
      BY <1>1, <1>2, <3>4 DEF LastOfAll
  <2> QED
    BY <2>1, <2>2
<1>4. m # None
  OBVIOUS
<1>5. tool = "multicrypt" \/ (tool = "be" /\ k = 2) => dir'[k] = m
  BY <1>1, <1>2, <1>3, <1>4, StaysInUse
<1>6. tool = "be" /\ k = 2 /\ m \in Proc => dir'[1] = m
  BY <1>1, <1>2, <1>3, SetStays
<1> QED
  BY <1>1, <1>5, <1>6

\* A key that somebody has accepted, and may have encrypted under, is not
\* taken away by a generation that fails.
THEOREM InUseStays == Spec => []KeyInUseStays
<1>1. Init => LastOfAll /\ KeyInUseStays
  <2> SUFFICES ASSUME Init PROVE LastOfAll /\ KeyInUseStays
    OBVIOUS
  <2>1. LastOfAll
    BY Basics DEF Init, LastOfAll
  <2>2. \A k \in KeyName, m \in Maker : None # <<k, m>>
    BY KeySetAssumption
  <2>3. KeyInUseStays
    BY <2>2 DEF Init, KeyInUseStays
  <2> QED
    BY <2>1, <2>3
<1> QED
  BY <1>1, InitType, TypeStep, InitShape, ShapeStep, LastStep, InUseStep, PTL DEF Spec
-----------------------------------------------------------------------------
(* Implementing KeyPromise.                                                *)

Single == tool \in {"otp1-auth", "tf1024"}

\* otp1-auth and tf1024 keep the name they have created until they are done.
Made == Single => \A p \in Proc :
    pc[p] \in {"fill", "flush", "identify", "dirsync"} => dir[at[p]] = p

LEMMA MadeStep == TypeOK /\ Shape /\ Made /\ [Next]_vars => Made'
<1> SUFFICES ASSUME TypeOK, Shape, Made, [Next]_vars, Single', NEW q \in Proc,
                    pc'[q] \in {"fill", "flush", "identify", "dirsync"}
             PROVE  dir'[at'[q]] = q
  BY DEF Made
<1> USE Basics
<1>1. CASE \E p \in Proc : StepOf(p) \/ Kill(p)
  <2>1. PICK p \in Proc : StepOf(p) \/ Kill(p)
    BY <1>1
  <2>2. Single
    BY <2>1, Synchronised DEF Behind, Single
  <2>3. CASE p # q
    <3>1. Apart(q) /\ at[q] \in KeyName
      BY <2>1, <2>3, OthersApart DEF TypeOK
    <3> QED
      BY <2>1, <2>2, <2>3, <3>1, OthersKeys DEF Apart, Made
  <2>4. CASE p = q
    <3>1. Order(p) /\ at[p] \in KeyName
      BY DEF Shape, TypeOK
    <3>2. ~ (Precheck(p) \/ Stage(p) \/ Publish(p) \/ UnlinkTemp(p) \/ Rollback(p)
             \/ RollbackSync(p) \/ Sync(p) \/ Look(p) \/ Load(p) \/ Write(p) \/ Persist(p))
      BY <2>2, <3>1 DEF Precheck, Stage, Publish, UnlinkTemp, Rollback, RollbackSync,
         Sync, Look, Load, Write, Persist, Order, Running, StepsOf, Single
    <3>3. ~ (Start(p) \/ Use(p) \/ Kill(p))
      BY <2>2, <2>4 DEF Start, Use, Kill, Goto, Answer, Single, TypeOK
    <3>4. CASE Create(p)
      BY <2>4, <3>1, <3>4 DEF Create, Goto, Answer, TypeOK
    <3>5. CASE Fill(p) \/ Flush(p) \/ Identify(p) \/ DirSync(p)
      <4>1. pc[p] \in {"fill", "flush", "identify", "dirsync"}
        BY <3>5 DEF Fill, Flush, Identify, DirSync
      <4>2. at'[q] = at[q] /\ dir' = dir
        BY <2>2, <2>4, <3>5 DEF Fill, Flush, Withdraw, Identify, DirSync, NextNameOrOk,
           KeptAfter, Goto, Answer, Single, TypeOK
      <4> QED
        BY <2>2, <2>4, <4>1, <4>2 DEF Made
    <3> QED
      BY <2>1, <3>2, <3>3, <3>4, <3>5 DEF StepOf
  <2> QED
    BY <2>3, <2>4
<1>2. CASE Intrude \/ WriteBack \/ UNCHANGED vars
  <2>1. UNCHANGED <<tool, pc, at>>
    BY <1>2 DEF Intrude, WriteBack, vars, place
  <2>2. dir[at[q]] = q /\ at[q] \in KeyName
    BY <2>1 DEF Made, Single, TypeOK
  <2>3. \A k \in KeyName : dir[k] # None => dir'[k] = dir[k]
    BY <1>2 DEF Intrude, WriteBack, vars, TypeOK
  <2> QED
    BY <2>1, <2>2, <2>3
<1>3. CASE PowerLoss
  BY <1>3 DEF PowerLoss, TypeOK
<1> QED
  BY <1>1, <1>2, <1>3 DEF Next

Moment == [p \in Proc |-> Status(p)]

\* Only the process that takes a step changes its status.
LEMMA Becomes ==
    ASSUME TypeOK, NEW p \in Proc, StepOf(p) \/ Kill(p), NEW s, Status(p)' = s
    PROVE  Moment' = [Moment EXCEPT ![p] = s]
<1>1. tool' = tool
  BY Synchronised DEF Behind
<1>2. \A q \in Proc : q # p => Status(q)' = Status(q)
  BY <1>1, OthersApart DEF Apart, Status, Says
<1> QED
  BY <1>2 DEF Moment

LEMMA Remains ==
    ASSUME TypeOK, NEW p \in Proc, StepOf(p) \/ Kill(p), Running(p), Running(p)'
    PROVE  Moment[p] = "working" /\ Moment' = Moment
<1>1. Status(p) = "working" /\ Status(p)' = "working"
  BY DEF Running, Status
<1> QED
  BY <1>1, Becomes DEF Moment

LEMMA SameKind ==
    ASSUME TypeOK, NEW p \in Proc, StepOf(p) \/ Kill(p)
    PROVE  Kind' = Kind /\ losses' = losses
BY Synchronised DEF Behind, Kind

\* The single key is there, and in otp1-auth on disk, when success is reported.
LEMMA NewSingle ==
    ASSUME TypeOK, Shape, Made, NEW p \in Proc, StepOf(p) \/ Kill(p), result'[p] = "ok", Single
    PROVE  /\ dir[at[p]] = p /\ at[p] \in KeyName
           /\ tool = "otp1-auth" => dirDisk' = dir
<1> USE DEF Goto, Answer, TypeOK
<1>1. result[p] = "none" /\ Order(p)
  BY Answering DEF Shape
<1>2. Flush(p) \/ DirSync(p)
  <2>1. ~ (Precheck(p) \/ Stage(p) \/ Publish(p) \/ UnlinkTemp(p) \/ Rollback(p)
           \/ RollbackSync(p) \/ Sync(p) \/ Look(p) \/ Load(p) \/ Write(p) \/ Persist(p))
    BY <1>1 DEF Precheck, Stage, Publish, UnlinkTemp, Rollback, RollbackSync, Sync,
       Look, Load, Write, Persist, Order, Running, StepsOf, Single
  <2>2. ~ (Start(p) \/ Use(p) \/ Create(p) \/ Fill(p) \/ Identify(p) \/ Kill(p))
    BY <1>1 DEF Start, Use, Create, Fill, Withdraw, Identify, Kill
  <2> QED
    BY <2>1, <2>2 DEF StepOf
<1>3. pc[p] \in {"flush", "dirsync"}
  BY <1>2 DEF Flush, DirSync
<1>4. tool = "otp1-auth" => dirDisk' = dir
  BY <1>1, <1>2 DEF Flush, Withdraw, DirSync
<1> QED
  BY <1>3, <1>4 DEF Made

\* What an answer says is true of the keys.
LEMMA AnswerPromise ==
    ASSUME TypeOK, Shape, Shape', Made, NEW p \in Proc, StepOf(p) \/ Kill(p),
           pc[p] # "idle", pc'[p] = "done", dir' = dir, dirDisk' \in {dirDisk, dir},
           result'[p] # "read"
    PROVE  K!Settled /\ K!Answer(p)
<1> USE Basics
<1>1. /\ pc[p] # "done" /\ result[p] = "none" /\ tool' = tool /\ tool \in AllTools
      /\ Moment[p] = "working"
  BY Answering DEF Moment, Status
<1>2. Kind' = Kind /\ losses' = losses
  BY SameKind
<1>3. Moment' = [Moment EXCEPT ![p] = Says(p)']
  BY Becomes DEF Status
<1>4. CASE result'[p] = "ok"
  <2>1. Says(p)' = "ok"
    BY <1>4 DEF Says
  <2>2. K!Succeeded(p)
    <3>1. CASE tool \in {"cascade", "be"}
      BY <1>4, <3>1, NewSuccess DEF K!Succeeded, Kind
    <3>2. CASE tool = "multicrypt"
      <4>1. \A k \in KeyName : dir[k] = p => dirDisk'[k] = p
        <5>1. Listed(p)'
          BY DEF Shape
        <5> QED
          BY <1>4, <3>2, <5>1, NewUsable DEF Listed
      <4>2. losses = 0 => \A k \in KeyName : dir[k] # None
        BY <1>2, <1>4, <3>2, NewUsable DEF Readable
      <4> QED
        BY <3>2, <4>1, <4>2 DEF K!Succeeded, Kind
    <3>3. CASE Single
      BY <1>4, <3>3, NewSingle DEF K!Succeeded, Kind, Single
    <3> QED
      BY <1>1, <3>1, <3>2, <3>3 DEF AllTools, Single
  <2> QED
    BY <1>1, <1>2, <1>3, <2>1, <2>2 DEF K!Settled, K!Answer, K!Become, Moment
<1>5. CASE result'[p] # "ok" /\ Says(p)' = "failed"
  <2>1. result'[p] \in {"exists", "error"} /\ tool = "cascade"
    BY <1>1, <1>5 DEF Says
  <2>2. \A k \in KeyName : dir[k] # p /\ dirDisk'[k] # p
    BY <2>1, NewFailure
  <2> QED
    BY <1>1, <1>2, <1>3, <1>5, <2>2 DEF K!Settled, K!Answer, K!Become, Moment
<1>6. CASE result'[p] # "ok" /\ Says(p)' # "failed"
  <2>1. Says(p)' \in {"unclear", "killed"}
    BY <1>1, <1>6 DEF Says
  <2> QED
    BY <1>1, <1>2, <1>3, <2>1 DEF K!Settled, K!Answer, K!Become, Moment
<1> QED
  BY <1>4, <1>5, <1>6

\* Steps that change no key.
LEMMA QuietPromise ==
    ASSUME TypeOK, NEW p \in Proc, StepOf(p) \/ Kill(p), Running(p), Running(p)',
           dir' = dir, dirDisk' \in {dirDisk, dir}
    PROVE  K!Settle
BY Remains, SameKind DEF K!Settle, K!Settled, Moment

LEMMA PlacePromise ==
    ASSUME TypeOK, NEW p \in Proc, StepOf(p) \/ Kill(p), Running(p), Running(p)',
           dir[at[p]] = None, dir' = [dir EXCEPT ![at[p]] = p], dirDisk' = dirDisk
    PROVE  K!Place(p)
<1>1. at[p] \in KeyName
  BY DEF TypeOK
<1> QED
  BY <1>1, Remains, SameKind DEF K!Place, Moment

\* A call begins, or reads a key.
LEMMA BeginPromise ==
    ASSUME TypeOK, Shape, NEW p \in Proc, Start(p) \/ Use(p)
    PROVE  K!Ask(p) \/ (K!Settled /\ K!Answer(p))
<1> USE DEF StepOf
<1>1. /\ Moment[p] = "idle" /\ UNCHANGED <<dir, dirDisk>>
      /\ Kind' = Kind /\ losses' = losses /\ tool' = tool
      /\ Moment' = [Moment EXCEPT ![p] = Status(p)']
  BY Becomes, SameKind, Synchronised DEF Start, Use, Moment, Status, Behind
<1>2. CASE Start(p)
  <2>1. Status(p)' = "working"
    BY <1>2, KeySetAssumption DEF Start, Goto, Status, TypeOK, AllTools
  <2> QED
    BY <1>1, <2>1 DEF K!Ask, K!Become, Moment
<1>3. CASE Use(p) /\ result'[p] = "read"
  <2>1. Status(p)' = "read"
    BY <1>3 DEF Use, Answer, Status, Says, TypeOK
  <2> QED
    BY <1>1, <2>1 DEF K!Ask, K!Become, Moment
<1>4. CASE Use(p) /\ result'[p] # "read"
  <2>1. result'[p] = "error" /\ pc'[p] = "done"
    BY <1>4 DEF Use, Answer, TypeOK
  <2>2. CASE tool = "cascade"
    <3>1. Status(p)' = "failed"
      BY <1>1, <2>1, <2>2 DEF Status, Says
    <3>2. \A k \in KeyName : dir[k] # p /\ dirDisk'[k] # p
      BY <1>1, <1>4, <2>1, <2>2, NewFailure
    <3> QED
      BY <1>1, <3>1, <3>2 DEF K!Settled, K!Answer, K!Become, Moment
  <2>3. CASE tool # "cascade"
    <3>1. Status(p)' = "unclear"
      BY <1>1, <2>1, <2>3 DEF Status, Says
    <3> QED
      BY <1>1, <3>1 DEF K!Settled, K!Answer, K!Become, Moment
  <2> QED
    BY <2>2, <2>3
<1> QED
  BY <1>2, <1>3, <1>4

\* cascade and be withdraw keys of a set that is not whole.
LEMMA RollbackPromise ==
    ASSUME TypeOK, Shape, NEW p \in Proc, Rollback(p)
    PROVE  K!Withdraw(p) \/ K!Settle
<1> USE Basics DEF StepOf
<1>1. /\ Order(p) /\ Holds(p) /\ Listed(p) /\ SetSoFar(p)
      /\ at[p] \in KeyName /\ pc[p] = "rollback" /\ dirDisk' = dirDisk
  BY DEF Shape, TypeOK, Rollback
<1>2. Running(p) /\ Running(p)'
  BY <1>1 DEF Rollback, NextKeyOr, Goto, Running, TypeOK
<1>3. CASE dir' = dir
  BY <1>1, <1>2, <1>3, QuietPromise
<1>4. CASE dir' # dir
  <2>1. at[p] \in created[p] /\ dir' = [dir EXCEPT ![at[p]] = None]
    BY <1>4 DEF Rollback, ToRemove
  <2>2. dir[at[p]] = p
    <3>1. at[p] >= at[p]
      <4>1. at[p] \in Int
        BY <1>1, Basics
      <4> QED
        BY <4>1
    <3> QED
      BY <1>1, <1>2, <2>1, <3>1 DEF Holds
  <2>3. tool \in {"cascade", "be"} /\ result[p] = "none"
    <3>1. result[p] = "none" /\ tool \in AllTools
      BY Answering
    <3> QED
      BY <1>1, <1>2, <3>1 DEF Order, StepsOf, AllTools
  <2>4. dir[NKeys] # p
    BY <1>1, <2>3 DEF SetSoFar, Listed
  <2> QED
    BY <1>1, <1>2, <2>1, <2>2, <2>3, <2>4, Remains, SameKind DEF K!Withdraw, Moment, Kind
<1> QED
  BY <1>3, <1>4

\* otp1-auth withdraws its only key with its answer.
LEMMA WithdrawPromise ==
    ASSUME TypeOK, Shape, Shape', Made, NEW p \in Proc, Fill(p) \/ Flush(p)
    PROVE  K!Withdraw(p) \/ K!Settle \/ (K!Settled /\ K!Answer(p))
<1> USE DEF StepOf
<1>1. pc[p] \in {"fill", "flush"} /\ dirDisk' = dirDisk /\ at[p] \in KeyName
  BY DEF Fill, Flush, TypeOK
<1>2. CASE dir' # dir
  <2>1. Withdraw(p)
    BY <1>2 DEF Fill, Flush
  <2>2. /\ tool = "otp1-auth" /\ dir[at[p]] = p
        /\ dir' = [dir EXCEPT ![at[p]] = None]
        /\ Answer(p, "error")
    BY <1>2, <2>1 DEF Withdraw
  <2>3. Status(p)' = "unclear" /\ Moment[p] = "working"
    BY <1>1, <2>2 DEF Answer, Status, Says, Moment, TypeOK, place
  <2>4. Moment' = [Moment EXCEPT ![p] = "unclear"]
    BY <2>3, Becomes
  <2> QED
    BY <1>1, <2>2, <2>3, <2>4, SameKind DEF K!Withdraw, K!Become, Moment, Kind
<1>3. CASE dir' = dir
  <2>1. Running(p)
    BY <1>1 DEF Running
  <2>2. \/ Running(p)'
        \/ pc'[p] = "done" /\ result'[p] \in {"ok", "error"}
    BY DEF Fill, Flush, Withdraw, Goto, Answer, Running, TypeOK
  <2> QED
    BY <1>1, <1>3, <2>1, <2>2, QuietPromise, AnswerPromise DEF Running
<1> QED
  BY <1>2, <1>3

LEMMA OwnPromise ==
    ASSUME TypeOK, Shape, Shape', Made, NEW p \in Proc, StepOf(p) \/ Kill(p) PROVE K!Next
<1> USE DEF K!Next
<1>1. CASE Start(p) \/ Use(p)
  BY <1>1, BeginPromise
<1>2. CASE Rollback(p)
  BY <1>2, RollbackPromise
<1>3. CASE Fill(p) \/ Flush(p)
  BY <1>3, WithdrawPromise
<1>4. ASSUME dir' = dir, dirDisk' \in {dirDisk, dir}, Running(p),
             Running(p)' \/ (pc'[p] = "done" /\ result'[p] # "read")
      PROVE  K!Next
  BY <1>4, QuietPromise, AnswerPromise DEF Running
<1>5. ASSUME dir[at[p]] = None, dir' = [dir EXCEPT ![at[p]] = p], dirDisk' = dirDisk,
             Running(p), Running(p)'
      PROVE  K!Next
  BY <1>5, PlacePromise
<1>g. ASSUME NEW s \in Step \ {"idle", "done"}, NEW k, Goto(p, s, k) PROVE Running(p)'
  BY <1>g DEF Goto, Running, TypeOK
<1>a. ASSUME NEW r \in Result \ {"read"}, Answer(p, r)
      PROVE  pc'[p] = "done" /\ result'[p] # "read"
  BY <1>a DEF Answer, TypeOK
<1>s. /\ {"precheck", "stage", "publish", "unlinktemp", "rollback", "rollbacksync",
          "sync", "look", "load", "write", "persist", "dirsync", "fill", "flush",
          "identify"} \subseteq Step \ {"idle", "done"}
      /\ {"ok", "exists", "error", "cleanup_failed", "rollback_incomplete",
          "temp_remains", "not_synced", "killed"} \subseteq Result \ {"read"}
      /\ \A t : Report(t) \in Result \ {"read"}
  BY DEF Step, Result, Report
<1>n. ASSUME NEW s \in Step \ {"idle", "done"}, NEW t \in Step \ {"idle", "done"},
             NextKeyOr(p, s, t)
      PROVE  Running(p)'
  BY <1>n, <1>g DEF NextKeyOr
<1>m. NextNameOrOk(p) => Running(p)' \/ (pc'[p] = "done" /\ result'[p] # "read")
  BY <1>g, <1>a, <1>s DEF NextNameOrOk
<1>6. CASE Precheck(p) \/ Stage(p) \/ UnlinkTemp(p)
  <2>1. dir' = dir /\ dirDisk' = dirDisk /\ Running(p)
    BY <1>6 DEF Precheck, Stage, UnlinkTemp, Running
  <2>2. Running(p)' \/ (pc'[p] = "done" /\ result'[p] # "read")
    BY <1>6, <1>a, <1>n, <1>s DEF Precheck, Stage, UnlinkTemp
  <2> QED
    BY <1>4, <2>1, <2>2
<1>7. CASE Publish(p)
  <2>1. Running(p) /\ dirDisk' = dirDisk
    BY <1>7 DEF Publish, Running
  <2>2. Running(p)'
    BY <1>7, <1>g, <1>n, <1>s DEF Publish, PublishedByRename, PublishedByLink, NotPublished
  <2>3. dir' = dir \/ (dir[at[p]] = None /\ dir' = [dir EXCEPT ![at[p]] = p])
    BY <1>7 DEF Publish, PublishedByRename, PublishedByLink, NotPublished, Install
  <2> QED
    BY <1>4, <1>5, <2>1, <2>2, <2>3
<1>8. CASE RollbackSync(p) \/ Sync(p)
  <2>1. dir' = dir /\ dirDisk' \in {dirDisk, dir} /\ Running(p)
    BY <1>8 DEF RollbackSync, RemovalSynced, Sync, SetSynced, Running
  <2>2. pc'[p] = "done" /\ result'[p] # "read"
    BY <1>8, <1>a, <1>s DEF RollbackSync, Sync
  <2> QED
    BY <1>4, <2>1, <2>2
<1>9. CASE Look(p) \/ Load(p) \/ Write(p) \/ Identify(p) \/ DirSync(p)
  <2>1. dir' = dir /\ dirDisk' \in {dirDisk, dir} /\ Running(p)
    BY <1>9 DEF Look, Load, Write, Identify, DirSync, KeptAfter, Running
  <2>2. Running(p)' \/ (pc'[p] = "done" /\ result'[p] # "read")
    BY <1>9, <1>a, <1>g, <1>m, <1>s DEF Look, Load, Write, Identify, DirSync
  <2> QED
    BY <1>4, <2>1, <2>2
<1>10. CASE Persist(p) \/ Create(p)
  <2>1. Running(p) /\ dirDisk' = dirDisk
    BY <1>10 DEF Persist, Create, Running
  <2>2. \/ dir[at[p]] = None /\ dir' = [dir EXCEPT ![at[p]] = p] /\ Running(p)'
        \/ dir' = dir /\ pc'[p] = "done" /\ result'[p] # "read"
    BY <1>10, <1>a, <1>g, <1>s DEF Persist, Create, Free
  <2> QED
    BY <1>4, <1>5, <2>1, <2>2
<1>11. CASE Kill(p)
  <2>1. dir' = dir /\ dirDisk' = dirDisk /\ Running(p)
    BY <1>11 DEF Kill, Running
  <2>2. pc'[p] = "done" /\ result'[p] # "read"
    BY <1>11, <1>a, <1>s DEF Kill
  <2> QED
    BY <1>4, <2>1, <2>2
<1> QED
  BY <1>1, <1>2, <1>3, <1>6, <1>7, <1>8, <1>9, <1>10, <1>11 DEF StepOf

LEMMA SurroundingsPromise ==
    ASSUME TypeOK, Shape, Intrude \/ WriteBack \/ PowerLoss PROVE K!Next
<1>1. CASE Intrude
  <2>1. Moment' = Moment /\ Kind' = Kind
    BY <1>1 DEF Intrude, place, Moment, Status, Says, Kind
  <2> QED
    BY <1>1, <2>1 DEF Intrude, K!Next, K!Disturb, Moment
<1>2. CASE WriteBack
  <2>1. Moment' = Moment /\ Kind' = Kind
    BY <1>2 DEF WriteBack, place, Moment, Status, Says, Kind
  <2> QED
    BY <1>2, <2>1 DEF WriteBack, K!Next, K!Settle, K!Settled, Moment
<1>3. CASE PowerLoss
  <2>1. Kind' = Kind /\ losses' = losses + 1 /\ dir' = dirDisk /\ dirDisk' = dirDisk
    BY <1>3 DEF PowerLoss, place, Kind
  <2>2. \A q \in Proc : Status(q)' = IF Status(q) = "working" THEN "killed" ELSE Status(q)
    BY <1>3 DEF PowerLoss, place, Status, Says, TypeOK
  <2> QED
    BY <2>1, <2>2 DEF K!Next, K!Lose
<1> QED
  BY <1>1, <1>2, <1>3

\* Key generation of each tool implements KeyPromise: keys appear where
\* nothing is, a whole set is never taken away, and answers are true.
THEOREM ImplementsPromise == Spec => KeepsThePromise
<1>1. Init => K!Init /\ Made
  <2> SUFFICES ASSUME Init PROVE K!Init /\ Made
    OBVIOUS
  <2>1. Kind \in {"set", "each", "one", "loose"}
    BY DEF Kind
  <2>2. \A p \in Proc : Status(p) = "idle"
    BY DEF Init, Status
  <2>3. Made
    BY DEF Init, Made
  <2> QED
    BY <2>1, <2>2, <2>3 DEF Init, K!Init
<1>2. TypeOK /\ Shape /\ Shape' /\ Made /\ [Next]_vars => [K!Next]_(K!vars)
  <2> SUFFICES ASSUME TypeOK, Shape, Shape', Made, [Next]_vars
               PROVE  K!Next \/ UNCHANGED K!vars
    OBVIOUS
  <2>1. CASE UNCHANGED vars
    BY <2>1 DEF vars, place, K!vars, Status, Says, Kind
  <2> QED
    BY <2>1, OwnPromise, SurroundingsPromise DEF Next
<1> QED
  BY <1>1, <1>2, InitType, TypeStep, InitShape, ShapeStep, MadeStep, PTL
     DEF Spec, KeepsThePromise, K!Spec
=============================================================================

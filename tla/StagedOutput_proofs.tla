-------------------------- MODULE StagedOutput_proofs --------------------------
(* Proofs about StagedOutput, for any number of calls, edits, meddling,     *)
(* signals and power failures.                                              *)
EXTENDS StagedOutput, FiniteSetTheorems, TLAPS

LEMMA Basics ==
    /\ Dest \in Name /\ Dest \notin Proc /\ Proc \subseteq Name /\ Proc \subseteq Inode
    /\ Other \in Inode /\ Other \notin Proc /\ None \notin Inode /\ None \notin Proc
    /\ None # Other
BY StagedAssumption DEF Name, Inode, Dest, Other

-----------------------------------------------------------------------------
(* The order of the steps.                                                 *)

StepsOf(t, o) == {Order(t, o)[i] : i \in DOMAIN Order(t, o)}

\* Steps before anything is created, steps of a complete output, and steps of
\* one that may have the destination's name.
Early == {"open", "target", "header", "verify"}
Complete == {"interrupted", "compare", "sync", "lastcheck", "identity", "publish",
             "late", "unlink", "confirm", "dirsync"}
Landing == {"late", "unlink", "confirm", "dirsync", "done"}

OneState(p) ==
    /\ tool = "secure" \/ (tool = "best" /\ \A i \in 1..Now : input[i].mtime = i - 1)
    /\ op[p] = "encrypt"
    => got[p][1] = got[p][2]
Allowed == {"none", "publish", "late", "unlink", "dirsync"}
           \cup IF tool = "best" THEN {"sync"} ELSE {}
Genuine(p) == op[p] = "decrypt" => Authentic(got[p])

\* A call takes its tool's steps and answers when it is done.
Control(p) ==
    /\ pc[p] # "idle" => op[p] \in Offers(tool)
    /\ pc[p] \notin {"idle", "late", "unlink", "done"} => pc[p] \in StepsOf(tool, op[p])
    /\ result[p] # "none" => pc[p] = "done"
    /\ pc[p] = "idle" => content[p] = "empty"

\* What it has read and written by each step.
Bytes(p) ==
    /\ pc[p] \in Complete => content[p] = "whole" /\ Genuine(p)
    /\ InMemory /\ (pc[p] \in {"create", "write"} \/ content[p] # "empty") => Genuine(p)
    /\ InMemory /\ pc[p] \in Early \cup {"idle", "first", "rest"} => content[p] = "empty"
    /\ pc[p] \in {"identity", "publish", "late", "unlink", "confirm", "dirsync"} => p \in synced
    /\ pc[p] = "lastcheck" /\ tool = "secure" => p \in synced

\* What it has read: parts of states between the one it opened and now.
Reads(p) ==
    /\ snap[p] \in 0..Now
    /\ \A i \in DOMAIN got[p] : got[p][i] \in 1..Now
    /\ pc[p] = "idle" => got[p] = <<>>
    /\ Handles =>
          /\ \A i \in DOMAIN got[p] : snap[p] <= got[p][i]
          /\ pc[p] \in {"open", "target", "create", "first"} => got[p] = <<>>
          /\ pc[p] = "rest" => Len(got[p]) = 1
          /\ op[p] # "make" /\ pc[p] \notin {"idle", "open", "done"} => snap[p] > 0
          /\ op[p] = "encrypt" /\ pc[p] \in Complete => Len(got[p]) = 2
    /\ pc[p] \in Complete \ {"interrupted", "compare"} => OneState(p)

\* When its first signal came.
Signals(p) ==
    /\ ~Handles => signal[p] = "none"
    /\ op[p] # "make" =>
         /\ pc[p] \in {"publish", "late", "unlink", "confirm", "dirsync"} => signal[p] \in Allowed
         /\ pc[p] = "sync" /\ tool = "best" => signal[p] \in {"none", "sync"}

\* Its temporary name.
Temporary(p) ==
    /\ dir[p] \in {p, Other, None} /\ dirDisk[p] \in {p, Other, None}
    /\ tool \notin Exchanged => dir[p] # Other /\ dirDisk[p] # Other
    /\ pc[p] \in {"idle"} \cup Early => dir[p] = None /\ dirDisk[p] = None
    /\ tool = "secure" /\ op[p] = "decrypt" => dir[p] # p /\ dirDisk[p] # p

\* Under the destination's name, or coming back to it, is nothing but a
\* complete output that was synchronised, of a call that went all the way.
Landed(p) ==
    /\ dir[Dest] = p \/ dirDisk[Dest] = p =>
         /\ pc[p] \in Landing /\ content[p] = "whole" /\ p \in synced /\ Genuine(p)
         /\ op[p] # "make" => signal[p] \in Allowed
         /\ OneState(p)
    /\ dirDisk[Dest] = p => dir[Dest] = p \/ p \in removed

Shape == \A p \in Proc : Control(p) /\ Bytes(p) /\ Reads(p) /\ Signals(p)
                         /\ Temporary(p) /\ Landed(p)

\* What follows from the answers, where only filecrypt's publications report
\* errors late and only its temporary names are taken over.
Answers(p) ==
    /\ pc[p] = "late" => tool = "filecrypt"
    /\ pc[p] \in {"late", "unlink", "confirm", "dirsync"} /\ tool # "filecrypt" =>
          dir[Dest] = p \/ p \in removed
    /\ pc[p] = "confirm" /\ dir[Dest] = p => dirDisk[Dest] = p
    /\ pc[p] = "dirsync" /\ Tells => dir[p] = None
    /\ result[p] = "unseen" => tool = "filecrypt"
    /\ result[p] \in {"error", "leftover", "interrupted", "mismatch"}
          /\ (dir[Dest] = p \/ dirDisk[Dest] = p) => p \in removed
    /\ result[p] \in {"uncertain", "unsynced", "installed_leftover"} /\ ~lost =>
          dir[Dest] = p \/ p \in removed
    /\ result[p] = "ok" => \/ p \in removed
                           \/ IF tool \in {"algos", "tf1024"} THEN lost \/ dir[Dest] = p
                                                              ELSE dirDisk[Dest] = p
    /\ Tells /\ ~lost /\ pc[p] = "done" /\ dir[p] # None =>
          result[p] \in {"leftover", "installed_leftover", "killed"}
AllAnswers == \A p \in Proc : Answers(p)
\* What the tables say: s is a step of the tool and n follows it.
Goes(t, o, s, n) ==
    /\ n = "done" \/ n \in StepsOf(t, o)
    /\ n \notin {"late", "unlink"} /\ s \notin {"late", "unlink"}
    \* The output is complete after the last part or the last write,
    /\ n \in Complete => \/ s \in Complete \cup {"write"}
                         \/ s = "rest" /\ t \notin {"cascade", "multicrypt"}
    /\ s = "write" => t \in {"cascade", "multicrypt"} \/ o = "make"
    /\ t \in {"cascade", "multicrypt"} /\ n \in Early \cup {"first", "rest"} =>
          s \in Early \cup {"first", "rest"}
    /\ t \in {"cascade", "multicrypt"} /\ o = "decrypt" /\ n \in {"create", "write"} =>
          s \in {"rest", "create"}
    \* synchronised before it is published,
    /\ n \in {"identity", "publish", "confirm", "dirsync"} =>
          \/ s \in {"sync", "identity", "publish", "confirm", "dirsync"}
          \/ s = "lastcheck" /\ t = "secure"
    /\ n = "lastcheck" /\ t = "secure" => s = "sync"
    \* published after the last look at the signals.
    /\ o # "make" /\ t = "secure" /\ n = "publish" => s = "lastcheck"
    /\ o # "make" /\ t = "best" /\ n = "publish" => s = "sync"
    /\ o # "make" /\ t = "best" /\ n = "sync" => s = "lastcheck"
    \* What follows the publication depends on the tool.
    /\ n \in {"confirm", "dirsync"} => s = "publish"
    /\ s \in {"confirm", "dirsync"} => n = "done"
    /\ n = "done" => s \in {"publish", "confirm", "dirsync"}
    /\ s = "publish" => n = IF t = "filecrypt" THEN "confirm"
                            ELSE IF t \in {"algos", "tf1024"} THEN "done" ELSE "dirsync"
    \* The input is opened and measured before anything is created,
    /\ n \in Early => s \in Early
    \* and read in order.
    /\ t \in {"secure", "best"} =>
         /\ s \notin {"header", "verify"}
         /\ n \in {"open", "target", "create", "first"} => s \in {"open", "target", "create"}
         /\ n = "rest" => s = "first"
         /\ s = "first" => n = "rest"
         /\ o = "encrypt" /\ n \in Complete => s \in Complete \cup {"rest"}
         /\ o = "encrypt" /\ n \in Complete \ {"interrupted", "compare"} =>
               s \in Complete \ {"interrupted"}

\* What every table starts with and contains.
Starts(t, o) ==
    /\ Order(t, o)[1] \in {"open", "target"} /\ Order(t, o)[1] \in StepsOf(t, o)
    /\ t \in {"secure", "best"} /\ o # "make" => Order(t, o)[1] = "open"
    /\ IF t = "filecrypt" THEN "dirsync" \notin StepsOf(t, o) ELSE "confirm" \notin StepsOf(t, o)
    /\ "publish" \in StepsOf(t, o) /\ StepsOf(t, o) \subseteq Step

Beside(t, o, s, n) == \E j \in DOMAIN Order(t, o) :
    /\ Order(t, o)[j] = s
    /\ n = IF j = Len(Order(t, o)) THEN "done" ELSE Order(t, o)[j + 1]

LEMMA FollowsIt ==
    ASSUME NEW t \in AllTools, NEW o \in Offers(t), NEW s \in StepsOf(t, o)
    PROVE  Beside(t, o, s, Successor[t][o][s])
<1> DEFINE steps == Order(t, o)
           i == CHOOSE j \in DOMAIN steps : steps[j] = s
<1>1. Successor[t][o][s] = IF i = Len(steps) THEN "done" ELSE steps[i + 1]
  BY DEF Successor, StepsOf
<1>2. i \in DOMAIN steps /\ steps[i] = s
  BY DEF StepsOf
<1> HIDE DEF i
<1> QED
  BY <1>1, <1>2 DEF Beside

LEMMA Table ==
    ASSUME NEW t \in AllTools, NEW o \in Offers(t)
    PROVE  /\ Starts(t, o)
           /\ \A s, n : Beside(t, o, s, n) => Goes(t, o, s, n)
<1> USE DEF Starts, Beside, Goes, StepsOf, Step, Complete, Early
<1>o. o \in {"encrypt", "decrypt", "make"}
  BY DEF Offers
<1>1. CASE t = "secure"
  <2>1. CASE o = "encrypt"
    BY <1>1, <2>1 DEF Order
  <2>2. CASE o = "decrypt"
    BY <1>1, <2>2 DEF Order
  <2> QED
    BY <1>1, <1>o, <2>1, <2>2 DEF Offers
<1>2. CASE t = "best"
  BY <1>2, <1>o DEF Order, Offers
<1>3. CASE t = "filecrypt"
  BY <1>3, <1>o DEF Order, Offers
<1>4. CASE t = "cascade"
  BY <1>4, <1>o DEF Order, Offers
<1>5. CASE t = "multicrypt"
  BY <1>5, <1>o DEF Order, Offers
<1>6. CASE t = "x2"
  BY <1>6, <1>o DEF Order, Offers
<1>7. CASE t = "x3x"
  <2>1. CASE o = "encrypt"
    BY <1>7, <2>1 DEF Order
  <2>2. CASE o = "decrypt"
    BY <1>7, <2>2 DEF Order
  <2>3. CASE o = "make"
    BY <1>7, <2>3 DEF Order
  <2> QED
    BY <1>7, <1>o, <2>1, <2>2, <2>3 DEF Offers
<1>8. CASE t = "algos"
  BY <1>8, <1>o DEF Order, Offers
<1>9. CASE t = "be"
  BY <1>9, <1>o DEF Order, Offers
<1>10. CASE t = "tf1024"
  BY <1>10, <1>o DEF Order, Offers
<1> QED
  BY <1>1, <1>2, <1>3, <1>4, <1>5, <1>6, <1>7, <1>8, <1>9, <1>10 DEF AllTools

\* A step that goes on by the table.
LEMMA Leaves ==
    ASSUME TypeOK, NEW p \in Proc, op[p] \in Offers(tool),
           NEW s \in StepsOf(tool, op[p]), Leave(p, s)
    PROVE  \E n \in Step \cup {"done"} :
              /\ Goes(tool, op[p], s, n)
              /\ n = "done" => Answer(p, "ok")
              /\ n # "done" => n \in StepsOf(tool, op[p]) /\ Goto(p, n)
<1> DEFINE n == Successor[tool][op[p]][s]
<1>1. tool \in AllTools
  BY StagedAssumption DEF TypeOK
<1>2. Goes(tool, op[p], s, n) /\ StepsOf(tool, op[p]) \subseteq Step
  BY <1>1, FollowsIt, Table DEF Starts
<1>3. n = "done" \/ n \in StepsOf(tool, op[p])
  BY <1>2 DEF Goes
<1>4. IF n = "done" THEN Answer(p, "ok") ELSE Goto(p, n)
  BY DEF Leave, After
<1> QED
  BY <1>2, <1>3, <1>4

-----------------------------------------------------------------------------
(* What a step may do.                                                     *)

Act(p) == Stage(p) \/ Commit(p) \/ Kill(p)

\* To the names, to the outputs of others, and to others.
Move(p) ==
    /\ UNCHANGED world
    /\ \/ dir'[Dest] = dir[Dest]
       \/ /\ pc[p] = "publish" /\ pc'[p] # "publish"
          /\ dir[Dest] = None /\ dir'[Dest] = Source(p) /\ Source(p) # None
    /\ dir'[p] \in {dir[p], None} \/ (pc[p] = "create" /\ NamedStage(op[p]) /\ dir'[p] = p)
    /\ dirDisk' = dirDisk \/ dirDisk' = dir'

Apart(p) == \A q \in Proc : q # p =>
    /\ pc'[q] = pc[q] /\ op'[q] = op[q] /\ result'[q] = result[q]
    /\ snap'[q] = snap[q] /\ got'[q] = got[q] /\ content'[q] = content[q]
    /\ dir'[q] = dir[q] /\ (q \in synced' <=> q \in synced)

\* To the process itself.
Looks(p) ==
    /\ pc[p] # "done"
    /\ \/ pc'[p] = "done"
       \/ pc[p] = "idle" /\ pc'[p] \in {"open", "target"}
       \/ pc[p] # "idle" /\ Goes(tool, op[p], pc[p], pc'[p])
       \/ pc[p] = "publish" /\ pc'[p] \in {"late", "unlink"}
       \/ pc[p] = "unlink" /\ pc'[p] = "late"
       \/ pc[p] = "unlink" /\ Goes(tool, op[p], "publish", pc'[p])
    /\ pc'[p] \in {"done", "late", "unlink"} \/ pc'[p] \in StepsOf(tool, op'[p])
    /\ IF pc[p] = "idle" THEN op'[p] \in Offers(tool) ELSE op'[p] = op[p]
    /\ pc'[p] # "done" => result'[p] = result[p]
    /\ pc[p] = "idle" /\ Handles /\ op'[p] # "make" => pc'[p] = "open"
    /\ pc[p] = "open" /\ pc'[p] # "done" => snap'[p] = Now
    /\ snap'[p] = snap[p] \/ (pc[p] = "open" /\ snap'[p] = Now)
    /\ \/ got'[p] = got[p] /\ (pc[p] \in {"first", "rest"} => pc'[p] = "done")
       \/ pc[p] \in {"header", "verify"} /\ got'[p] = <<Now>>
       \/ pc[p] \in {"first", "rest"} /\ got'[p] = Append(got[p], Now)
    /\ content'[p] = content[p] \/ pc[p] = "write" \/ (pc[p] \in {"first", "rest"} /\ ~InMemory)
    /\ synced \subseteq synced'
    \* What each step has achieved when it goes on.
    /\ pc'[p] # "done" =>
         /\ pc[p] = "write" => content'[p] = "whole"
         /\ pc[p] = "rest" => /\ ~InMemory => content'[p] = "whole"
                              /\ op[p] = "decrypt" => Authentic(got'[p])
         /\ pc[p] = "sync" => p \in synced'
         /\ pc[p] = "compare" => SameInput(snap[p], Now)
         /\ pc[p] = "lastcheck" => signal[p] = "none"

LEMMA OthersApart ==
    ASSUME TypeOK, NEW p \in Proc, Act(p)
    PROVE  Apart(p)
<1> USE Basics DEF Apart, TypeOK, Goto, Answer, Leave, Advance, files, jobs
<1>f. ASSUME NEW r, Abandon(p, r) PROVE \A q \in Proc : q # p =>
            pc'[q] = pc[q] /\ result'[q] = result[q] /\ dir'[q] = dir[q]
  BY <1>f DEF Abandon
<1>1. CASE (\E o \in {"encrypt", "decrypt", "make"} : Begin(p, o)) \/ Open(p)
           \/ LookForTarget(p) \/ Create(p) \/ CreateFails(p) \/ Write(p) \/ Kill(p)
  BY <1>1 DEF Begin, Open, LookForTarget, Create, CreateFails, Write, Kill
<1>2. CASE ReadHeader(p) \/ Verify(p) \/ ReadFirst(p) \/ ReadRest(p) \/ ReadCancelled(p)
  BY <1>2, <1>f DEF ReadHeader, Verify, ReadFirst, ReadRest, ReadCancelled, Fail
<1>3. CASE CheckSignal(p) \/ CompareInput(p) \/ SyncStage(p) \/ CheckIdentity(p) \/ StepFails(p)
  BY <1>3, <1>f DEF CheckSignal, CompareInput, SyncStage, SyncedFile, CheckIdentity, StepFails, Fail
<1>4. CASE Publish(p) \/ PublishLate(p)
  BY <1>4 DEF Publish, PublishLate, Install, Published
<1>5. CASE PublishRefused(p) \/ DecideLate(p) \/ Confirm(p)
  BY <1>5, <1>f DEF PublishRefused, DecideLate, Confirm, Fail
<1>6. CASE Unlink(p) \/ SyncDirectory(p)
  BY <1>6 DEF Unlink, SyncDirectory
<1> QED
  BY <1>1, <1>2, <1>3, <1>4, <1>5, <1>6 DEF Act, Stage, Commit

LEMMA Moves ==
    ASSUME TypeOK, Shape, NEW p \in Proc, Act(p)
    PROVE  Move(p) /\ Looks(p)
<1> USE Basics DEF Move, Looks, TypeOK, Goto, Answer, files, jobs
<1>c. /\ pc[p] # "idle" => op[p] \in Offers(tool)
      /\ pc[p] \notin {"idle", "late", "unlink", "done"} => pc[p] \in StepsOf(tool, op[p])
      /\ tool \in AllTools
  BY StagedAssumption DEF Shape, Control
<1>f. ASSUME NEW r, Abandon(p, r)
      PROVE  /\ pc'[p] = "done" /\ dir'[p] \in {dir[p], None} /\ dir'[Dest] = dir[Dest]
  BY <1>f DEF Abandon
<1>a. ASSUME Advance(p), pc[p] \notin {"idle", "late", "unlink", "done"}
      PROVE  /\ Goes(tool, op[p], pc[p], pc'[p])
             /\ pc'[p] = "done" \/ pc'[p] \in StepsOf(tool, op[p])
             /\ pc'[p] # "done" => result' = result
  BY <1>a, <1>c, Leaves DEF Advance
<1>1. CASE \E o \in {"encrypt", "decrypt", "make"} : Begin(p, o)
  <2>1. PICK o \in {"encrypt", "decrypt", "make"} : Begin(p, o)
    BY <1>1
  <2>2. Starts(tool, o)
    BY <2>1, <1>c, Table DEF Begin
  <2> QED
    BY <2>1, <2>2 DEF Begin, Starts, Handles
<1>2. CASE Open(p) \/ LookForTarget(p)
  BY <1>2, <1>c, <1>a DEF Open, LookForTarget
<1>3. CASE Create(p) \/ CreateFails(p)
  BY <1>3, <1>c, <1>a DEF Create, CreateFails
<1>4. CASE ReadHeader(p) \/ Verify(p) \/ ReadCancelled(p)
  BY <1>4, <1>c, <1>a, <1>f DEF ReadHeader, Verify, ReadCancelled, Fail
<1>5. CASE ReadFirst(p) \/ ReadRest(p)
  BY <1>5, <1>c, <1>a, <1>f DEF ReadFirst, ReadRest, Fail, Completes
<1>6. CASE Write(p) \/ SyncStage(p) \/ Kill(p)
  BY <1>6, <1>c, <1>a DEF Write, SyncStage, SyncedFile, Kill, Running
<1>7. CASE CheckSignal(p) \/ CompareInput(p) \/ CheckIdentity(p) \/ StepFails(p)
  BY <1>7, <1>c, <1>a, <1>f DEF CheckSignal, CompareInput, CheckIdentity, StepFails, Fail, Seen, Step
<1>8. CASE Publish(p) \/ PublishLate(p)
  BY <1>8, <1>c, <1>a DEF Publish, PublishLate, Install, Published, Vacant, Goes
<1>9. CASE PublishRefused(p) \/ DecideLate(p) \/ Confirm(p)
  BY <1>9, <1>f DEF PublishRefused, DecideLate, Confirm, Fail
<1>10. CASE Unlink(p)
  BY <1>10, <1>c, Leaves, Table DEF Unlink, Starts
<1>11. CASE SyncDirectory(p)
  BY <1>11 DEF SyncDirectory
<1> QED
  BY <1>1, <1>2, <1>3, <1>4, <1>5, <1>6, <1>7, <1>8, <1>9, <1>10, <1>11 DEF Act, Stage, Commit


-----------------------------------------------------------------------------
(* A step of a process keeps its own shape.                                *)

LEMMA OwnShape ==
    ASSUME TypeOK, Shape, NEW p \in Proc, Move(p), Looks(p), TypeOK'
    PROVE  /\ Control(p)' /\ Bytes(p)' /\ Reads(p)' /\ Signals(p)'
           /\ Temporary(p)' /\ Landed(p)'
<1> USE Basics DEF world, place
<1>u. /\ tool' = tool /\ input' = input /\ signal' = signal /\ removed' = removed /\ Now' = Now
      /\ Handles' = Handles /\ InMemory' = InMemory
  BY DEF Move, Now, Handles, InMemory
<1>s. /\ Control(p) /\ Bytes(p) /\ Reads(p) /\ Signals(p) /\ Temporary(p) /\ Landed(p)
  BY DEF Shape
<1>o. /\ tool \in AllTools /\ op'[p] \in Offers(tool) /\ pc[p] # "done"
      /\ Starts(tool, op'[p])
      /\ pc[p] # "idle" => op'[p] = op[p] /\ Starts(tool, op[p])
  <2>1. tool \in AllTools /\ op'[p] \in Offers(tool) /\ pc[p] # "done"
    BY <1>s, StagedAssumption DEF Looks, Control, TypeOK
  <2>2. pc[p] # "idle" => op'[p] = op[p]
    BY DEF Looks
  <2> QED
    BY <2>1, <2>2, Table
<1>a. ASSUME pc[p] \notin {"first", "rest", "header", "verify"} PROVE got'[p] = got[p]
  BY <1>a DEF Looks
<1>1. Control(p)'
  BY <1>s, <1>o, <1>u DEF Control, Looks, Starts, Step
<1>g. /\ (op'[p] = "decrypt" => Authentic(got'[p])) => Genuine(p)'
      /\ op'[p] = op[p] /\ got'[p] = got[p] /\ Genuine(p) => Genuine(p)'
  BY <1>u DEF Genuine, Authentic
<1>2. Bytes(p)'
  <2> USE <1>s, <1>o, <1>u
  <2>1. ASSUME pc'[p] \in Complete PROVE content'[p] = "whole" /\ Genuine(p)'
    <3>1. CASE pc[p] \in Complete
      <4>1. got'[p] = got[p] /\ content'[p] = content[p]
        BY <3>1, <1>a DEF Looks, Complete
      <4> QED
        BY <3>1, <4>1, <1>g DEF Bytes, Complete
    <3>2. CASE pc[p] = "write"
      <4>1. got'[p] = got[p] /\ content'[p] = "whole"
        BY <2>1, <3>2, <1>a DEF Looks, Complete
      <4>2. InMemory \/ op'[p] = "make"
        BY <2>1, <3>2 DEF Looks, Complete, Goes, InMemory
      <4> QED
        BY <3>2, <4>1, <4>2, <1>g DEF Bytes, Genuine
    <3>3. CASE pc[p] = "rest" /\ ~InMemory
      BY <2>1, <3>3, <1>g DEF Looks, Complete
    <3> QED
      BY <2>1, <3>1, <3>2, <3>3 DEF Looks, Complete, Goes, InMemory
  <2>2. ASSUME InMemory, pc'[p] \in {"create", "write"} \/ content'[p] # "empty"
        PROVE  Genuine(p)'
    <3>1. CASE content'[p] # "empty"
      <4>1. got'[p] = got[p] /\ Genuine(p)
        BY <2>2, <3>1, <1>a DEF Looks, Bytes, Early
      <4> QED
        BY <2>2, <3>1, <4>1, <1>g DEF Looks, Control, Bytes, Early
    <3>2. CASE content'[p] = "empty" /\ op'[p] = "decrypt"
      <4>p. ~ Goes(tool, op[p], "publish", pc'[p])
        BY <2>2, <3>2 DEF Goes
      <4>0. pc'[p] \in {"create", "write"}
        BY <2>2, <3>2
      <4>1. Goes(tool, op[p], pc[p], pc'[p]) /\ op'[p] = op[p]
        BY <4>0, <4>p DEF Looks
      <4>3. op[p] = "decrypt" => pc[p] \in {"rest", "create"}
        BY <4>0, <4>1, <2>2 DEF Goes, InMemory
      <4>2. CASE pc[p] = "rest"
        BY <2>2, <3>2, <4>1, <4>2, <1>g DEF Looks
      <4>4. CASE pc[p] = "create"
        BY <2>2, <4>1, <4>4, <1>a, <1>g DEF Bytes
      <4> QED
        BY <3>2, <4>1, <4>2, <4>3, <4>4
    <3> QED
      BY <3>1, <3>2 DEF Genuine
  <2>3. ASSUME InMemory, pc'[p] \in Early \cup {"idle", "first", "rest"}
        PROVE  content'[p] = "empty"
    <3>1. pc[p] \in Early \cup {"idle", "first", "rest"}
      BY <2>3 DEF Looks, Goes, Early, InMemory, Starts, Step
    <3> QED
      BY <2>3, <3>1 DEF Looks, Bytes, Early
  <2>4. ASSUME pc'[p] \in {"identity", "publish", "late", "unlink", "confirm", "dirsync"}
        PROVE  p \in synced'
    BY <2>4 DEF Looks, Goes, Bytes
  <2>5. ASSUME pc'[p] = "lastcheck", tool = "secure"
        PROVE  p \in synced'
    BY <2>5 DEF Looks, Goes
  <2> QED
    BY <2>1, <2>2, <2>3, <2>4, <2>5, <1>u DEF Bytes
<1>3. Reads(p)'
  <2> USE <1>s, <1>o, <1>u
  <2>n. /\ Now \in Nat /\ Now > 0 /\ snap[p] \in Nat /\ got[p] \in Seq(1..MaxLoad + 1)
        /\ \A i \in DOMAIN got[p] : got[p][i] \in Int
    BY StagedAssumption DEF Now, TypeOK, Reads
  <2>b. got'[p] \in {got[p], <<Now>>, Append(got[p], Now)}
    BY DEF Looks
  <2>a. /\ Len(got[p]) \in Nat /\ DOMAIN got[p] = 1..Len(got[p])
        /\ DOMAIN Append(got[p], Now) = 1..Len(got[p]) + 1
        /\ Append(got[p], Now)[Len(got[p]) + 1] = Now
        /\ \A i \in DOMAIN got[p] : Append(got[p], Now)[i] = got[p][i]
        /\ DOMAIN <<Now>> = {1} /\ <<Now>>[1] = Now
    BY <2>n
  <2>1. snap'[p] \in 0..Now /\ \A i \in DOMAIN got'[p] : got'[p][i] \in 1..Now
    <3>1. snap'[p] \in 0..Now
      BY <2>n DEF Looks, Reads
    <3>2. CASE got'[p] = got[p] \/ got'[p] = <<Now>>
      BY <2>n, <2>a, <3>1, <3>2 DEF Reads
    <3>3. CASE got'[p] = Append(got[p], Now)
      <4> SUFFICES ASSUME NEW i \in DOMAIN got'[p] PROVE got'[p][i] \in 1..Now
        BY <3>1
      <4>1. i \in DOMAIN got[p] \/ i = Len(got[p]) + 1
        BY <2>a, <3>3
      <4> QED
        BY <2>n, <2>a, <3>3, <4>1 DEF Reads
    <3> QED
      BY <2>b, <3>2, <3>3
  <2>2. pc'[p] # "idle"
    BY DEF Looks, Starts, Step
  <2>3. ASSUME Handles PROVE \A i \in DOMAIN got'[p] : snap'[p] <= got'[p][i]
    <3>1. CASE snap'[p] = snap[p]
      <4>1. CASE got'[p] = got[p] \/ got'[p] = <<Now>>
        BY <2>3, <2>n, <2>a, <3>1, <4>1 DEF Reads
      <4>2. CASE got'[p] = Append(got[p], Now)
        <5> SUFFICES ASSUME NEW i \in DOMAIN got'[p] PROVE snap'[p] <= got'[p][i]
          OBVIOUS
        <5>1. i \in DOMAIN got[p] \/ i = Len(got[p]) + 1
          BY <2>a, <4>2
        <5> QED
          BY <2>3, <2>n, <2>a, <3>1, <4>2, <5>1 DEF Reads
      <4> QED
        BY <2>b, <4>1, <4>2
    <3>2. CASE pc[p] = "open"
      BY <2>3, <3>2, <1>a DEF Reads
    <3> QED
      BY <3>1, <3>2 DEF Looks
  <2>4. ASSUME Handles, pc'[p] \in {"open", "target", "create", "first"} PROVE got'[p] = <<>>
    BY <2>4, <1>a DEF Looks, Reads, Goes, Handles, Starts
  <2>5. ASSUME Handles, pc'[p] = "rest" PROVE Len(got'[p]) = 1
    <3>1. pc[p] = "first"
      BY <2>5 DEF Looks, Goes, Handles
    <3>2. got[p] = <<>> /\ got'[p] = Append(got[p], Now)
      BY <2>5, <3>1 DEF Looks, Reads
    <3> QED
      BY <2>n, <3>2
  <2>6. ASSUME Handles, op'[p] # "make", pc'[p] \notin {"idle", "open", "done"} PROVE snap'[p] > 0
    BY <2>6, <2>n DEF Looks, Reads, Handles
  <2>7. ASSUME Handles, op'[p] = "encrypt", pc'[p] \in Complete PROVE Len(got'[p]) = 2
    <3>1. op[p] = "encrypt" /\ pc[p] \in Complete \cup {"rest"}
      BY <2>7 DEF Looks, Goes, Handles, Complete
    <3>2. CASE pc[p] = "rest"
      <4>1. Len(got[p]) = 1 /\ got'[p] = Append(got[p], Now)
        BY <2>7, <3>2 DEF Looks, Reads, Complete
      <4> QED
        BY <2>n, <4>1
    <3>3. CASE pc[p] \in Complete
      BY <2>7, <3>1, <3>3, <1>a DEF Reads, Complete
    <3> QED
      BY <3>1, <3>2, <3>3
  <2>8. ASSUME pc'[p] \in Complete \ {"interrupted", "compare"} PROVE OneState(p)'
    <3> SUFFICES ASSUME Handles, op'[p] = "encrypt",
                        tool = "secure" \/ \A i \in 1..Now : input[i].mtime = i - 1
                 PROVE  got'[p][1] = got'[p][2]
      BY DEF OneState, Handles
    <3>1. pc[p] \in Complete \ {"interrupted"} /\ got'[p] = got[p] /\ op[p] = "encrypt"
      BY <2>8, <1>a DEF Looks, Goes, Handles, Complete
    <3>2. CASE pc[p] = "compare"
      <4>1. SameInput(snap[p], Now) /\ snap[p] \in 1..Now
        BY <2>8, <2>n, <3>1, <3>2 DEF Looks, Reads, Complete
      <4>2. snap[p] = Now
        BY <2>n, <4>1 DEF SameInput, Handles
      <4>3. Len(got[p]) = 2
        BY <3>1, <3>2 DEF Reads, Complete
      <4>4. /\ got[p][1] \in 1..Now /\ snap[p] <= got[p][1]
            /\ got[p][2] \in 1..Now /\ snap[p] <= got[p][2]
        BY <4>3, <2>n DEF Reads
      <4> QED
        BY <2>n, <3>1, <4>2, <4>4
    <3> QED
      BY <3>1, <3>2 DEF Reads, OneState, Handles
  <2> QED
    BY <2>1, <2>2, <2>3, <2>4, <2>5, <2>6, <2>7, <2>8 DEF Reads
<1>4. Signals(p)'
  BY <1>s, <1>o, <1>u DEF Signals, Looks, Goes, Allowed, Handles
<1>5. Temporary(p)'
  <2>1. dir'[p] \in {p, Other, None} /\ dirDisk'[p] \in {p, Other, None}
    BY <1>s DEF Move, Temporary
  <2>2. ASSUME tool \notin Exchanged PROVE dir'[p] # Other /\ dirDisk'[p] # Other
    BY <2>2, <1>s DEF Move, Temporary
  <2>3. ASSUME pc'[p] \in {"idle"} \cup Early PROVE dir'[p] = None /\ dirDisk'[p] = None
    <3>1. pc[p] \in {"idle"} \cup Early
      BY <2>3, <1>o DEF Looks, Goes, Early, Starts, Step
    <3> QED
      BY <3>1, <1>s DEF Move, Temporary, Early
  <2>4. ASSUME tool = "secure", op'[p] = "decrypt" PROVE dir'[p] # p /\ dirDisk'[p] # p
    <3>1. pc[p] # "create" \/ ~NamedStage(op[p])
      BY <2>4, <1>o DEF NamedStage
    <3>2. pc[p] = "idle" => dir'[p] \in {dir[p], None}
      BY DEF Move
    <3> QED
      BY <2>4, <3>1, <3>2, <1>o, <1>s DEF Move, Temporary
  <2> QED
    BY <2>1, <2>2, <2>3, <2>4, <1>u DEF Temporary
<1>6. Landed(p)'
  <2>1. ASSUME dir'[Dest] = p \/ dirDisk'[Dest] = p
        PROVE  /\ pc'[p] \in Landing /\ pc[p] \in Complete
               /\ content[p] = "whole" /\ p \in synced /\ Genuine(p) /\ OneState(p)
               /\ op[p] # "make" => signal[p] \in Allowed
    <3>1. CASE dir[Dest] = p \/ dirDisk[Dest] = p
      BY <3>1, <1>s, <1>o DEF Landed, Looks, Goes, Landing, Complete
    <3>2. CASE dir'[Dest] = p /\ pc[p] = "publish" /\ pc'[p] # "publish"
      BY <3>2, <1>s, <1>o DEF Looks, Goes, Landing, Complete, Bytes, Reads, Signals
    <3> QED
      BY <2>1, <3>1, <3>2 DEF Move
  <2>2. pc[p] \in Complete => /\ content'[p] = content[p] /\ op'[p] = op[p]
                              /\ got'[p] = got[p] /\ synced \subseteq synced'
    BY <1>a, <1>o DEF Looks, Complete
  <2>3. dirDisk'[Dest] = p => dir'[Dest] = p \/ p \in removed'
    BY <1>s, <1>u DEF Landed, Move
  <2> QED
    BY <2>1, <2>2, <2>3, <1>u, <1>g DEF Landed, OneState, Allowed
<1> QED
  BY <1>1, <1>2, <1>3, <1>4, <1>5, <1>6

-----------------------------------------------------------------------------
(* The other processes, and the rest of the system.                        *)

LEMMA OtherShape ==
    ASSUME TypeOK, Shape, NEW p \in Proc, Move(p), Apart(p), NEW q \in Proc, q # p
    PROVE  /\ Control(q)' /\ Bytes(q)' /\ Reads(q)' /\ Signals(q)'
           /\ Temporary(q)' /\ Landed(q)'
<1> USE Basics DEF world, place
<1>u. /\ tool' = tool /\ input' = input /\ signal' = signal /\ removed' = removed /\ Now' = Now
      /\ Handles' = Handles /\ InMemory' = InMemory
  BY DEF Move, Now, Handles, InMemory
<1>v. /\ pc'[q] = pc[q] /\ op'[q] = op[q] /\ result'[q] = result[q] /\ snap'[q] = snap[q]
      /\ got'[q] = got[q] /\ content'[q] = content[q] /\ dir'[q] = dir[q]
      /\ (q \in synced') = (q \in synced)
  BY DEF Apart
<1>s. /\ Control(q) /\ Bytes(q) /\ Reads(q) /\ Signals(q) /\ Temporary(q) /\ Landed(q)
      /\ Temporary(p)
  BY DEF Shape
<1>g. Genuine(q)' = Genuine(q) /\ OneState(q)' = OneState(q) /\ Allowed' = Allowed
  BY <1>u, <1>v DEF Genuine, Authentic, OneState, Allowed
<1>1. Control(q)'
  BY <1>s, <1>u, <1>v DEF Control
<1>2. Bytes(q)'
  BY <1>s, <1>u, <1>v, <1>g DEF Bytes
<1>3. Reads(q)'
  BY <1>s, <1>u, <1>v, <1>g DEF Reads
<1>4. Signals(q)'
  BY <1>s, <1>u, <1>v, <1>g DEF Signals
<1>5. Temporary(q)'
  BY <1>s, <1>u, <1>v DEF Temporary, Move
<1>6. Landed(q)'
  <2>1. dir'[Dest] = q => dir[Dest] = q
    BY <1>s DEF Move, Source, Temporary
  <2>2. dirDisk'[Dest] = q => dirDisk[Dest] = q \/ dir'[Dest] = q
    BY DEF Move
  <2>3. dir[Dest] = q => dir'[Dest] = q
    BY DEF Move
  <2> QED
    BY <2>1, <2>2, <2>3, <1>s, <1>u, <1>v, <1>g DEF Landed
<1> QED
  BY <1>1, <1>2, <1>3, <1>4, <1>5, <1>6

LEMMA ActShape ==
    ASSUME TypeOK, Shape, TypeOK', NEW p \in Proc, Act(p)
    PROVE  Shape'
<1>1. Apart(p) /\ Move(p) /\ Looks(p)
  BY OthersApart, Moves
<1> SUFFICES ASSUME NEW q \in Proc
             PROVE  /\ Control(q)' /\ Bytes(q)' /\ Reads(q)' /\ Signals(q)'
                    /\ Temporary(q)' /\ Landed(q)'
  BY DEF Shape
<1>2. CASE q = p
  BY <1>1, <1>2, OwnShape
<1>3. CASE q # p
  BY <1>1, <1>3, OtherShape
<1> QED
  BY <1>2, <1>3

LEMMA EditShape ==
    ASSUME TypeOK, Shape, NEW l, NEW t, NEW g, EditInput(l, t, g)
    PROVE  Shape'
<1> SUFFICES ASSUME NEW q \in Proc
             PROVE  /\ Control(q)' /\ Bytes(q)' /\ Reads(q)' /\ Signals(q)'
                    /\ Temporary(q)' /\ Landed(q)'
  BY DEF Shape
<1> USE Basics DEF EditInput, Happens, place, files, jobs
<1>u. /\ UNCHANGED <<tool, unnamed, linkOnly, dir, dirDisk, content, synced, pc, op,
                     result, snap, got, signal, removed, lost>>
      /\ Handles' = Handles /\ InMemory' = InMemory
  BY DEF Handles, InMemory
<1>n. /\ Now \in Nat /\ Now > 0 /\ Now' = Now + 1
      /\ \A i \in 1..Now : input'[i] = input[i]
  <2>1. input \in Seq(State) /\ Len(input) \in Nat /\ Len(input) > 0
    BY StagedAssumption DEF TypeOK
  <2>2. input' = Append(input, [len |-> l, mtime |-> t, genuine |-> g])
    BY DEF EditInput
  <2> QED
    BY <2>1, <2>2 DEF Now
<1>s. /\ Control(q) /\ Bytes(q) /\ Reads(q) /\ Signals(q) /\ Temporary(q) /\ Landed(q)
  BY DEF Shape
<1>r. \A i \in DOMAIN got[q] : got[q][i] \in 1..Now
  BY <1>s DEF Reads
<1>g. /\ Genuine(q) => Genuine(q)'
      /\ Allowed' = Allowed
  <2>1. ASSUME Authentic(got[q]) PROVE Authentic(got[q])'
    <3>1. 1 \in DOMAIN got[q]
      <4>1. got[q] \in Seq(1..MaxLoad + 1)
        BY DEF TypeOK
      <4> QED
        BY <2>1, <4>1 DEF Authentic
    <3> QED
      BY <2>1, <3>1, <1>r, <1>n, <1>u DEF Authentic
  <2> QED
    BY <2>1, <1>u DEF Genuine, Allowed
<1>o. OneState(q) => OneState(q)'
  <2>1. (\A i \in 1..Now' : input'[i].mtime = i - 1) => \A i \in 1..Now : input[i].mtime = i - 1
    <3> SUFFICES ASSUME \A i \in 1..Now' : input'[i].mtime = i - 1, NEW i \in 1..Now
                 PROVE  input[i].mtime = i - 1
      OBVIOUS
    <3>1. i \in 1..Now' /\ input'[i] = input[i]
      BY <1>n
    <3> QED
      BY <3>1
  <2> QED
    BY <2>1, <1>u DEF OneState
<1> HIDE DEF EditInput
<1>1. Control(q)'
  BY <1>s, <1>u DEF Control
<1>2. Bytes(q)'
  BY <1>s, <1>u, <1>g DEF Bytes
<1>3. Reads(q)'
  BY <1>s, <1>u, <1>n, <1>o DEF Reads
<1>4. Signals(q)'
  BY <1>s, <1>u, <1>g DEF Signals
<1>5. Temporary(q)'
  BY <1>s, <1>u DEF Temporary
<1>6. Landed(q)'
  BY <1>s, <1>u, <1>g, <1>o DEF Landed
<1> QED
  BY <1>1, <1>2, <1>3, <1>4, <1>5, <1>6

\* Of these, only the names, the signals and the power failure matter.
LEMMA OthersShape ==
    ASSUME TypeOK, Shape, Meddle \/ WriteBack \/ (\E p \in Proc : Signal(p)) \/ PowerLoss
    PROVE  Shape'
<1> SUFFICES ASSUME NEW q \in Proc
             PROVE  /\ Control(q)' /\ Bytes(q)' /\ Reads(q)' /\ Signals(q)'
                    /\ Temporary(q)' /\ Landed(q)'
  BY DEF Shape
<1> USE Basics DEF TypeOK, Happens, place, files, jobs, world, Meddle, WriteBack, Signal, PowerLoss
<1>u. /\ UNCHANGED <<tool, op, snap, got, input, synced>>
      /\ Handles' = Handles /\ InMemory' = InMemory /\ Now' = Now
  BY DEF Handles, InMemory, Now
<1>s. /\ Control(q) /\ Bytes(q) /\ Reads(q) /\ Signals(q) /\ Temporary(q) /\ Landed(q)
      /\ tool \in AllTools /\ (Handles => "confirm" \notin StepsOf(tool, op[q]) \/ op[q] \notin Offers(tool))
  BY StagedAssumption, Table DEF Shape, Starts, Handles
<1>g. Genuine(q)' = Genuine(q) /\ OneState(q)' = OneState(q) /\ Allowed' = Allowed
  BY <1>u DEF Genuine, Authentic, OneState, Allowed
<1>1. CASE Meddle
  <2>1. /\ UNCHANGED <<pc, result, content, signal, dirDisk>> /\ removed \subseteq removed'
        /\ dir'[q] = dir[q] \/ (tool \in Exchanged /\ dir[q] = q /\ dir'[q] = Other)
        /\ dir'[Dest] = q => dir[Dest] = q
        /\ dir[Dest] = q => dir'[Dest] = q \/ q \in removed'
    BY <1>1
  <2> QED
    BY <2>1, <1>s, <1>u, <1>g DEF Control, Bytes, Reads, Signals, Temporary, Landed
<1>2. CASE WriteBack
  BY <1>2, <1>s, <1>u, <1>g DEF Control, Bytes, Reads, Signals, Temporary, Landed
<1>3. CASE \E p \in Proc : Signal(p)
  <2>1. /\ UNCHANGED <<pc, result, content, dir, dirDisk, removed>>
        /\ signal'[q] = signal[q] \/ (Handles /\ Running(q) /\ signal'[q] = pc[q])
    BY <1>3
  <2> QED
    BY <2>1, <1>s, <1>u, <1>g DEF Control, Bytes, Reads, Signals, Temporary, Landed, Running, Allowed, Landing
<1>4. CASE PowerLoss
  <2>1. /\ UNCHANGED <<signal, dirDisk, removed>> /\ dir' = dirDisk
        /\ pc'[q] = "done" \/ (pc[q] = "idle" /\ pc'[q] = "idle")
        /\ result'[q] = IF Running(q) THEN "killed" ELSE result[q]
        /\ pc[q] # "idle" => pc'[q] = "done"
        /\ content'[q] = content[q] \/ (q \notin synced /\ content[q] # "empty")
    BY <1>4 DEF Running
  <2>2. Control(q)' /\ Bytes(q)'
    BY <2>1, <1>s, <1>u, <1>g DEF Control, Bytes, Running, Early, Complete
  <2>3. Reads(q)' /\ Signals(q)'
    BY <2>1, <1>s, <1>u, <1>g DEF Reads, Signals, Complete
  <2>4. Temporary(q)' /\ Landed(q)'
    BY <2>1, <1>s, <1>u, <1>g DEF Temporary, Landed, Early, Landing
  <2> QED
    BY <2>2, <2>3, <2>4
<1> QED
  BY <1>1, <1>2, <1>3, <1>4

-----------------------------------------------------------------------------
(* Types.                                                                  *)

\* Every edit of the input is an event, so that their number bounds its states.
Ages == Len(input) <= events + 1

LEMMA ActTypes ==
    ASSUME TypeOK, Shape, NEW p \in Proc, Act(p)
    PROVE  TypeOK'
<1> USE Basics DEF Goto, Answer, files, jobs
<1>w. world' = world
  BY Moves DEF Move
<1>c. /\ pc[p] # "idle" => op[p] \in Offers(tool)
      /\ pc[p] \notin {"idle", "late", "unlink", "done"} => pc[p] \in StepsOf(tool, op[p])
      /\ tool \in AllTools
  BY StagedAssumption DEF Shape, Control, TypeOK
<1> DEFINE Moving ==
      /\ pc' \in [Proc -> Step \cup {"idle", "done"}] /\ result' \in [Proc -> Result]
           Naming == dir' \in [Name -> Inode \cup {None}] /\ dirDisk' \in [Name -> Inode \cup {None}]
           Filling ==
      /\ content' \in [Proc -> {"empty", "partial", "whole", "torn"}] /\ synced' \in SUBSET Proc
           Working ==
      /\ op' \in [Proc -> {"none"} \cup Offers(tool)] /\ snap' \in [Proc -> 0..MaxLoad + 1]
      /\ got' \in [Proc -> Seq(1..MaxLoad + 1)]
<1>q. ASSUME Moving, Naming, Filling, Working PROVE TypeOK'
  BY <1>q, <1>w DEF TypeOK, world, place
<1>f. ASSUME NEW r \in Result, Abandon(p, r)
      PROVE  Moving /\ dir' \in [Name -> Inode \cup {None}]
  <2>1. pc' = [pc EXCEPT ![p] = "done"] /\ pc' \in [Proc -> Step \cup {"idle", "done"}]
    BY <1>f DEF Abandon, TypeOK
  <2>2. \E x \in Result : result' = [result EXCEPT ![p] = x]
    BY <1>f DEF Abandon, Result
  <2>3. result' \in [Proc -> Result]
    BY <2>2 DEF TypeOK
  <2>4. dir' = dir \/ dir' = [dir EXCEPT ![p] = None]
    BY <1>f DEF Abandon
  <2>5. dir' \in [Name -> Inode \cup {None}]
    BY <2>4 DEF TypeOK
  <2> QED
    BY <2>1, <2>3, <2>5
<1>e. ASSUME Fail(p) PROVE Moving /\ dir' \in [Name -> Inode \cup {None}]
  <2>1. "interrupted" \in Result /\ "error" \in Result
    BY DEF Result
  <2> QED
    BY <1>e, <1>f, <2>1 DEF Fail
<1>a. ASSUME NEW s \in StepsOf(tool, op[p]), op[p] \in Offers(tool), Leave(p, s) PROVE Moving
  <2>1. PICK n \in Step \cup {"done"} : /\ n = "done" => Answer(p, "ok")
                                        /\ n # "done" => Goto(p, n)
    BY <1>a, Leaves
  <2>2. CASE n = "done"
    <3>1. Answer(p, "ok")
      BY <2>1, <2>2
    <3>2. result' \in [Proc -> Result]
      BY <3>1 DEF TypeOK, Result
    <3>3. pc' \in [Proc -> Step \cup {"idle", "done"}]
      BY <3>1 DEF TypeOK
    <3> QED
      BY <3>2, <3>3
  <2>3. CASE n # "done"
    <3>1. pc' = [pc EXCEPT ![p] = n] /\ result' = result
      BY <2>1, <2>3
    <3> QED
      BY <3>1 DEF TypeOK
  <2> QED
    BY <2>2, <2>3
<1>n. Now \in 1..MaxLoad + 1 /\ <<Now>> \in Seq(1..MaxLoad + 1)
      /\ Append(got[p], Now) \in Seq(1..MaxLoad + 1)
  <2>1. Now \in 1..MaxLoad + 1 /\ got[p] \in Seq(1..MaxLoad + 1)
    BY DEF Now, TypeOK
  <2> QED
    BY <2>1
<1>m. snap' = [snap EXCEPT ![p] = Now] => snap' \in [Proc -> 0..MaxLoad + 1]
  <2>1. Now \in 0..MaxLoad + 1
    BY <1>n, StagedAssumption
  <2> QED
    BY <2>1 DEF TypeOK
<1>g. \/ got' = got \/ got' = [got EXCEPT ![p] = <<Now>>]
      \/ got' = [got EXCEPT ![p] = Append(got[p], Now)]
      => got' \in [Proc -> Seq(1..MaxLoad + 1)]
  <2>1. got \in [Proc -> Seq(1..MaxLoad + 1)]
    BY DEF TypeOK
  <2>2. ASSUME NEW S, NEW f \in [Proc -> S], NEW x \in S PROVE [f EXCEPT ![p] = x] \in [Proc -> S]
    OBVIOUS
  <2>3. /\ [got EXCEPT ![p] = <<Now>>] \in [Proc -> Seq(1..MaxLoad + 1)]
        /\ [got EXCEPT ![p] = Append(got[p], Now)] \in [Proc -> Seq(1..MaxLoad + 1)]
    BY <2>1, <2>2, <1>n
  <2> QED
    BY <2>1, <2>3
<1>k. /\ op' = op /\ snap' = snap /\ got' \in [Proc -> Seq(1..MaxLoad + 1)] => Working
      /\ op' = op /\ snap' \in [Proc -> 0..MaxLoad + 1] /\ got' = got => Working
  BY DEF TypeOK
<1> HIDE DEF Moving, Naming, Filling, Working
<1>i. /\ pc' = pc /\ result' = result => Moving
      /\ dir' = dir /\ dirDisk' = dirDisk => Naming
      /\ dir' = dir => dir' \in [Name -> Inode \cup {None}]
      /\ dir' \in [Name -> Inode \cup {None}] /\ dirDisk' \in {dirDisk, dir'} => Naming
      /\ content' = content /\ synced' = synced => Filling
      /\ op' = op /\ snap' = snap /\ got' = got => Working
      /\ dir \in [Name -> Inode \cup {None}]
      /\ dirDisk \in [Name -> Inode \cup {None}]
  BY DEF TypeOK, Moving, Naming, Filling, Working
<1>1. CASE \E o \in {"encrypt", "decrypt", "make"} : Begin(p, o)
  <2>1. PICK o \in {"encrypt", "decrypt", "make"} : Begin(p, o)
    BY <1>1
  <2>2. Starts(tool, o)
    BY <2>1, <1>c, Table DEF Begin
  <2>3. Moving /\ Working
    BY <2>1, <2>2 DEF Begin, Starts, TypeOK, Moving, Working
  <2> QED
    BY <2>1, <2>3, <1>q, <1>i DEF Begin
<1>2. CASE Open(p) \/ LookForTarget(p)
  <2>1. Moving
    BY <1>2, <1>c, <1>a DEF Open, LookForTarget, Advance, Moving, TypeOK, Result
  <2>2. Working
    BY <1>2, <1>m, <1>i, <1>k DEF Open, LookForTarget
  <2> QED
    BY <2>1, <2>2, <1>2, <1>q, <1>i DEF Open, LookForTarget
<1>3. CASE Create(p) \/ CreateFails(p)
  <2>1. Moving
    BY <1>3, <1>c, <1>a DEF Create, CreateFails, Advance, Moving, TypeOK, Result
  <2>2. dir' \in [Name -> Inode \cup {None}]
    BY <1>3 DEF Create, CreateFails, TypeOK
  <2> QED
    BY <2>1, <2>2, <1>3, <1>q, <1>i DEF Create, CreateFails
<1>4. CASE ReadHeader(p) \/ Verify(p) \/ ReadCancelled(p)
  <2>1. Moving /\ dir' \in [Name -> Inode \cup {None}]
    BY <1>4, <1>c, <1>a, <1>e, <1>f, <1>i DEF ReadHeader, Verify, ReadCancelled, Advance, Result
  <2>2. Working
    BY <1>4, <1>g, <1>i, <1>k DEF ReadHeader, Verify, ReadCancelled
  <2> QED
    BY <2>1, <2>2, <1>4, <1>q, <1>i DEF ReadHeader, Verify, ReadCancelled
<1>5. CASE ReadFirst(p) \/ ReadRest(p)
  <2>1. Moving /\ dir' \in [Name -> Inode \cup {None}]
    BY <1>5, <1>c, <1>a, <1>e, <1>i DEF ReadFirst, ReadRest, Advance
  <2>2. Working
    BY <1>5, <1>g, <1>i, <1>k DEF ReadFirst, ReadRest
  <2>3. Filling
    BY <1>5 DEF ReadFirst, ReadRest, Filling, TypeOK
  <2> QED
    BY <2>1, <2>2, <2>3, <1>5, <1>q, <1>i DEF ReadFirst, ReadRest
<1>6. CASE Write(p) \/ SyncStage(p)
  <2>1. Moving
    BY <1>6, <1>c, <1>a DEF Write, SyncStage, Advance
  <2>2. Filling
    BY <1>6 DEF Write, SyncStage, SyncedFile, Filling, TypeOK
  <2> QED
    BY <2>1, <2>2, <1>6, <1>q, <1>i DEF Write, SyncStage
<1>7. CASE CheckSignal(p) \/ CompareInput(p) \/ CheckIdentity(p)
  <2>1. Moving /\ dir' \in [Name -> Inode \cup {None}]
    BY <1>7, <1>c, <1>a, <1>e, <1>f, <1>i DEF CheckSignal, CompareInput, CheckIdentity, Advance, Result
  <2> QED
    BY <2>1, <1>7, <1>q, <1>i DEF CheckSignal, CompareInput, CheckIdentity
<1>8. CASE StepFails(p)
  <2>1. Moving /\ dir' \in [Name -> Inode \cup {None}]
    BY <1>8, <1>e DEF StepFails
  <2>2. Filling
    BY <1>8 DEF StepFails, Filling, TypeOK
  <2> QED
    BY <2>1, <2>2, <1>8, <1>q, <1>i DEF StepFails
<1>9. CASE Publish(p) \/ PublishLate(p)
  <2>1. dir' \in [Name -> Inode \cup {None}]
    <3>1. Source(p) \in Inode \cup {None}
      BY DEF Source, TypeOK
    <3>2. dir' = [dir EXCEPT ![Dest] = Source(p), ![p] = IF Linked(p) THEN dir[p] ELSE None]
      BY <1>9 DEF Publish, PublishLate, Install
    <3> QED
      BY <3>1, <3>2 DEF TypeOK
  <2>2. Moving
    <3>1. CASE Publish(p)
      BY <3>1, <1>c, <1>a DEF Publish, Published, Advance, Moving, TypeOK, Step
    <3>2. CASE PublishLate(p)
      BY <3>2 DEF PublishLate, Moving, TypeOK, Step
    <3> QED
      BY <1>9, <3>1, <3>2
  <2> QED
    BY <2>1, <2>2, <1>9, <1>q, <1>i DEF Publish, PublishLate, Published
<1>10. CASE PublishRefused(p) \/ DecideLate(p) \/ Confirm(p)
  <2>1. Moving /\ dir' \in [Name -> Inode \cup {None}]
    BY <1>10, <1>e, <1>f DEF PublishRefused, DecideLate, Confirm, Result
  <2> QED
    BY <2>1, <1>10, <1>q, <1>i DEF PublishRefused, DecideLate, Confirm
<1>11. CASE Unlink(p)
  <2>1. dir' \in [Name -> Inode \cup {None}]
    BY <1>11 DEF Unlink, TypeOK
  <2>2. "publish" \in StepsOf(tool, op[p])
    BY <1>11, <1>c, Table DEF Unlink, Starts
  <2>3. Moving
    BY <1>11, <2>2, <1>c, <1>a DEF Unlink, Moving, TypeOK, Step, Result
  <2> QED
    BY <2>1, <2>3, <1>11, <1>q, <1>i DEF Unlink
<1>12. CASE SyncDirectory(p) \/ Kill(p)
  <2>1. Moving
    BY <1>12 DEF SyncDirectory, Kill, Moving, TypeOK, Result
  <2> QED
    BY <2>1, <1>12, <1>q, <1>i DEF SyncDirectory, Kill
<1> QED
  BY <1>1, <1>2, <1>3, <1>4, <1>5, <1>6, <1>7, <1>8, <1>9, <1>10, <1>11, <1>12 DEF Act, Stage, Commit

LEMMA LoadBound ==
    ASSUME TypeOK, Load < MaxLoad
    PROVE  events + 1 \in 0..MaxLoad
<1> DEFINE Begun == {p \in Proc : pc[p] # "idle"}
<1>1. Cardinality(Begun) \in Nat
  BY StagedAssumption, FS_Subset, FS_CardinalityType
<1> QED
  BY <1>1, StagedAssumption DEF Load, TypeOK

LEMMA EnvironmentTypes ==
    ASSUME TypeOK, Ages, Environment
    PROVE  (\E p \in Proc : Kill(p)) \/ (TypeOK' /\ Ages')
<1> USE Basics, StagedAssumption DEF files, jobs, world, place
<1>b. Happens => events' \in 0..MaxLoad /\ events' = events + 1
  BY LoadBound DEF Happens
<1>1. ASSUME NEW l \in {0, 1}, NEW t \in 0..MaxLoad, NEW g \in BOOLEAN, EditInput(l, t, g)
      PROVE  TypeOK' /\ Ages'
  <2>1. [len |-> l, mtime |-> t, genuine |-> g] \in State
    BY DEF State
  <2>2. input' \in Seq(State) /\ Len(input') = Len(input) + 1
    BY <2>1, <1>1 DEF EditInput, TypeOK
  <2> QED
    BY <2>2, <1>1, <1>b DEF EditInput, Happens, TypeOK, Ages
<1>2. CASE Meddle
  <2>1. removed' \in SUBSET Proc
    BY <1>2 DEF Meddle, TypeOK
  <2>2. dir' \in [Name -> Inode \cup {None}]
    <3>1. \/ dir' = [dir EXCEPT ![Dest] = Other] \/ dir' = [dir EXCEPT ![Dest] = None]
          \/ \E p \in Proc : dir' = [dir EXCEPT ![p] = Other]
      BY <1>2 DEF Meddle
    <3>2. dir \in [Name -> Inode \cup {None}] /\ Dest \in Name /\ Proc \subseteq Name
          /\ Other \in Inode
      BY DEF TypeOK
    <3> QED
      BY <3>1, <3>2
  <2> QED
    BY <1>2, <1>b, <2>1, <2>2 DEF Meddle, Happens, TypeOK, Ages
<1>3. CASE WriteBack
  BY <1>3 DEF WriteBack, TypeOK, Ages
<1>4. CASE PowerLoss
  BY <1>4, <1>b DEF PowerLoss, Happens, TypeOK, Ages, Result
<1>5. ASSUME NEW p \in Proc, Signal(p) PROVE TypeOK' /\ Ages'
  BY <1>5, <1>b DEF Signal, Happens, Running, TypeOK, Ages
<1> QED
  BY <1>1, <1>2, <1>3, <1>4, <1>5 DEF Environment

-----------------------------------------------------------------------------
IInv == TypeOK /\ Ages /\ Shape

LEMMA Initially == Init => IInv
<1> SUFFICES ASSUME Init PROVE IInv
  OBVIOUS
<1> USE Basics, StagedAssumption DEF Init
<1>1. input \in Seq(State) /\ Len(input) = 1
  <2>1. [len |-> 0, mtime |-> 0, genuine |-> TRUE] \in State
    BY DEF State
  <2> QED
    BY <2>1
<1>2. TypeOK
  <2>1. dir \in [Name -> Inode \cup {None}]
    OBVIOUS
  <2>2. input \in Seq(State) /\ Len(input) \in 1..MaxLoad + 1
    BY <1>1
  <2>3. got \in [Proc -> Seq(1..MaxLoad + 1)]
    <3>1. <<>> \in Seq(1..MaxLoad + 1)
      OBVIOUS
    <3> QED
      BY <3>1
  <2>4. op \in [Proc -> {"none"} \cup Offers(tool)] /\ result \in [Proc -> Result]
    BY DEF Result
  <2>6. tool \in Tools /\ linkOnly \in BOOLEAN /\ unnamed \in BOOLEAN /\ dirDisk = dir /\ lost \in BOOLEAN
    BY Zenon
  <2>5. /\ content \in [Proc -> {"empty", "partial", "whole", "torn"}] /\ synced \in SUBSET Proc
        /\ pc \in [Proc -> Step \cup {"idle", "done"}] /\ snap \in [Proc -> 0..MaxLoad + 1]
        /\ signal \in [Proc -> Step \cup {"none"}] /\ removed \in SUBSET Proc
        /\ events \in 0..MaxLoad
    OBVIOUS
  <2> QED
    BY <2>1, <2>2, <2>3, <2>4, <2>5, <2>6 DEF TypeOK
<1>3. Ages
  BY <1>1 DEF Ages
<1>4. Shape
  <2> SUFFICES ASSUME NEW p \in Proc
               PROVE  /\ Control(p) /\ Bytes(p) /\ Reads(p) /\ Signals(p)
                      /\ Temporary(p) /\ Landed(p)
    BY DEF Shape
  <2>1. dir[p] = None /\ dir[Dest] # p
    OBVIOUS
  <2> QED
    BY <1>1, <2>1 DEF Control, Bytes, Reads, Signals, Temporary, Landed, Complete, Early, Landing, Now
<1> QED
  BY <1>2, <1>3, <1>4 DEF IInv

LEMMA Steps == IInv /\ [Next]_vars => IInv'
<1> SUFFICES ASSUME IInv, [Next]_vars PROVE IInv'
  OBVIOUS
<1> USE DEF IInv
<1>1. ASSUME NEW p \in Proc, Act(p) PROVE IInv'
  <2>1. TypeOK' /\ Shape'
    BY <1>1, ActTypes, ActShape
  <2>2. Ages'
    BY <1>1, Moves DEF Move, world, Ages
  <2> QED
    BY <2>1, <2>2
<1>2. CASE Environment
  <2>1. CASE \E p \in Proc : Kill(p)
    BY <2>1, <1>1 DEF Act
  <2>2. CASE TypeOK' /\ Ages' /\ ~ \E p \in Proc : Kill(p)
    BY <1>2, <2>2, EditShape, OthersShape DEF Environment
  <2> QED
    BY <1>2, <2>1, <2>2, EnvironmentTypes
<1>3. CASE UNCHANGED vars
  BY <1>3 DEF vars, TypeOK, Ages, Shape, Control, Bytes, Reads, Signals, Temporary, Landed,
              OneState, Genuine, Authentic, Allowed, Handles, InMemory, Now
<1> QED
  BY <1>1, <1>2, <1>3 DEF Next, Act

-----------------------------------------------------------------------------
(* What holds whatever fails late and whoever's names are taken over.      *)

LEMMA Invariance == Spec => []IInv
BY Initially, Steps, PTL DEF Spec

\* The types of all variables, and with them the bound on the states of the
\* input, hold for any number of calls and events.
THEOREM TypeCorrect == Spec => []TypeOK
<1>1. IInv => TypeOK
  BY DEF IInv
<1> QED
  BY <1>1, Invariance, PTL

\* No name ever stands for a part of an output or for plaintext that was not
\* authenticated to its end: not under the destination's name of any of the
\* ten tools, and under no name at all of secure, cascade and multicrypt.
THEOREM NamesWhole == Spec => []NamesAreWhole
<1>1. IInv => NamesAreWhole
  <2> SUFFICES ASSUME IInv PROVE NamesAreWhole
    OBVIOUS
  <2> USE Basics DEF IInv, Shape
  <2>1. DestinationIsWhole
    BY DEF DestinationIsWhole, Landed, Genuine
  <2>2. NamedPlaintextIsAuthentic
    <3> SUFFICES ASSUME tool \in {"secure", "cascade", "multicrypt"}, NEW p \in Proc, NEW n \in Name,
                        dir[n] = p, op[p] = "decrypt", content[p] # "empty"
                 PROVE  Authentic(got[p])
      BY DEF NamedPlaintextIsAuthentic
    <3>1. CASE InMemory
      BY <3>1 DEF Bytes, Genuine
    <3>2. CASE n = Dest
      BY <3>2 DEF Landed, Genuine
    <3>3. CASE ~InMemory /\ n # Dest
      <4>1. n \in Proc /\ dir[n] \in {n, Other, None}
        BY <3>3 DEF Name, Temporary
      <4> QED
        BY <3>3, <4>1 DEF Temporary, InMemory
    <3> QED
      BY <3>1, <3>2, <3>3
  <2> QED
    BY <2>1, <2>2 DEF NamesAreWhole
<1> QED
  BY <1>1, Invariance, PTL

\* What secure, and best unless the input is backdated, publish as an
\* encryption was read from one state of the input: the identity compared
\* after the last byte is the one noted when the input was opened.
THEOREM OneStateIsEncrypted == Spec => []OneStateOfTheInput
<1>1. IInv => OneStateOfTheInput
  BY DEF IInv, Shape, Landed, OneState, OneStateOfTheInput
<1> QED
  BY <1>1, Invariance, PTL

\* A published output of secure or best has had no signal before the last
\* check of the flag.
THEOREM SignalsStop == Spec => []SignalStops
<1>1. IInv => SignalStops
  BY DEF IInv, Shape, Landed, Allowed, SignalStops
<1> QED
  BY <1>1, Invariance, PTL

\* No step of any call changes a destination that exists: the one publishing
\* step takes the name only when nobody has it.
THEOREM NobodyIsReplaced == Spec => NeverReplaced
<1>1. IInv /\ [Next]_vars =>
        [dir[Dest] # None /\ events' = events => dir'[Dest] = dir[Dest]]_vars
  <2> SUFFICES ASSUME IInv, Next, dir[Dest] # None, events' = events
               PROVE  dir'[Dest] = dir[Dest]
    BY DEF vars
  <2>1. ASSUME NEW p \in Proc, Act(p) PROVE dir'[Dest] = dir[Dest]
    BY <2>1, Moves DEF IInv, Move
  <2>2. CASE Environment
    <3>1. ~Happens
      BY DEF Happens, IInv, TypeOK
    <3>2. CASE WriteBack
      BY <3>2 DEF WriteBack
    <3>3. CASE \E p \in Proc : Kill(p)
      BY <3>3, <2>1 DEF Act
    <3> QED
      BY <2>2, <3>1, <3>2, <3>3 DEF Environment, EditInput, Meddle, Signal, PowerLoss
  <2> QED
    BY <2>1, <2>2 DEF Next, Act
<1> QED
  BY <1>1, Invariance, PTL DEF Spec, NeverReplaced

-----------------------------------------------------------------------------
(* What the answers say.                                                   *)

\* Only filecrypt's moves take effect and fail, and only its temporary names
\* are taken over: it is the one tool that looks before it believes an error.
OnlyFilecrypt == Late \subseteq {"filecrypt"} /\ Exchanged \subseteq {"filecrypt"}
Errors == {"error", "leftover", "interrupted", "mismatch"}
Installed == {"late", "unlink", "confirm", "dirsync"}

\* A call that stops before it has published anything.
LEMMA StopsEarly ==
    ASSUME TypeOK, Shape, NEW p \in Proc, Act(p), pc[p] \notin Installed,
           ~ Publish(p), ~ PublishLate(p)
    PROVE  /\ result'[p] \in {"none", "error", "leftover", "interrupted", "killed"}
           /\ pc'[p] \notin Installed /\ dir'[Dest] = dir[Dest]
           /\ Tells /\ pc'[p] = "done" /\ dir'[p] # None => result'[p] \in {"leftover", "killed"}
<1> USE Basics DEF TypeOK, Goto, Answer, files, jobs, Installed
<1>1. /\ pc[p] # "done" /\ result[p] = "none" /\ (pc[p] # "idle" => op[p] \in Offers(tool))
      /\ pc[p] # "idle" => pc[p] \in StepsOf(tool, op[p])
      /\ pc[p] \in Early => dir[p] = None
      /\ tool \in AllTools
  BY Moves, StagedAssumption DEF Looks, Shape, Control, Temporary, Early
<1>a. ASSUME Advance(p), pc[p] # "idle", pc[p] # "publish"
      PROVE  pc'[p] \notin Installed \cup {"done"} /\ result'[p] = "none"
  <2>1. PICK n \in Step \cup {"done"} : /\ Goes(tool, op[p], pc[p], n)
                                        /\ n = "done" => Answer(p, "ok")
                                        /\ n # "done" => Goto(p, n)
    BY <1>a, <1>1, Leaves DEF Advance
  <2>2. n \notin Installed \cup {"done"}
    BY <1>a, <2>1, <1>1 DEF Goes
  <2> QED
    BY <2>1, <2>2, <1>1
<1>f. ASSUME NEW r, Abandon(p, r), r \in {"error", "interrupted"}
      PROVE  /\ pc'[p] = "done" /\ result'[p] \in {"error", "leftover", "interrupted"}
             /\ dir'[Dest] = dir[Dest]
             /\ Tells /\ dir'[p] # None => result'[p] = "leftover"
  BY <1>f DEF Abandon
<1>e. ASSUME Fail(p)
      PROVE  /\ pc'[p] = "done" /\ result'[p] \in {"error", "leftover", "interrupted"}
             /\ dir'[Dest] = dir[Dest]
             /\ Tells /\ dir'[p] # None => result'[p] = "leftover"
  BY <1>e, <1>f DEF Fail
<1>2. CASE \E o \in {"encrypt", "decrypt", "make"} : Begin(p, o)
  <2>1. PICK o \in {"encrypt", "decrypt", "make"} : Begin(p, o)
    BY <1>2
  <2>2. Starts(tool, o)
    BY <2>1, <1>1, Table DEF Begin
  <2> QED
    BY <2>1, <2>2, <1>1 DEF Begin, Starts
<1>3. CASE Open(p) \/ LookForTarget(p)
  BY <1>3, <1>1, <1>a DEF Open, LookForTarget, Handles, Tells, Early
<1>4. CASE Create(p) \/ CreateFails(p)
  BY <1>4, <1>1, <1>a DEF Create, CreateFails, NamedStage, Tells
<1>5. CASE ReadHeader(p) \/ Verify(p) \/ ReadCancelled(p)
  BY <1>5, <1>1, <1>a, <1>e, <1>f DEF ReadHeader, Verify, ReadCancelled
<1>6. CASE ReadFirst(p) \/ ReadRest(p) \/ Write(p) \/ SyncStage(p)
  BY <1>6, <1>1, <1>a, <1>e DEF ReadFirst, ReadRest, Write, SyncStage
<1>7. CASE CheckSignal(p) \/ CompareInput(p) \/ CheckIdentity(p) \/ StepFails(p)
  BY <1>7, <1>1, <1>a, <1>e, <1>f DEF CheckSignal, CompareInput, CheckIdentity, StepFails
<1>8. CASE PublishRefused(p)
  BY <1>8, <1>e DEF PublishRefused
<1>9. CASE Kill(p)
  BY <1>9 DEF Kill
<1> QED
  BY <1>2, <1>3, <1>4, <1>5, <1>6, <1>7, <1>8, <1>9
  DEF Act, Stage, Commit, DecideLate, Unlink, Confirm, SyncDirectory

LEMMA EarlyAnswers ==
    ASSUME TypeOK, Shape, AllAnswers, NEW p \in Proc, Act(p), pc[p] \notin Installed,
           ~ Publish(p), ~ PublishLate(p)
    PROVE  Answers(p)'
<1>1. pc[p] # "done" /\ Move(p) /\ Landed(p)
  BY Moves DEF Looks, Shape
<1>2. dir[Dest] # p /\ dirDisk[Dest] # p
  BY <1>1 DEF Landed, Landing, Installed
<1>3. dir'[Dest] # p /\ dirDisk'[Dest] # p
  BY <1>1, <1>2, StopsEarly DEF Move
<1>4. Tells' = Tells
  BY <1>1 DEF Move, world, place, Tells
<1> QED
  BY <1>3, <1>4, StopsEarly DEF Answers, Installed

\* A call that publishes gives its own output the name.
LEMMA PublishAnswers ==
    ASSUME TypeOK, Shape, AllAnswers, OnlyFilecrypt, NEW p \in Proc, Publish(p) \/ PublishLate(p)
    PROVE  Answers(p)'
<1> USE Basics DEF Goto, Answer, Installed
<1>1. /\ pc[p] = "publish" /\ op[p] \in Offers(tool) /\ "publish" \in StepsOf(tool, op[p])
      /\ tool \in AllTools /\ result[p] = "none" /\ Move(p)
      /\ dir[p] \in {p, Other, None} /\ (tool \notin Exchanged => dir[p] # Other)
  <2>1. Act(p) /\ pc[p] = "publish"
    BY DEF Act, Commit, Publish, PublishLate
  <2>2. Move(p) /\ tool \in AllTools
    BY <2>1, Moves, StagedAssumption DEF TypeOK
  <2> QED
    BY <2>1, <2>2 DEF Shape, Control, Temporary
<1>2. /\ UNCHANGED <<tool, removed, lost>> /\ Tells' = Tells
  BY <1>1 DEF Move, world, place, Tells
<1>3. /\ dir'[Dest] = Source(p) /\ (~Linked(p) => dir'[p] = None) /\ Source(p) # None
  BY DEF Publish, PublishLate, Install, TypeOK
<1>4. tool # "filecrypt" => dir'[Dest] = p
  BY <1>1, <1>3 DEF Source, OnlyFilecrypt
<1>5. CASE Publish(p) /\ ~Linked(p)
  <2>1. PICK n \in Step \cup {"done"} : /\ Goes(tool, op[p], "publish", n)
                                        /\ n = "done" => Answer(p, "ok")
                                        /\ n # "done" => Goto(p, n)
    BY <1>1, <1>5, Leaves DEF Publish, Published, Advance
  <2>2. /\ n = IF tool = "filecrypt" THEN "confirm"
               ELSE IF tool \in {"algos", "tf1024"} THEN "done" ELSE "dirsync"
        /\ tool = "filecrypt" => dirDisk' = dir'
    BY <2>1, <1>5 DEF Goes, Publish, Published
  <2>3. pc'[p] = n /\ result'[p] = IF n = "done" THEN "ok" ELSE "none"
    BY <2>1, <1>1 DEF TypeOK
  <2> QED
    BY <2>2, <2>3, <1>2, <1>3, <1>4, <1>5 DEF Answers, Tells
<1>6. CASE Publish(p) /\ Linked(p)
  <2>1. pc'[p] = "unlink" /\ result'[p] = "none"
    BY <1>1, <1>6 DEF Publish, Published, TypeOK
  <2> QED
    BY <2>1, <1>2, <1>4 DEF Answers
<1>7. CASE PublishLate(p)
  <2>1. pc'[p] = "late" /\ result'[p] = "none" /\ tool = "filecrypt"
    BY <1>1, <1>7 DEF PublishLate, TypeOK, OnlyFilecrypt
  <2> QED
    BY <2>1, <1>2 DEF Answers
<1> QED
  BY <1>5, <1>6, <1>7

\* A call whose output is there answers for it.
LEMMA InstalledAnswers ==
    ASSUME TypeOK, Shape, AllAnswers, OnlyFilecrypt, NEW p \in Proc, Act(p), pc[p] \in Installed
    PROVE  Answers(p)'
<1> USE Basics DEF Installed
<1>1. /\ op[p] \in Offers(tool) /\ "publish" \in StepsOf(tool, op[p]) /\ tool \in AllTools
      /\ Starts(tool, op[p]) /\ result[p] = "none" /\ Move(p) /\ Answers(p) /\ Landed(p)
      /\ pc[p] \in {"confirm", "dirsync"} => pc[p] \in StepsOf(tool, op[p])
  BY Moves, StagedAssumption, Table DEF Shape, Control, TypeOK, AllAnswers, Starts
<1>2. /\ UNCHANGED <<tool, removed, lost>> /\ Tells' = Tells /\ dir'[Dest] = dir[Dest]
  BY <1>1 DEF Move, world, place, Tells
<1>f. ASSUME NEW r, Abandon(p, r)
      PROVE  /\ pc'[p] = "done" /\ result'[p] \in {r, IF Tells THEN "leftover" ELSE r}
             /\ Tells /\ dir'[p] # None => result'[p] = "leftover"
  BY <1>f DEF Abandon, Answer, TypeOK
<1>3. CASE DecideLate(p)
  <2>1. tool = "filecrypt" /\ ~Tells /\ pc[p] = "late"
    BY <1>1, <1>3 DEF Answers, DecideLate, Tells
  <2>4. CASE Abandon(p, "unseen")
    <3>1. pc'[p] = "done" /\ result'[p] = "unseen"
      BY <2>1, <2>4, <1>f
    <3> QED
      BY <3>1, <2>1, <1>2 DEF Answers
  <2>2. CASE dir[Dest] = p /\ Abandon(p, "uncertain")
    <3>1. pc'[p] = "done" /\ result'[p] = "uncertain"
      BY <2>1, <2>2, <1>f
    <3> QED
      BY <3>1, <2>1, <2>2, <1>2 DEF Answers
  <2>3. CASE dir[Dest] # p /\ Fail(p)
    <3>1. pc'[p] = "done" /\ result'[p] = "error"
      BY <2>1, <2>3, <1>f DEF Fail
    <3>2. dirDisk'[Dest] = p => p \in removed
      BY <1>3, <1>1, <2>3 DEF DecideLate, Landed
    <3> QED
      BY <3>1, <3>2, <2>1, <2>3, <1>2 DEF Answers
  <2> QED
    BY <1>3, <2>1, <2>2, <2>3, <2>4 DEF DecideLate
<1>4. CASE Unlink(p)
  <2>1. pc[p] = "unlink" /\ (tool # "filecrypt" => dir[Dest] = p \/ p \in removed)
    BY <1>1, <1>4 DEF Answers, Unlink
  <2>2. ASSUME Leave(p, "publish"), dir'[p] = None \/ ~Tells,
               tool = "filecrypt" => dirDisk' = dir'
        PROVE  Answers(p)'
    <3>1. PICK n \in Step \cup {"done"} : /\ Goes(tool, op[p], "publish", n)
                                          /\ n = "done" => Answer(p, "ok")
                                          /\ n # "done" => Goto(p, n)
      BY <1>1, <2>2, Leaves
    <3>2. n = IF tool = "filecrypt" THEN "confirm"
              ELSE IF tool \in {"algos", "tf1024"} THEN "done" ELSE "dirsync"
      BY <3>1 DEF Goes
    <3>3. pc'[p] = n /\ result'[p] = IF n = "done" THEN "ok" ELSE "none"
      BY <3>1, <1>1 DEF TypeOK, Goto, Answer
    <3> QED
      BY <2>1, <2>2, <3>2, <3>3, <1>2 DEF Answers, Tells
  <2>3. CASE dir' = [dir EXCEPT ![p] = None] /\ Leave(p, "publish")
             /\ (tool = "filecrypt" => dirDisk' = dir')
    <3>1. dir'[p] = None
      BY <2>3 DEF TypeOK
    <3> QED
      BY <2>2, <2>3, <3>1
  <2>4. CASE Tells /\ Answer(p, "installed_leftover")
    <3>1. pc'[p] = "done" /\ result'[p] = "installed_leftover" /\ tool # "filecrypt"
      BY <2>4 DEF Answer, TypeOK, Tells
    <3> QED
      BY <3>1, <2>1, <1>2 DEF Answers
  <2>5. CASE tool = "filecrypt" /\ Goto(p, "late")
    <3>1. pc'[p] = "late" /\ result'[p] = "none"
      BY <2>5, <1>1 DEF Goto, TypeOK
    <3> QED
      BY <3>1, <2>5, <1>2 DEF Answers
  <2>6. CASE ~Tells /\ tool # "filecrypt" /\ Leave(p, "publish")
    BY <2>2, <2>6
  <2> QED
    BY <1>4, <2>3, <2>4, <2>5, <2>6 DEF Unlink
<1>5. CASE Confirm(p)
  <2>1. pc[p] = "confirm" /\ tool = "filecrypt" /\ ~Tells /\ dirDisk' = dirDisk
    BY <1>1, <1>5 DEF Confirm, Starts, Tells
  <2>2. pc'[p] = "done" /\ result'[p] \in {IF dir[Dest] = p THEN "ok" ELSE "mismatch", "unseen"}
    BY <1>5, <2>1, <1>f DEF Confirm
  <2> QED
    BY <2>1, <2>2, <1>1, <1>2 DEF Answers, Landed
<1>6. CASE SyncDirectory(p)
  <2>1. /\ pc[p] = "dirsync" /\ tool # "filecrypt" /\ dir' = dir /\ pc'[p] = "done"
        /\ \/ dirDisk' = dir /\ result'[p] = "ok"
           \/ result'[p] \in {"uncertain", "unsynced"}
    BY <1>1, <1>6 DEF SyncDirectory, Starts, Answer, TypeOK
  <2> QED
    BY <2>1, <1>1, <1>2 DEF Answers
<1>7. CASE Kill(p)
  <2>1. pc'[p] = "done" /\ result'[p] = "killed"
    BY <1>7 DEF Kill, Answer, TypeOK
  <2> QED
    BY <2>1 DEF Answers
<1> QED
  BY <1>3, <1>4, <1>5, <1>6, <1>7
  DEF Act, Stage, Commit, Begin, Open, LookForTarget, Create, CreateFails, ReadHeader, Verify,
      ReadFirst, ReadRest, ReadCancelled, Write, CheckSignal, CompareInput, SyncStage,
      CheckIdentity, StepFails, Publish, PublishRefused, PublishLate

LEMMA OtherAnswers ==
    ASSUME TypeOK, Shape, AllAnswers, NEW p \in Proc, Move(p), Apart(p), NEW q \in Proc, q # p
    PROVE  Answers(q)'
<1>1. /\ pc'[q] = pc[q] /\ result'[q] = result[q] /\ dir'[q] = dir[q]
      /\ UNCHANGED <<tool, removed, lost>> /\ Tells' = Tells
  BY DEF Apart, Move, world, place, Tells
<1>2. Answers(q) /\ Landed(q) /\ dir[p] # q
  BY Basics DEF AllAnswers, Shape, Temporary
<1>3. /\ dir'[Dest] = q => dir[Dest] = q
      /\ dir[Dest] = q => dir'[Dest] = q
      /\ dirDisk'[Dest] = q => dirDisk[Dest] = q \/ dir'[Dest] = q
      /\ dirDisk[Dest] = q => dirDisk'[Dest] = q \/ q \in removed
      /\ dir[Dest] = q /\ dirDisk[Dest] = q => dirDisk'[Dest] = q
  BY <1>2, Basics DEF Move, Source, Landed
<1> QED
  BY <1>1, <1>2, <1>3 DEF Answers

LEMMA OutsideAnswers ==
    ASSUME TypeOK, Shape, AllAnswers, OnlyFilecrypt,
           \/ \E l, t, g : EditInput(l, t, g)
           \/ Meddle \/ WriteBack \/ PowerLoss \/ (\E p \in Proc : Signal(p)),
           NEW q \in Proc
    PROVE  Answers(q)'
<1> USE Basics DEF TypeOK, files, jobs, world, place, Happens
<1>1. Answers(q) /\ Landed(q) /\ (q \in Proc) /\ tool' = tool /\ Tells' = Tells
  BY DEF AllAnswers, Shape, EditInput, Meddle, WriteBack, PowerLoss, Signal, Tells
<1>2. CASE (\E l, t, g : EditInput(l, t, g)) \/ (\E p \in Proc : Signal(p))
  <2>1. UNCHANGED <<dir, dirDisk, pc, result, removed, lost>>
    BY <1>2 DEF EditInput, Signal
  <2> QED
    BY <2>1, <1>1 DEF Answers
<1>3. CASE Meddle
  <2>1. /\ UNCHANGED <<dirDisk, pc, result, lost>> /\ removed \subseteq removed'
        /\ dir'[Dest] = q => dir[Dest] = q
        /\ dir[Dest] = q => dir'[Dest] = q \/ q \in removed'
        /\ dir'[q] = dir[q] \/ tool = "filecrypt"
    BY <1>3 DEF Meddle, OnlyFilecrypt
  <2> QED
    BY <2>1, <1>1 DEF Answers, Tells
<1>4. CASE WriteBack
  <2>1. UNCHANGED <<dir, pc, result, removed, lost>> /\ dirDisk' = dir
    BY <1>4 DEF WriteBack
  <2> QED
    BY <2>1, <1>1 DEF Answers, Landed
<1>5. CASE PowerLoss
  <2>1. /\ UNCHANGED <<dirDisk, removed>> /\ dir' = dirDisk /\ lost'
        /\ pc'[q] \in {"idle", "done"} /\ result'[q] \in {result[q], "killed"}
    BY <1>5 DEF PowerLoss, Running
  <2> QED
    BY <2>1, <1>1 DEF Answers, Landed
<1> QED
  BY <1>2, <1>3, <1>4, <1>5

LEMMA AnswerSteps ==
    OnlyFilecrypt /\ IInv /\ AllAnswers /\ [Next]_vars => AllAnswers'
<1> SUFFICES ASSUME OnlyFilecrypt, IInv, AllAnswers, [Next]_vars, NEW q \in Proc
             PROVE  Answers(q)'
  BY DEF AllAnswers
<1> USE DEF IInv
<1>1. ASSUME NEW p \in Proc, Act(p) PROVE Answers(q)'
  <2>1. CASE q # p
    BY <1>1, <2>1, Moves, OthersApart, OtherAnswers
  <2>2. CASE q = p /\ (Publish(p) \/ PublishLate(p))
    BY <2>2, PublishAnswers
  <2>3. CASE q = p /\ pc[p] \in Installed
    BY <1>1, <2>3, InstalledAnswers
  <2>4. CASE q = p /\ pc[p] \notin Installed /\ ~ Publish(p) /\ ~ PublishLate(p)
    BY <1>1, <2>4, EarlyAnswers
  <2> QED
    BY <2>1, <2>2, <2>3, <2>4
<1>2. CASE Environment
  <2>1. CASE \E p \in Proc : Kill(p)
    BY <2>1, <1>1 DEF Act
  <2>2. CASE ~ \E p \in Proc : Kill(p)
    BY <1>2, <2>2, OutsideAnswers DEF Environment
  <2> QED
    BY <2>1, <2>2
<1>3. CASE UNCHANGED vars
  BY <1>3 DEF vars, AllAnswers, Answers, Tells
<1> QED
  BY <1>1, <1>2, <1>3 DEF Next, Act

\* Every answer of the ten tools is true, whatever else happens to the
\* destination, the input and the machine, as long as only filecrypt's
\* moves may take effect and fail, and only its temporary names be taken over.
\* An error that filecrypt reports without having been able to look at the
\* destination after its move is not among them ("unseen").
THEOREM AnswersHold == OnlyFilecrypt /\ Spec => []Inv
<1> SUFFICES ASSUME OnlyFilecrypt PROVE Spec => []Inv
  OBVIOUS
<1>1. Init => AllAnswers
  BY DEF Init, AllAnswers, Answers
<1>2. IInv /\ AllAnswers /\ [Next]_vars => AllAnswers'
  BY AnswerSteps
<1>3. IInv /\ AllAnswers => Inv
  <2> SUFFICES ASSUME IInv, AllAnswers PROVE Inv
    OBVIOUS
  <2>1. AnswersAreTrue /\ SuccessIsDurable /\ LeftoverIsReported
    BY DEF AllAnswers, Answers, AnswersAreTrue, SuccessIsDurable, LeftoverIsReported
  <2> QED
    BY <2>1 DEF Inv, IInv
<1> QED
  BY <1>1, <1>2, <1>3, Invariance, PTL DEF Spec

-----------------------------------------------------------------------------
(* Every tool keeps the promise of OutputPromise.                          *)

\* An output that somebody removed was published by a call that does not have
\* the name any more, unless a power failure gives it back after the call.
Gone == \A p \in removed : pc[p] \in Landing /\ (Running(p) => dir[Dest] # p)

LEMMA GoneSteps == IInv /\ Gone /\ [Next]_vars => Gone'
<1> SUFFICES ASSUME IInv, Gone, [Next]_vars, NEW p \in removed'
             PROVE  pc'[p] \in Landing /\ (Running(p)' => dir'[Dest] # p)
  BY DEF Gone
<1> USE Basics DEF IInv, TypeOK, Running, Happens, files, jobs, world, place
<1>1. ASSUME NEW q \in Proc, Act(q) PROVE pc'[p] \in Landing /\ (Running(p)' => dir'[Dest] # p)
  <2>1. Move(q) /\ Looks(q) /\ Apart(q)
    BY <1>1, Moves, OthersApart
  <2>2. p \in removed /\ p \in Proc /\ pc[p] \in Landing /\ (Running(p) => dir[Dest] # p)
    BY <2>1 DEF Move, Gone
  <2>3. CASE p = q
    <3>1. pc[p] # "idle" /\ pc[p] \in {"late", "unlink", "confirm", "dirsync"} /\ Running(p)
      BY <2>1, <2>2, <2>3 DEF Looks, Landing
    <3>2. dir'[Dest] = dir[Dest]
      BY <2>1, <2>3, <3>1 DEF Move
    <3>3. pc'[p] \in Landing
      BY <2>1, <2>3, <3>1 DEF Looks, Goes, Landing
    <3> QED
      BY <2>2, <3>1, <3>2, <3>3
  <2>4. CASE p # q
    <3>1. pc'[p] = pc[p]
      BY <2>1, <2>2, <2>4 DEF Apart
    <3>2. Temporary(q)
      BY DEF Shape
    <3>3. dir[q] # p /\ p # None
      BY <2>2, <2>4, <3>2 DEF Temporary
    <3>4. dir'[Dest] = p => dir[Dest] = p
      BY <2>1, <2>2, <2>4, <3>3 DEF Move, Source
    <3> QED
      BY <2>2, <3>1, <3>4
  <2> QED
    BY <2>3, <2>4
<1>2. CASE Meddle
  <2>1. pc' = pc /\ removed \subseteq removed'
    BY <1>2 DEF Meddle
  <2>2. CASE p \in removed
    <3>1. dir'[Dest] = p => dir[Dest] = p
      BY <1>2, <2>2 DEF Meddle
    <3> QED
      BY <2>1, <2>2, <3>1 DEF Gone
  <2>3. CASE p \notin removed
    <3>1. p \in Proc /\ dir[Dest] = p /\ dir'[Dest] # p
      BY <1>2, <2>3 DEF Meddle
    <3> QED
      BY <2>1, <3>1 DEF Shape, Landed
  <2> QED
    BY <2>2, <2>3
<1>3. CASE PowerLoss
  BY <1>3 DEF PowerLoss, Gone, Landing
<1>4. CASE (\E l, t, g : EditInput(l, t, g)) \/ WriteBack \/ (\E q \in Proc : Signal(q)) \/ UNCHANGED vars
  BY <1>4 DEF EditInput, WriteBack, Signal, Gone, vars
<1> QED
  BY <1>1, <1>2, <1>3, <1>4 DEF Next, Environment, Act

\* A step of a call changes the status of no other call.
LEMMA StatusApart ==
    ASSUME TypeOK, Shape, NEW p \in Proc, Move(p), Apart(p)
    PROVE  \A q \in Proc : q # p => Status(q)' = Status(q)
<1>1. ASSUME NEW q \in Proc, q # p PROVE Status(q)' = Status(q)
  <2>1. /\ pc'[q] = pc[q] /\ result'[q] = result[q] /\ removed' = removed /\ tool' = tool
        /\ dir[p] # q
    BY <1>1, Basics DEF Apart, Move, world, place, Shape, Temporary
  <2>2. dir'[Dest] = q <=> dir[Dest] = q
    BY <1>1, <2>1, Basics DEF Move, Source
  <2> QED
    BY <2>1, <2>2 DEF Status, Says
<1> QED
  BY <1>1

LEMMA Becomes ==
    ASSUME TypeOK, Shape, NEW p \in Proc, Move(p), Apart(p)
    PROVE  [q \in Proc |-> Status(q)]' = [[q \in Proc |-> Status(q)] EXCEPT ![p] = Status(p)']
<1>1. \A q \in Proc : q # p => Status(q)' = Status(q)
  BY StatusApart
<1> QED
  BY <1>1

LEMMA Remains ==
    ASSUME TypeOK, Shape, NEW p \in Proc, Move(p), Apart(p), Status(p)' = Status(p)
    PROVE  [q \in Proc |-> Status(q)]' = [q \in Proc |-> Status(q)]
<1>1. \A q \in Proc : Status(q)' = Status(q)
  BY StatusApart
<1> QED
  BY <1>1

\* A step that does nothing but possibly write the name back.
LEMMA QuietPromise ==
    ASSUME dir'[Dest] = dir[Dest], events' = events, dirDisk'[Dest] \in {dirDisk[Dest], dir[Dest]},
           [q \in Proc |-> Status(q)]' = [q \in Proc |-> Status(q)]
    PROVE  O!Next \/ UNCHANGED O!vars
BY DEF O!Next, O!Settle, O!vars

\* A call that is working: it goes on, stops or is killed.
LEMMA WorkingPromise ==
    ASSUME TypeOK, Shape, NEW p \in Proc, Act(p), pc[p] \notin Installed,
           ~ Publish(p), ~ PublishLate(p)
    PROVE  O!Next \/ UNCHANGED O!vars
<1> USE Basics DEF TypeOK, Installed
<1>1. Move(p) /\ Looks(p) /\ Apart(p)
  BY Moves, OthersApart
<1>2. /\ dir'[Dest] = dir[Dest] /\ events' = events /\ dirDisk'[Dest] \in {dirDisk[Dest], dir[Dest]}
  BY <1>1, StopsEarly DEF Move, world
<1>3. CASE pc[p] = "idle"
  <2>1. PICK o \in {"encrypt", "decrypt", "make"} : Begin(p, o)
    BY <1>3 DEF Act, Stage, Commit, Kill, Running, Open, LookForTarget, Create, CreateFails,
        ReadHeader, Verify, ReadFirst, ReadRest, ReadCancelled, Write, CheckSignal, CompareInput,
        SyncStage, CheckIdentity, StepFails, Step, PublishRefused, DecideLate, Unlink, Confirm,
        SyncDirectory
  <2>2. pc'[p] \in Step /\ pc'[p] \notin Installed
    BY <1>1, <1>3, <2>1, StopsEarly, Table, StagedAssumption DEF Begin, Starts, Goto, Step
  <2>3. Status(p) = "idle" /\ Status(p)' = "working" /\ dirDisk' = dirDisk
    BY <1>3, <2>1, <2>2 DEF Status, Begin, files, Step
  <2>4. O!Ask(p)
    BY <1>1, <1>2, <2>3, Becomes DEF O!Ask, O!Become
  <2> QED
    BY <2>4 DEF O!Next
<1>4. CASE pc[p] # "idle"
  <2>1. Status(p) = "working"
    BY <1>1, <1>4 DEF Status, Looks
  <2>2. CASE pc'[p] = "done"
    <3>1. Status(p)' \in {"failed", "killed"}
      BY <2>2, StopsEarly DEF Status, Says
    <3>2. O!Answer(p)
      BY <1>1, <1>2, <2>1, <3>1, Becomes DEF O!Answer, O!Become, O!Going
    <3> QED
      BY <3>2 DEF O!Next
  <2>3. CASE pc'[p] # "done"
    <3>1. op'[p] = op[p] /\ op[p] \in Offers(tool) /\ tool \in AllTools
      BY <1>1, <1>4, StagedAssumption DEF Looks, Shape, Control
    <3>4. Starts(tool, op[p])
      BY <3>1, Table
    <3>5. pc'[p] # "idle"
      BY <1>1, <2>3, <3>1, <3>4 DEF Looks, Starts, Step
    <3>2. pc'[p] # "idle" /\ pc'[p] \notin Installed
      BY <3>5, StopsEarly
    <3>3. Status(p)' = Status(p)
      BY <2>1, <2>3, <3>2 DEF Status
    <3>6. [q \in Proc |-> Status(q)]' = [q \in Proc |-> Status(q)]
      BY <1>1, <3>3, Remains
    <3> QED
      BY <1>2, <3>6, QuietPromise
  <2> QED
    BY <2>2, <2>3
<1> QED
  BY <1>3, <1>4

\* The one step in which the name changes hands.
LEMMA PublishPromise ==
    ASSUME TypeOK, Shape, Gone, OnlyFilecrypt, NEW p \in Proc, Publish(p) \/ PublishLate(p)
    PROVE  O!Next
<1> USE Basics DEF TypeOK, Installed
<1>1. /\ Act(p) /\ Move(p) /\ Looks(p) /\ Apart(p)
  BY Moves, OthersApart DEF Act, Commit
<1>2. /\ pc[p] = "publish" /\ dir[Dest] = None /\ dir'[Dest] = Source(p) /\ Source(p) # None
      /\ events' = events /\ removed' = removed /\ tool' = tool
      /\ dirDisk'[Dest] \in {dirDisk[Dest], dir'[Dest]}
  BY <1>1 DEF Publish, PublishLate, Install, Vacant, Move, world, place
<1>3. Status(p) = "working" /\ p \notin removed
  BY <1>2 DEF Status, Gone, Landing
<1>4. Source(p) = p \/ (Source(p) = Other /\ tool = "filecrypt")
  BY <1>2, StagedAssumption DEF Source, Shape, Temporary, OnlyFilecrypt
<1>5. \/ pc'[p] \in Installed
      \/ pc'[p] = "done" /\ result'[p] = "ok" /\ tool \in {"algos", "tf1024"}
  <2>1. CASE Publish(p) /\ ~Linked(p)
    <3>1. /\ op[p] \in Offers(tool) /\ "publish" \in StepsOf(tool, op[p])
      BY <1>2 DEF Shape, Control
    <3>2. PICK n \in Step \cup {"done"} : /\ Goes(tool, op[p], "publish", n)
                                          /\ n = "done" => Answer(p, "ok")
                                          /\ n # "done" => Goto(p, n)
      BY <2>1, <3>1, Leaves, <1>2 DEF Publish, Published, Advance
    <3> QED
      BY <3>2 DEF Goes, Goto, Answer
  <2>2. CASE Publish(p) /\ Linked(p)
    BY <2>2 DEF Publish, Published, Goto
  <2>3. CASE PublishLate(p)
    BY <2>3 DEF PublishLate, Goto
  <2> QED
    BY <2>1, <2>2, <2>3
<1>6. \/ dir'[Dest] = p /\ Status(p)' \in {"published", "there"}
      \/ dir'[Dest] = Other /\ Status(p)' = "displaced"
  BY <1>2, <1>3, <1>4, <1>5 DEF Status, Says
<1>7. O!Publish(p)
  BY <1>1, <1>2, <1>3, <1>6, Becomes DEF O!Publish, O!Become
<1> QED
  BY <1>7 DEF O!Next

\* A call past its publication: it goes on or answers.
LEMMA InstalledPromise ==
    ASSUME TypeOK, Shape, AllAnswers, Gone, OnlyFilecrypt, NEW p \in Proc, Act(p), pc[p] \in Installed
    PROVE  O!Next \/ UNCHANGED O!vars
<1> USE Basics DEF TypeOK, Installed
<1>1. /\ Move(p) /\ Looks(p) /\ Apart(p) /\ Answers(p) /\ result[p] = "none"
      /\ op[p] \in Offers(tool) /\ "publish" \in StepsOf(tool, op[p]) /\ Starts(tool, op[p])
      /\ pc[p] \in {"confirm", "dirsync"} => pc[p] \in StepsOf(tool, op[p])
  BY Moves, OthersApart, StagedAssumption, Table DEF Shape, Control, AllAnswers, Starts
<1>2. /\ dir'[Dest] = dir[Dest] /\ events' = events /\ removed' = removed /\ tool' = tool
      /\ dirDisk'[Dest] \in {dirDisk[Dest], dir[Dest]}
  BY <1>1 DEF Move, world, place
<1>3. Status(p) = IF dir[Dest] = p \/ p \in removed THEN "published" ELSE "displaced"
  BY DEF Status
<1>4. tool # "filecrypt" => Status(p) = "published"
  BY <1>1, <1>3 DEF Answers
<1>7. ASSUME \/ Status(p)' = "killed"
             \/ Status(p)' = "failed" /\ dir[Dest] # p
             \/ Status(p)' = "unclear"
             \/ Status(p)' = "there" /\ Status(p) = "published"
             \/ Status(p)' = "durable" /\ Status(p) = "published" /\ dirDisk'[Dest] = dir[Dest]
      PROVE  O!Next
  <2>1. O!Answer(p)
    BY <1>1, <1>2, <1>3, <1>7, Becomes DEF O!Answer, O!Become, O!Going
  <2> QED
    BY <2>1 DEF O!Next
<1>8. ASSUME pc'[p] \in Installed PROVE O!Next \/ UNCHANGED O!vars
  <2>1. Status(p)' = Status(p)
    BY <1>2, <1>3, <1>8 DEF Status
  <2>2. [q \in Proc |-> Status(q)]' = [q \in Proc |-> Status(q)]
    BY <1>1, <2>1, Remains
  <2> QED
    BY <1>2, <2>2, QuietPromise
<1>f. ASSUME NEW r, Abandon(p, r)
      PROVE  pc'[p] = "done" /\ result'[p] \in {r, IF Tells THEN "leftover" ELSE r}
  BY <1>f DEF Abandon, Answer
\* An error of a call that could not look at the destination.
<1>u. ASSUME Abandon(p, "unseen"), ~Tells PROVE O!Next
  <2>1. pc'[p] = "done" /\ result'[p] = "unseen"
    BY <1>u, <1>f
  <2> QED
    BY <2>1, <1>7 DEF Status, Says
<1>9. CASE DecideLate(p)
  <2>1. pc[p] = "late" /\ tool = "filecrypt" /\ ~Tells
    BY <1>1, <1>9 DEF DecideLate, Answers, Tells
  <2>4. CASE Abandon(p, "unseen")
    BY <2>1, <2>4, <1>u
  <2>2. CASE dir[Dest] = p /\ Abandon(p, "uncertain")
    <3>1. pc'[p] = "done" /\ result'[p] = "uncertain"
      BY <2>1, <2>2, <1>f
    <3> QED
      BY <2>2, <3>1, <1>3, <1>7 DEF Status, Says
  <2>3. CASE dir[Dest] # p /\ Fail(p)
    <3>1. pc'[p] = "done" /\ result'[p] = "error"
      BY <2>1, <2>3, <1>f DEF Fail
    <3> QED
      BY <2>3, <3>1, <1>7 DEF Status, Says
  <2> QED
    BY <1>9, <2>1, <2>2, <2>3, <2>4 DEF DecideLate
<1>10. CASE Unlink(p)
  <2>1. ASSUME Leave(p, "publish") PROVE O!Next \/ UNCHANGED O!vars
    <3>1. PICK n \in Step \cup {"done"} : /\ Goes(tool, op[p], "publish", n)
                                          /\ n = "done" => Answer(p, "ok")
                                          /\ n # "done" => Goto(p, n)
      BY <1>1, <2>1, Leaves
    <3>2. n = IF tool = "filecrypt" THEN "confirm"
              ELSE IF tool \in {"algos", "tf1024"} THEN "done" ELSE "dirsync"
      BY <3>1 DEF Goes
    <3>3. CASE n # "done"
      BY <3>1, <3>2, <3>3, <1>8 DEF Goto
    <3>4. CASE n = "done"
      <4>1. Status(p)' = "there" /\ tool # "filecrypt"
        BY <3>1, <3>2, <3>4, <1>2 DEF Status, Says, Answer
      <4> QED
        BY <4>1, <1>4, <1>7
    <3> QED
      BY <3>3, <3>4
  <2>2. CASE Tells /\ Answer(p, "installed_leftover")
    <3>1. Status(p)' = "there" /\ tool # "filecrypt"
      BY <2>2 DEF Status, Says, Answer, Tells
    <3> QED
      BY <3>1, <1>4, <1>7
  <2>3. CASE Goto(p, "late")
    BY <2>3, <1>8 DEF Goto
  <2> QED
    BY <1>10, <2>1, <2>2, <2>3 DEF Unlink
<1>11. CASE Confirm(p)
  <2>1. pc[p] = "confirm" /\ tool = "filecrypt" /\ ~Tells /\ dirDisk' = dirDisk
    BY <1>1, <1>11 DEF Confirm, Starts, Tells
  <2>4. CASE Abandon(p, "unseen")
    BY <2>1, <2>4, <1>u
  <2>2. CASE dir[Dest] = p /\ Abandon(p, "ok")
    <3>1. pc'[p] = "done" /\ result'[p] = "ok"
      BY <2>1, <2>2, <1>f
    <3>2. dirDisk'[Dest] = dir[Dest]
      BY <2>1, <2>2, <1>1 DEF Answers
    <3> QED
      BY <2>1, <2>2, <3>1, <3>2, <1>2, <1>3, <1>7 DEF Status, Says
  <2>3. CASE dir[Dest] # p /\ Abandon(p, "mismatch")
    <3>1. pc'[p] = "done" /\ result'[p] = "mismatch"
      BY <2>1, <2>3, <1>f
    <3> QED
      BY <2>3, <3>1, <1>7 DEF Status, Says
  <2> QED
    BY <1>11, <2>2, <2>3, <2>4 DEF Confirm
<1>12. CASE SyncDirectory(p)
  <2>1. /\ pc[p] = "dirsync" /\ tool # "filecrypt" /\ pc'[p] = "done"
        /\ \/ dirDisk' = dir /\ result'[p] = "ok"
           \/ result'[p] \in {"uncertain", "unsynced"}
    BY <1>1, <1>12 DEF SyncDirectory, Starts, Answer
  <2>2. Status(p)' \in {"there", "durable"} /\ (Status(p)' = "durable" => dirDisk'[Dest] = dir[Dest])
    BY <2>1, <1>2 DEF Status, Says
  <2> QED
    BY <2>1, <2>2, <1>4, <1>7
<1>13. CASE Kill(p)
  <2>1. Status(p)' = "killed"
    BY <1>13 DEF Kill, Answer, Status, Says
  <2> QED
    BY <2>1, <1>7
<1> QED
  BY <1>9, <1>10, <1>11, <1>12, <1>13
  DEF Act, Stage, Commit, Begin, Open, LookForTarget, Create, CreateFails, ReadHeader, Verify,
      ReadFirst, ReadRest, ReadCancelled, Write, CheckSignal, CompareInput, SyncStage,
      CheckIdentity, StepFails, Publish, PublishRefused, PublishLate

\* The surroundings.
LEMMA OutsidePromise ==
    ASSUME TypeOK, Shape, Gone,
           \/ \E l, t, g : EditInput(l, t, g)
           \/ Meddle \/ WriteBack \/ PowerLoss \/ (\E p \in Proc : Signal(p))
    PROVE  O!Next
<1> USE Basics DEF TypeOK, files, jobs, world, place, Happens
<1>1. CASE (\E l, t, g : EditInput(l, t, g)) \/ (\E p \in Proc : Signal(p))
  <2>1. UNCHANGED <<dir, dirDisk, pc, result, removed, tool>> /\ events' = events + 1
    BY <1>1 DEF EditInput, Signal
  <2>2. O!Disturb
    BY <2>1 DEF O!Disturb, Status, Says
  <2> QED
    BY <2>2 DEF O!Next
<1>2. CASE Meddle
  <2>1. /\ UNCHANGED <<dirDisk, pc, result, tool>> /\ events' = events + 1
        /\ dir'[Dest] \in {dir[Dest], IF dir[Dest] = None THEN Other ELSE None}
    BY <1>2 DEF Meddle
  <2>2. ASSUME NEW q \in Proc
        PROVE  (dir'[Dest] = q \/ q \in removed') <=> (dir[Dest] = q \/ q \in removed)
    BY <1>2 DEF Meddle
  <2>3. [q \in Proc |-> Status(q)]' = [q \in Proc |-> Status(q)]
    BY <2>1, <2>2 DEF Status, Says
  <2>4. O!Disturb
    BY <2>1, <2>3 DEF O!Disturb
  <2> QED
    BY <2>4 DEF O!Next
<1>3. CASE WriteBack
  <2>1. O!Settle
    BY <1>3 DEF WriteBack, O!Settle, Status, Says
  <2> QED
    BY <2>1 DEF O!Next
<1>4. CASE PowerLoss
  <2>1. UNCHANGED <<dirDisk, removed, tool>> /\ events' = events + 1 /\ dir' = dirDisk
    BY <1>4 DEF PowerLoss
  <2>2. ASSUME NEW q \in Proc
        PROVE  Status(q)' = IF Status(q) \in O!Going THEN "killed" ELSE Status(q)
    <3>1. CASE Running(q)
      <4>1. pc'[q] = "done" /\ result'[q] = "killed"
        BY <1>4, <3>1 DEF PowerLoss
      <4> QED
        BY <3>1, <4>1 DEF Running, Status, Says, O!Going
    <3>2. CASE ~Running(q)
      <4>1. pc'[q] = pc[q] /\ result'[q] = result[q]
        BY <1>4, <3>2 DEF PowerLoss
      <4> QED
        BY <2>1, <3>2, <4>1 DEF Running, Status, Says, O!Going
    <3> QED
      BY <3>1, <3>2
  <2>3. [q \in Proc |-> Status(q)]' =
            [q \in Proc |-> IF [r \in Proc |-> Status(r)][q] \in O!Going
                            THEN "killed" ELSE [r \in Proc |-> Status(r)][q]]
    BY <2>2
  <2>4. O!Lose
    BY <2>1, <2>3 DEF O!Lose
  <2> QED
    BY <2>4 DEF O!Next
<1> QED
  BY <1>1, <1>2, <1>3, <1>4

LEMMA PromiseSteps ==
    OnlyFilecrypt /\ IInv /\ AllAnswers /\ Gone /\ [Next]_vars => [O!Next]_(O!vars)
<1> SUFFICES ASSUME OnlyFilecrypt, IInv, AllAnswers, Gone, [Next]_vars
             PROVE  O!Next \/ UNCHANGED O!vars
  OBVIOUS
<1> USE DEF IInv
<1>1. ASSUME NEW p \in Proc, Act(p) PROVE O!Next \/ UNCHANGED O!vars
  BY <1>1, WorkingPromise, PublishPromise, InstalledPromise
<1>2. CASE Environment
  BY <1>1, <1>2, OutsidePromise DEF Environment, Act
<1>3. CASE UNCHANGED vars
  BY <1>3 DEF vars, O!vars, Status, Says
<1> QED
  BY <1>1, <1>2, <1>3 DEF Next, Act

\* However many steps a tool takes, its callers see one: the output appears,
\* whole, where nothing was, and an answer says what the name and the disk then
\* hold, unless filecrypt could not look at the name after its move.
THEOREM ImplementsPromise == OnlyFilecrypt /\ Spec => KeepsThePromise
<1> SUFFICES ASSUME OnlyFilecrypt PROVE Spec => KeepsThePromise
  OBVIOUS
<1>1. Init => AllAnswers /\ Gone
  BY DEF Init, AllAnswers, Answers, Gone
<1>2. Init => O!Init
  BY Basics DEF Init, O!Init, Status, Says, Dest
<1>3. IInv /\ AllAnswers /\ [Next]_vars => AllAnswers'
  BY AnswerSteps
<1> QED
  BY <1>1, <1>2, <1>3, GoneSteps, PromiseSteps, Invariance, PTL DEF Spec, KeepsThePromise, O!Spec
=============================================================================

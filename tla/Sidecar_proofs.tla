---------------------------- MODULE Sidecar_proofs ----------------------------
(* Proofs about Sidecar, for any number of calls, changes by others, damages *)
(* and power failures.                                                       *)
EXTENDS Sidecar, FiniteSetTheorems, TLAPS

StepsOf(o) == {Order(o)[i] : i \in DOMAIN Order(o)}

\* Steps of a call that has renamed, or has tried to.
Late == {"source", "kept", "gone", "dirsync", "dirsync_warned", "done"}
\* Steps behind the last recheck of the file, of the key, and behind the stage.
Rechecked == {"tempname", "destname", "rename"} \cup (Late \ {"done"})
Written == {"validate", "lastfile", "lastkey"} \cup Rechecked
Added == 1..MaxLoad     \* the inodes that others make

\* A call takes its command's steps and answers when it is done.
Control(p) ==
    /\ pc[p] # "idle" => op[p] \in Ops
    /\ pc[p] \notin (Late \ {"dirsync"}) \cup {"idle"} => pc[p] \in StepsOf(op[p])
    /\ pc[p] \in Late \ {"done"} => op[p] # "verify"
    /\ result[p] # "none" => pc[p] = "done"
    /\ landed[p] => pc[p] \in Late /\ op[p] # "verify"

-----------------------------------------------------------------------------
(* Inodes.                                                                 *)

\* An inode that has or had the name of a payload, a key or a sidecar: an
\* output that has landed, or one of somebody else's.
Kept(i) ==
    /\ i \in Proc => landed[i] /\ i \in synced
    /\ i \in Added  => i <= events
\* No running call has it under its temporary name.
Settled(i) == Kept(i) /\ \A q \in Proc : Running(q) => dir[q] # i

\* Under the three names are settled inodes; on disk, kept ones.
Names ==
    \A n \in Place : /\ dir[n] # None => Settled(dir[n])
                     /\ dirDisk[n] # None => Kept(dirDisk[n])

\* Temporary names.
Temporary(p) ==
    /\ dir[p] \in {p, None} \cup Added /\ dirDisk[p] \in {p, None} \cup Added
    /\ dir[p] \in Added \/ dirDisk[p] \in Added => p \in touched
    /\ dir[p] \in Added => dir[p] <= events
    /\ dirDisk[p] \in Added => dirDisk[p] <= events
    /\ pc[p] = "idle" => dir[p] = None /\ dirDisk[p] = None
    /\ Running(p) /\ landed[p] => dir[p] = None
    /\ \A q \in Proc : q # p /\ dir[q] = dir[p] => dir[p] = None
    /\ \A q \in Proc : q # p /\ dirDisk[q] = dirDisk[p] => dirDisk[p] = None
    /\ pc[p] \in Written => p \in synced
    /\ landed[p] => p \in synced

Stamps == \A i \in Inode : stamp[i] <= events

-----------------------------------------------------------------------------
(* What a call has seen.                                                   *)

\* What it knows of an inode is true as long as the stamp is.
Known(p, r) ==
    seen[p][r].inode # None =>
        /\ Settled(seen[p][r].inode)
        /\ seen[p][r].stamp <= stamp[seen[p][r].inode]
        /\ seen[p][r].stamp = stamp[seen[p][r].inode]
              => content[seen[p][r].inode] = seen[p][r].content

\* What it has opened by each step, and read of the payload.
Opened(p) ==
    /\ op[p] # "keygen" /\ pc[p] # "file" => seen[p]["file"].inode # None
    /\ op[p] # "keygen" /\ pc[p] \notin {"file", "sidecar", "key"}
          => seen[p]["key"].inode # None /\ seen[p]["key"].content.kind = "key"
    /\ op[p] = "verify" /\ pc[p] \notin {"file", "sidecar"} => seen[p]["sidecar"].inode # None

Unread == {"file", "sidecar", "key", "inspect", "parse", "create", "read1"}
Looking == {"read2", "lookfile", "looktag", "lookkey", "stage", "validate", "lastfile"}
Reads(p) ==
    /\ pc[p] \in Unread => parts[p] = <<>>
    /\ pc[p] = "read2" => Len(parts[p]) = 1
    /\ op[p] # "keygen" /\ pc[p] \notin Unread \cup {"read2"} => Len(parts[p]) = 2
    /\ op[p] # "keygen" /\ pc[p] \in Looking
       /\ seen[p]["file"].stamp = stamp[seen[p]["file"].inode] =>
          \A i \in DOMAIN parts[p] : parts[p][i] = Bytes(seen[p]["file"].inode)
    /\ op[p] # "keygen" /\ pc[p] \notin Unread \cup {"read2", "lookfile"}
          => parts[p][1] = parts[p][2]

\* What the three names said when the file was looked at again.
Matches(p) == seen[p]["sidecar"].content = TagFor(parts[p][1], seen[p]["key"].content.key)
Moment(p) ==
    /\ pc[p] = "looktag" /\ Unchanged(p, "sidecar") /\ Unchanged(p, "key") =>
          (agreed[p] <=> Matches(p))
    /\ pc[p] = "lookkey" /\ op[p] = "verify" /\ Unchanged(p, "key") =>
          (agreed[p] <=> Matches(p))
    /\ pc[p] = "lastkey" /\ Unchanged(p, "key") => agreed[p]
    /\ op[p] # "keygen" /\ pc[p] \in Rechecked => agreed[p]
    /\ op[p] # "keygen" /\ landed[p] => agreed[p]
    /\ result[p] = "verified" => agreed[p]
    /\ result[p] = "failed" => ~agreed[p]

Views(p) ==
    /\ pc[p] = "idle" => parts[p] = <<>> /\ \A r \in Role : seen[p][r].inode = None
    /\ Running(p) => (\A r \in Role : Known(p, r)) /\ Opened(p) /\ Reads(p)

-----------------------------------------------------------------------------
(* The destination.                                                        *)

Target(p) ==
    /\ expected[p] # None => op[p] = "replace"
    /\ Running(p) /\ expected[p] # None => Settled(expected[p])
    /\ pc[p] \in {"idle", "file", "key", "inspect"} => expected[p] = None
    /\ pc[p] = "create" /\ expected[p] # None =>
          /\ path[p] = File => ~ Unchanged(p, "file")
          /\ path[p] = Key => ~ Unchanged(p, "key")
    /\ pc[p] \notin {"idle", "file", "key", "inspect", "create", "done"} /\ expected[p] # None
          => path[p] = Tag
    /\ pc[p] = "rename" /\ expected[p] # None /\ ~missed[p] => dir[Destination(p)] = expected[p]

-----------------------------------------------------------------------------
(* The output.                                                             *)

KindOf(p) == IF op[p] = "keygen" THEN "key" ELSE "tag"
Vouches(p) ==
    \/ landed[p] \/ pc[p] \in {"lastfile", "lastkey"} \cup Rechecked
    \/ pc[p] = "validate" /\ op[p] = "keygen"
Bytewise(p) == Vouches(p) /\ stamp[p] = 0 => content[p].kind = KindOf(p)

\* Calls that have renamed.
Landed(p) ==
    /\ pc[p] = "kept" => ~landed[p]
    /\ pc[p] \in {"dirsync", "dirsync_warned"} => landed[p] \/ p \in touched
    /\ result[p] = "error" => ~landed[p]
    /\ result[p] \in {"committed", "uncertain"} => landed[p] \/ p \in touched

Heirs(p) == {p} \cup {q \in Proc : op[q] = "replace" /\ landed[q]}
Durable(p) ==
    touched \cap (Proc \cup {Destination(p)}) = {} =>
        /\ pc[p] = "dirsync" \/ result[p] = "committed" => dir[Destination(p)] \in Heirs(p)
        /\ result[p] = "committed" => dirDisk[Destination(p)] \in Heirs(p)

Shape ==
    /\ Names /\ Stamps
    /\ \A p \in Proc : /\ Control(p) /\ Temporary(p) /\ Views(p) /\ Moment(p)
                       /\ Target(p) /\ Bytewise(p) /\ Landed(p) /\ Durable(p)

-----------------------------------------------------------------------------
(* The names, and the order of the steps.                                  *)

\* The sets that the constants make up.
LEMMA Basics ==
    /\ Place = {File, Key, Tag} /\ File # Key /\ Key # Tag /\ Tag # File
    /\ Place \subseteq Name /\ Proc \subseteq Name /\ Place \cap Proc = {}
    /\ Name = Proc \cup Place /\ Inode = Proc \cup Place \cup Added
    /\ None \notin Inode /\ Added \cap (Proc \cup Place) = {} /\ MaxLoad \in Nat
    /\ Role = {"file", "key", "sidecar"}
BY SidecarAssumption DEF Place, Name, Inode, Added, Role

\* n follows s in command o: the tables, read pairwise.
Goes(o, s, n) ==
    /\ o = "keygen" =>
          \/ (s = "create" /\ n = "stage") \/ (s = "stage" /\ n = "validate")
          \/ (s = "validate" /\ n = "tempname") \/ (s = "tempname" /\ n = "rename")
          \/ (s = "rename" /\ n = "dirsync") \/ (s = "dirsync" /\ n = "done")
    /\ o \in {"tag", "replace"} =>
          \/ (s = "file" /\ n = "key") \/ (s = "key" /\ n = "inspect")
          \/ (s = "inspect" /\ n = "create") \/ (s = "create" /\ n = "read1")
          \/ (s = "read1" /\ n = "read2") \/ (s = "read2" /\ n = "lookfile")
          \/ (s = "lookfile" /\ n = "lookkey") \/ (s = "lookkey" /\ n = "stage")
          \/ (s = "stage" /\ n = "validate") \/ (s = "validate" /\ n = "lastfile")
          \/ (s = "lastfile" /\ n = "lastkey") \/ (s = "lastkey" /\ n = "tempname")
          \/ (s = "tempname" /\ n = "destname") \/ (s = "destname" /\ n = "rename")
          \/ (s = "rename" /\ n = "dirsync") \/ (s = "dirsync" /\ n = "done")
    /\ o = "verify" =>
          \/ (s = "file" /\ n = "sidecar") \/ (s = "sidecar" /\ n = "key")
          \/ (s = "key" /\ n = "parse") \/ (s = "parse" /\ n = "read1")
          \/ (s = "read1" /\ n = "read2") \/ (s = "read2" /\ n = "lookfile")
          \/ (s = "lookfile" /\ n = "looktag") \/ (s = "looktag" /\ n = "lookkey")
          \/ (s = "lookkey" /\ n = "done")

\* The tables hold Goes.
LEMMA Table ==
    ASSUME NEW o \in Ops, NEW s \in StepsOf(o)
    PROVE  Goes(o, s, After(o, s)) /\ After(o, s) \in StepsOf(o) \cup {"done"}
<1> DEFINE steps == Order(o)
           i == CHOOSE j \in DOMAIN steps : steps[j] = s
<1>1. After(o, s) = IF i = Len(steps) THEN "done" ELSE steps[i + 1]
  BY DEF After, Successor, StepsOf
<1>2. i \in DOMAIN steps /\ steps[i] = s
  BY DEF StepsOf
<1> HIDE DEF i
<1>3. CASE o = "keygen"
  BY <1>1, <1>2, <1>3 DEF Order, Goes, StepsOf
<1>4. CASE o \in {"tag", "replace"}
  <2>1. steps = <<"file", "key", "inspect", "create", "read1", "read2", "lookfile", "lookkey",
                  "stage", "validate", "lastfile", "lastkey", "tempname", "destname", "rename",
                  "dirsync">>
    BY <1>4 DEF Order
  <2>2. Len(steps) = 16 /\ i \in 1..16 /\ StepsOf(o) = {steps[j] : j \in 1..16}
    BY <1>2, <2>1 DEF StepsOf
  <2>3. After(o, s) \in StepsOf(o) \cup {"done"}
    BY <1>1, <2>2
  <2>4. CASE i \in 1..5
    BY <1>1, <1>2, <1>4, <2>1, <2>2, <2>4 DEF Goes
  <2>5. CASE i \in 6..10
    BY <1>1, <1>2, <1>4, <2>1, <2>2, <2>5 DEF Goes
  <2>6. CASE i \in 11..16
    BY <1>1, <1>2, <1>4, <2>1, <2>2, <2>6 DEF Goes
  <2> QED
    BY <2>2, <2>3, <2>4, <2>5, <2>6
<1>5. CASE o = "verify"
  BY <1>1, <1>2, <1>5 DEF Order, Goes, StepsOf
<1> QED
  BY <1>3, <1>4, <1>5 DEF Ops

LEMMA Starts ==
    ASSUME NEW o \in Ops
    PROVE  /\ StepsOf(o) \subseteq Step
           /\ Order(o)[1] \in StepsOf(o)
           /\ Order(o)[1] = IF o = "keygen" THEN "create" ELSE "file"
<1>1. CASE o = "keygen"
  BY <1>1 DEF Order, StepsOf, Step
<1>2. CASE o \in {"tag", "replace"}
  BY <1>2 DEF Order, StepsOf, Step
<1>3. CASE o = "verify"
  BY <1>3 DEF Order, StepsOf, Step
<1> QED
  BY <1>1, <1>2, <1>3 DEF Ops

-----------------------------------------------------------------------------
(* What a step of a call may do.                                           *)

Own(p) == Act(p) \/ Kill(p)
Lands(p) == pc[p] = "rename" /\ pc'[p] # "done" /\ Land(p)

\* To the directory and to what the surroundings keep.
Move(p) ==
    /\ stamp' = stamp /\ touched' = touched /\ events' = events
    /\ Lands(p) \/ /\ \A n \in Place : dir'[n] = dir[n]
                   /\ landed' = landed
                   /\ \/ dir'[p] \in {dir[p], None}
                      \/ (pc[p] = "create" /\ dir'[p] = p)
    /\ dirDisk' = dirDisk \/ dirDisk' = dir'

\* To others.
Apart(p) == \A q \in Proc : q # p =>
    /\ pc'[q] = pc[q] /\ op'[q] = op[q] /\ result'[q] = result[q] /\ path'[q] = path[q]
    /\ seen'[q] = seen[q] /\ parts'[q] = parts[q] /\ expected'[q] = expected[q]
    /\ (agreed'[q] <=> agreed[q]) /\ (landed'[q] <=> landed[q])
    /\ missed[q] \/ Lands(p) => missed'[q]
    /\ dir'[q] = dir[q]

\* To contents: a call writes its own staged file, and only at "stage".
Writes(p) ==
    /\ synced \subseteq synced' /\ synced' \subseteq synced \cup {p}
    /\ IF pc[p] = "stage" /\ pc'[p] # "done"
       THEN content' = [content EXCEPT ![p] = Output(p)] /\ p \in synced'
       ELSE content' = content

\* To its own control.
Turns(p) ==
    /\ pc[p] # "done"
    /\ \/ pc'[p] = "done"
       \/ pc[p] = "idle" /\ pc'[p] = (IF op'[p] = "keygen" THEN "create" ELSE "file")
       \/ pc[p] # "idle" /\ Goes(op[p], pc[p], pc'[p])
       \/ pc[p] = "rename" /\ pc'[p] = "source"
       \/ pc[p] = "source" /\ pc'[p] \in {"kept", "gone"}
       \/ pc[p] = "gone" /\ pc'[p] = "dirsync_warned"
    /\ IF pc[p] = "idle" THEN op'[p] \in Ops ELSE op'[p] = op[p] /\ path'[p] = path[p]
    /\ pc'[p] # "done" => result'[p] = result[p]
    /\ Lands(p) => pc'[p] \in {"dirsync", "source"}
    /\ pc[p] = "rename" /\ pc'[p] = "dirsync" => Lands(p)
    /\ pc'[p] = "kept" => dir[p] = p
    /\ pc'[p] = "dirsync_warned" => dir[Destination(p)] = p
    /\ \/ result'[p] \in {result[p], "error", "killed", "unknown"}
       \/ /\ result'[p] = "committed" /\ pc[p] = "dirsync"
          /\ dirDisk' = dir' /\ dir' = dir
       \/ result'[p] = "uncertain" /\ pc[p] \in {"dirsync", "dirsync_warned"}
       \/ /\ result'[p] = Verdict(p) /\ pc[p] = "lookkey" /\ op[p] = "verify"
          /\ Unchanged(p, "key")
    /\ result'[p] = "error" =>
          pc[p] \notin {"rename", "source", "gone", "dirsync", "dirsync_warned"}

\* To what it knows.
Learns(p) ==
    /\ IF pc[p] \in Role /\ pc'[p] # "done"
       THEN /\ dir[NameOf(p, pc[p])] # None /\ Suitable(p, dir[NameOf(p, pc[p])])
            /\ seen'[p] = [seen[p] EXCEPT ![pc[p]] =
                  [inode |-> dir[NameOf(p, pc[p])], stamp |-> stamp[dir[NameOf(p, pc[p])]],
                   content |-> content[dir[NameOf(p, pc[p])]]]]
       ELSE IF pc[p] = "parse" /\ pc'[p] # "done"
       THEN seen'[p] = [seen[p] EXCEPT !["sidecar"].content = content[seen[p]["sidecar"].inode]]
       ELSE seen'[p] = seen[p]
    /\ parts'[p] = IF pc[p] \in {"read1", "read2"} /\ pc'[p] # "done"
                   THEN Append(parts[p], Bytes(seen[p]["file"].inode)) ELSE parts[p]
    /\ IF pc[p] = "inspect" /\ pc'[p] # "done"
       THEN /\ expected'[p] = dir[path[p]]
            /\ dir[path[p]] = None \/ MayReplace(p)
       ELSE expected'[p] = expected[p]

\* What it has made sure of when it goes on.
Checks(p) ==
    /\ pc'[p] # "done" =>
         /\ pc[p] \in {"lookfile", "lastfile"} => Unchanged(p, "file")
         /\ pc[p] \in {"lookkey", "lastkey"} => Unchanged(p, "key")
         /\ pc[p] = "looktag" => Unchanged(p, "sidecar")
         /\ pc[p] = "create" /\ op[p] # "keygen" => Unchanged(p, "file") /\ Unchanged(p, "key")
         /\ pc[p] = "validate" /\ op[p] # "keygen" => content[p] = Output(p)
         /\ pc[p] = "destname" =>
               expected[p] = None \/ dir[Destination(p)] = expected[p]
         /\ op[p] = "verify" /\ pc[p] = "lookfile" => (agreed'[p] <=> Agree(p))
         /\ pc[p] = "lastfile" => (agreed'[p] <=> Vouched(p))
    /\ pc[p] # "lastfile" /\ (op[p] = "verify" => pc[p] # "lookfile") => (agreed'[p] <=> agreed[p])
    /\ pc[p] # "destname" /\ missed[p] => missed'[p]

\* The domains of the variables.
LEMMA Domains ==
    ASSUME TypeOK
    PROVE  /\ dir \in [Name -> Inode \cup {None}] /\ dirDisk \in [Name -> Inode \cup {None}]
           /\ DOMAIN content = Inode /\ pc \in [Proc -> Step \cup {"idle", "done"}]
           /\ DOMAIN op = Proc /\ DOMAIN result = Proc /\ DOMAIN path = Proc
           /\ DOMAIN seen = Proc /\ \A p \in Proc : DOMAIN seen[p] = Role
           /\ DOMAIN parts = Proc /\ DOMAIN expected = Proc /\ DOMAIN agreed = Proc
           /\ DOMAIN landed = Proc /\ DOMAIN missed = Proc
           /\ \A p \in Proc : path[p] \in Place
<1>1. /\ dir \in [Name -> Inode \cup {None}] /\ dirDisk \in [Name -> Inode \cup {None}]
      /\ content \in [Inode -> Content] /\ pc \in [Proc -> Step \cup {"idle", "done"}]
      /\ op \in [Proc -> Ops \cup {"none"}] /\ result \in [Proc -> Result]
      /\ path \in [Proc -> Place] /\ seen \in [Proc -> [Role -> View]]
      /\ expected \in [Proc -> Inode \cup {None}]
  BY Zenon DEF TypeOK
<1>2. /\ parts \in [Proc -> Seq(Text)]
      /\ agreed \in [Proc -> BOOLEAN] /\ landed \in [Proc -> BOOLEAN]
      /\ missed \in [Proc -> BOOLEAN]
  BY Zenon DEF TypeOK
<1> HIDE DEF View, Content, Text, Result, Step, Ops, Place, Role
<1> QED
  BY <1>1, <1>2

LEMMA AfterRename ==
    ASSUME NEW p \in Proc, Control(p), pc[p] = "rename"
    PROVE  After(op[p], pc[p]) = "dirsync" /\ op[p] \in Ops \ {"verify"}
<1>1. op[p] \in Ops /\ pc[p] \in StepsOf(op[p])
  BY DEF Control, Late
<1>2. Goes(op[p], pc[p], After(op[p], pc[p]))
  BY <1>1, Table
<1> QED
  BY <1>1, <1>2 DEF Goes, Ops

\* What every step of a call does to the names.
LEMMA OwnMoves ==
    ASSUME TypeOK, NEW p \in Proc, Control(p), Own(p)
    PROVE  Move(p)
<1> USE Basics, Domains DEF Move, Goto, Answer, Advance, Fail, files, jobs, past, around
<1>1. CASE \E o \in Ops, n \in Place : Begin(p, o, n)
  BY <1>1 DEF Begin
<1>2. CASE OpenRegular(p) \/ Inspect(p) \/ Parse(p) \/ Read(p)
  BY <1>2 DEF OpenRegular, Inspect, Parse, Read
<1>3. CASE Recheck(p) \/ CreateTemp(p)
  BY <1>3 DEF Recheck, CreateTemp
<1>4. CASE WriteStage(p) \/ Validate(p) \/ CheckTempName(p) \/ CheckDestName(p)
  BY <1>4 DEF WriteStage, Validate, CheckTempName, CheckDestName
<1>5. CASE Rename(p)
  BY <1>5, AfterRename DEF Rename, Lands
<1>6. CASE DecideSource(p) \/ DecideDestination(p) \/ SyncDirectory(p) \/ StepFails(p) \/ Kill(p)
  BY <1>6 DEF DecideSource, DecideDestination, SyncDirectory, StepFails, Kill
<1> QED
  BY <1>1, <1>2, <1>3, <1>4, <1>5, <1>6 DEF Own, Act

\* What every step of a call does to the others.
LEMMA OwnApart ==
    ASSUME TypeOK, NEW p \in Proc, Control(p), Own(p)
    PROVE  Apart(p)
<1> USE Basics, Domains DEF Apart, Goto, Answer, Advance, Fail, files, jobs, past, around
<1>1. CASE \E o \in Ops, n \in Place : Begin(p, o, n)
  BY <1>1 DEF Begin, Lands
<1>2. CASE OpenRegular(p) \/ Inspect(p) \/ Parse(p) \/ Read(p)
  BY <1>2 DEF OpenRegular, Inspect, Parse, Read, Lands, Role
<1>3. CASE Recheck(p) \/ CreateTemp(p)
  BY <1>3 DEF Recheck, CreateTemp, Lands
<1>4. CASE WriteStage(p) \/ Validate(p) \/ CheckTempName(p) \/ CheckDestName(p)
  BY <1>4 DEF WriteStage, Validate, CheckTempName, CheckDestName, Lands
<1>5. CASE Rename(p)
  <2>1. Destination(p) \in Place
    BY DEF Destination
  <2>2. CASE Lands(p)
    <3>1. /\ \A q \in Proc : q # p => missed'[q]
          /\ \A q \in Proc : q # p => dir'[q] = dir[q]
          /\ \A q \in Proc : q # p => (landed'[q] <=> landed[q])
      BY <2>1, <2>2 DEF Lands, Land, Moved
    <3>2. \A q \in Proc : q # p =>
             /\ pc'[q] = pc[q] /\ result'[q] = result[q] /\ op'[q] = op[q]
             /\ path'[q] = path[q] /\ seen'[q] = seen[q] /\ parts'[q] = parts[q]
             /\ expected'[q] = expected[q] /\ (agreed'[q] <=> agreed[q])
      BY <1>5 DEF Rename
    <3> QED
      BY <3>1, <3>2
  <2>3. CASE ~Lands(p)
    BY <1>5, <2>3, AfterRename DEF Rename, Lands
  <2> QED
    BY <2>2, <2>3
<1>6. CASE DecideSource(p) \/ DecideDestination(p)
  BY <1>6 DEF DecideSource, DecideDestination, Lands
<1>7. CASE SyncDirectory(p)
  BY <1>7 DEF SyncDirectory, Lands
<1>8. CASE StepFails(p)
  BY <1>8 DEF StepFails, Lands
<1>9. CASE Kill(p)
  BY <1>9 DEF Kill, Lands
<1> QED
  BY <1>1, <1>2, <1>3, <1>4, <1>5, <1>6, <1>7, <1>8, <1>9 DEF Own, Act


LEMMA Advances ==
    ASSUME TypeOK, NEW p \in Proc, Control(p), Advance(p),
           pc[p] \notin (Late \ {"dirsync"}) \cup {"idle"}
    PROVE  /\ Goes(op[p], pc[p], pc'[p]) /\ pc'[p] = After(op[p], pc[p])
           /\ op[p] \in Ops /\ result' = result
BY Domains, Table DEF Advance, Goto, Control

LEMMA Fails ==
    ASSUME TypeOK, NEW p \in Proc, Fail(p)
    PROVE  pc'[p] = "done" /\ result'[p] = "error"
BY Domains DEF Fail, Answer

\* What every step of a call does to the contents.
LEMMA OwnWrites ==
    ASSUME TypeOK, NEW p \in Proc, Control(p), Own(p)
    PROVE  Writes(p)
<1> USE Domains DEF Writes, files, jobs, past, around
<1>1. CASE WriteStage(p)
  BY <1>1, Advances DEF WriteStage, SyncedBy, Late, Goes, Ops
<1>2. CASE \E o \in Ops, n \in Place : Begin(p, o, n)
  BY <1>2 DEF Begin
<1>3. CASE OpenRegular(p) \/ Inspect(p) \/ Parse(p) \/ Read(p) \/ Recheck(p) \/ CreateTemp(p)
  BY <1>3 DEF OpenRegular, Inspect, Parse, Read, Recheck, CreateTemp, Role
<1>4. CASE Validate(p) \/ CheckTempName(p) \/ CheckDestName(p) \/ Rename(p)
  BY <1>4 DEF Validate, CheckTempName, CheckDestName, Rename
<1>5. CASE DecideSource(p) \/ DecideDestination(p) \/ SyncDirectory(p)
  BY <1>5 DEF DecideSource, DecideDestination, SyncDirectory
<1>6. CASE StepFails(p) \/ Kill(p)
  BY <1>6, Fails DEF StepFails, Kill, Answer
<1> QED
  BY <1>1, <1>2, <1>3, <1>4, <1>5, <1>6 DEF Own, Act

\* Where every step of a call leads it.
LEMMA OwnTurns ==
    ASSUME TypeOK, NEW p \in Proc, Control(p), Own(p)
    PROVE  Turns(p)
<1> USE Domains DEF Turns, files, jobs, past, around
<1>1. CASE \E o \in Ops, n \in Place : Begin(p, o, n)
  BY <1>1, Starts DEF Begin, Goto, Lands
<1>2. CASE OpenRegular(p) \/ Inspect(p) \/ Parse(p) \/ Read(p)
  <2>1. pc[p] \notin Late \cup {"idle", "rename"} /\ op' = op /\ path' = path
    BY <1>2 DEF OpenRegular, Inspect, Parse, Read, Role, jobs, Late
  <2>2. Advance(p) \/ Fail(p)
    BY <1>2 DEF OpenRegular, Inspect, Parse, Read
  <2> QED
    BY <2>1, <2>2, Advances, Fails DEF Late, Lands, Goes, Ops
<1>3. CASE Recheck(p)
  <2>1. pc[p] \notin Late \cup {"idle", "rename"} /\ op' = op /\ path' = path
    BY <1>3 DEF Recheck, jobs, Late
  <2>2. CASE Advance(p) \/ Fail(p)
    BY <2>1, <2>2, Advances, Fails DEF Late, Lands, Goes, Ops
  <2>3. CASE Answer(p, Verdict(p)) /\ After(op[p], pc[p]) = "done" /\ Unchanged(p, Rechecks(p))
    <3>1. pc[p] = "lookkey" /\ op[p] = "verify"
      BY <1>3, <2>3, <2>1, Table DEF Recheck, Control, Goes, Ops
    <3>2. Rechecks(p) = "key"
      BY <3>1 DEF Rechecks
    <3> QED
      BY <2>1, <2>3, <3>1, <3>2 DEF Answer, Lands
  <2> QED
    BY <1>3, <2>2, <2>3 DEF Recheck
<1>4. CASE CreateTemp(p) \/ WriteStage(p) \/ Validate(p) \/ CheckTempName(p) \/ CheckDestName(p)
  <2>1. pc[p] \notin Late \cup {"idle", "rename"} /\ op' = op /\ path' = path
    BY <1>4 DEF CreateTemp, WriteStage, Validate, CheckTempName, CheckDestName, jobs, Late
  <2>2. Advance(p) \/ Fail(p)
    BY <1>4 DEF CreateTemp, WriteStage, Validate, CheckTempName, CheckDestName
  <2> QED
    BY <2>1, <2>2, Advances, Fails DEF Late, Lands, Goes, Ops
<1>5. CASE Rename(p)
  BY <1>5, AfterRename, Table DEF Rename, Lands, Advance, Goto, Control, Late
<1>6. CASE DecideSource(p)
  BY <1>6 DEF DecideSource, Goto, Lands, Control
<1>10. CASE DecideDestination(p)
  <2>1. op' = op /\ path' = path /\ pc[p] \in {"kept", "gone"}
    BY <1>10 DEF DecideDestination
  <2>2. CASE Fail(p) /\ pc[p] = "kept"
    BY <2>1, <2>2, Fails DEF Lands
  <2>3. CASE Goto(p, "dirsync_warned") /\ pc[p] = "gone" /\ dir[Destination(p)] = p
    BY <2>1, <2>3 DEF Goto, Lands, Control
  <2>4. CASE Answer(p, "unknown")
    BY <2>1, <2>4 DEF Answer, Lands
  <2> QED
    BY <1>10, <2>2, <2>3, <2>4 DEF DecideDestination
<1>7. CASE SyncDirectory(p)
  BY <1>7 DEF SyncDirectory, Answer, Lands
<1>8. CASE StepFails(p)
  BY <1>8, Fails DEF StepFails, Running, Lands
<1>9. CASE Kill(p)
  BY <1>9 DEF Kill, Running, Answer, Lands
<1> QED
  BY <1>1, <1>2, <1>3, <1>4, <1>5, <1>6, <1>7, <1>8, <1>9, <1>10 DEF Own, Act

\* What every step of a call lets it know.
LEMMA OwnLearns ==
    ASSUME TypeOK, NEW p \in Proc, Control(p), Own(p)
    PROVE  Learns(p)
<1> USE Domains DEF Learns, files, jobs, past, around
<1>1. CASE \E o \in Ops, n \in Place : Begin(p, o, n)
  BY <1>1 DEF Begin, Role
<1>2. CASE OpenRegular(p)
  <2>1. CASE dir[NameOf(p, pc[p])] # None /\ Suitable(p, dir[NameOf(p, pc[p])])
    <3>1. pc'[p] # "done"
      BY <1>2, <2>1, Advances DEF OpenRegular, Goes, Ops, Late, Role
    <3> QED
      BY <1>2, <2>1, <3>1, Basics DEF OpenRegular
  <2>2. CASE ~(dir[NameOf(p, pc[p])] # None /\ Suitable(p, dir[NameOf(p, pc[p])]))
    <3>1. pc'[p] = "done"
      BY <1>2, <2>2, Fails DEF OpenRegular
    <3> QED
      BY <1>2, <2>2, <3>1 DEF OpenRegular
  <2> QED
    BY <2>1, <2>2
<1>3. CASE Inspect(p)
  <2>1. CASE dir[path[p]] = None \/ MayReplace(p)
    <3>1. pc'[p] # "done"
      BY <1>3, <2>1, Advances DEF Inspect, Goes, Ops, Late, Role
    <3> QED
      BY <1>3, <2>1, <3>1, Basics DEF Inspect
  <2>2. CASE ~(dir[path[p]] = None \/ MayReplace(p))
    <3>1. pc'[p] = "done"
      BY <1>3, <2>2, Fails DEF Inspect
    <3> QED
      BY <1>3, <2>2, <3>1 DEF Inspect
  <2> QED
    BY <2>1, <2>2
<1>4. CASE Parse(p)
  <2>1. CASE content[seen[p]["sidecar"].inode].kind = "tag"
    <3>1. pc'[p] # "done"
      BY <1>4, <2>1, Advances DEF Parse, Goes, Ops, Late, Role
    <3> QED
      BY <1>4, <2>1, <3>1, Basics DEF Parse
  <2>2. CASE ~(content[seen[p]["sidecar"].inode].kind = "tag")
    <3>1. pc'[p] = "done"
      BY <1>4, <2>2, Fails DEF Parse
    <3> QED
      BY <1>4, <2>2, <3>1 DEF Parse
  <2> QED
    BY <2>1, <2>2
<1>5. CASE Read(p)
  <2>1. pc'[p] # "done"
    BY <1>5, Advances DEF Read, Goes, Ops, Late
  <2> QED
    BY <1>5, <2>1 DEF Read, Role
<1>6. CASE Recheck(p) \/ CreateTemp(p) \/ WriteStage(p) \/ Validate(p) \/ CheckTempName(p)
  BY <1>6 DEF Recheck, CreateTemp, WriteStage, Validate, CheckTempName, Role
<1>7. CASE \/ CheckDestName(p) \/ Rename(p) \/ DecideSource(p)
           \/ DecideDestination(p) \/ SyncDirectory(p)
  BY <1>7 DEF CheckDestName, Rename, DecideSource, DecideDestination, SyncDirectory, Role
<1>8. CASE StepFails(p) \/ Kill(p)
  BY <1>8, Fails DEF StepFails, Kill, Answer
<1> QED
  BY <1>1, <1>2, <1>3, <1>4, <1>5, <1>6, <1>7, <1>8 DEF Own, Act

\* What a call has made sure of when it goes on.
LEMMA OwnChecks ==
    ASSUME TypeOK, NEW p \in Proc, Control(p), Own(p)
    PROVE  Checks(p)
<1> USE Domains DEF Checks, files, jobs, past, around
<1>1. CASE \E o \in Ops, n \in Place : Begin(p, o, n)
  BY <1>1 DEF Begin
<1>2. CASE OpenRegular(p) \/ Inspect(p) \/ Parse(p) \/ Read(p)
  BY <1>2 DEF OpenRegular, Inspect, Parse, Read, Role
<1>3. CASE Recheck(p)
  <2>1. /\ pc'[p] # "done" => Unchanged(p, Rechecks(p))
        /\ \/ agreed'[p] <=> agreed[p]
           \/ op[p] = "verify" /\ pc[p] = "lookfile" /\ (agreed'[p] <=> Agree(p))
           \/ pc[p] = "lastfile" /\ (agreed'[p] <=> Vouched(p))
    <3>1. pc'[p] # "done" => Unchanged(p, Rechecks(p))
      BY <1>3, Fails DEF Recheck
    <3>2. CASE op[p] = "verify" /\ pc[p] = "lookfile"
      BY <1>3, <3>1, <3>2 DEF Recheck
    <3>3. CASE pc[p] = "lastfile"
      BY <1>3, <3>1, <3>3 DEF Recheck
    <3>4. CASE pc[p] # "lastfile" /\ ~(op[p] = "verify" /\ pc[p] = "lookfile")
      BY <1>3, <3>1, <3>4 DEF Recheck
    <3> QED
      BY <3>2, <3>3, <3>4
  <2> QED
    BY <1>3, <2>1 DEF Recheck, Rechecks
<1>4. CASE CreateTemp(p)
  BY <1>4, Fails DEF CreateTemp
<1>5. CASE WriteStage(p)
  BY <1>5 DEF WriteStage
<1>6. CASE Validate(p)
  BY <1>6, Fails DEF Validate, Valid
<1>7. CASE CheckTempName(p)
  BY <1>7 DEF CheckTempName
<1>8. CASE CheckDestName(p)
  BY <1>8, Fails DEF CheckDestName, StillExpected
<1>9. CASE Rename(p)
  BY <1>9 DEF Rename, Land
<1>10. CASE DecideSource(p) \/ DecideDestination(p) \/ SyncDirectory(p)
  BY <1>10 DEF DecideSource, DecideDestination, SyncDirectory
<1>11. CASE StepFails(p)
  BY <1>11, Fails DEF StepFails
<1>12. CASE Kill(p)
  BY <1>12 DEF Kill, Answer
<1> QED
  BY <1>1, <1>2, <1>3, <1>4, <1>5, <1>6, <1>7, <1>8, <1>9, <1>10, <1>11, <1>12 DEF Own, Act

-----------------------------------------------------------------------------
(* Type correctness.                                                       *)

TypeFiles ==
    /\ dir \in [Name -> Inode \cup {None}] /\ dirDisk \in [Name -> Inode \cup {None}]
    /\ content \in [Inode -> Content] /\ stamp \in [Inode -> Stamp]
    /\ synced \in SUBSET Proc
TypeTurns ==
    pc \in [Proc -> Step \cup {"idle", "done"}] /\ result \in [Proc -> Result]
TypeJobs ==
    /\ op \in [Proc -> Ops \cup {"none"}] /\ path \in [Proc -> Place]
    /\ seen \in [Proc -> [Role -> View]]
    /\ parts \in [Proc -> Seq(Text)] /\ expected \in [Proc -> Inode \cup {None}]
TypeParts == \A p \in Proc : Len(parts[p]) <= 2
TypePast ==
    /\ agreed \in [Proc -> BOOLEAN] /\ landed \in [Proc -> BOOLEAN]
    /\ missed \in [Proc -> BOOLEAN]
TypeAround == touched \in SUBSET Name /\ events \in 0..MaxLoad

LEMMA TypeParted ==
    TypeOK <=> /\ TypeFiles /\ TypeTurns /\ TypeJobs
               /\ TypeParts /\ TypePast /\ TypeAround
BY Zenon DEF TypeOK, TypeFiles, TypeTurns, TypeJobs, TypeParts, TypePast, TypeAround

LEMMA Contents ==
    /\ \A t \in Text, k \in Keys : TagFor(t, k) \in Content
    /\ \A k \in Keys : KeyFile(k) \in Content
    /\ \A t \in Text : Payload(t) \in Content
    /\ Bad \in Content /\ 0 \in Text /\ 0 \in Keys /\ Proc \subseteq Keys
BY SidecarAssumption DEF TagFor, KeyFile, Payload, Bad, Content, Text, Keys, Stamp, Foreign

LEMMA BytesAreText ==
    ASSUME TypeOK, NEW i \in Inode
    PROVE  Bytes(i) \in Text
<1>1. content[i] \in Content
  BY TypeParted DEF TypeFiles
<1> QED
  BY <1>1, SidecarAssumption DEF Bytes, Content, Text, Foreign

\* What is staged is a key, or a tag over what was read.
LEMMA OutputIsContent ==
    ASSUME TypeOK, NEW p \in Proc, Control(p), Views(p), pc[p] = "stage"
    PROVE  Output(p) \in Content
<1>1. /\ seen[p]["key"] \in View /\ parts[p] \in Seq(Text)
      /\ op[p] \in Ops /\ (op[p] # "keygen" => Len(parts[p]) = 2)
  BY TypeParted, Basics DEF TypeJobs, Control, Late, Views, Reads, Running, Unread
<1>2. op[p] # "keygen" => parts[p][1] \in Text
  BY <1>1
<1>3. seen[p]["key"].content.key \in Keys
  BY <1>1 DEF View, Content
<1> QED
  BY <1>2, <1>3, Contents DEF Output

LEMMA OwnFiles ==
    ASSUME TypeOK, NEW p \in Proc, Control(p), Views(p), Own(p)
    PROVE  TypeFiles'
<1> USE TypeParted, Basics DEF TypeFiles, Fail, files
<1>1. CASE \E o \in Ops, n \in Place : Begin(p, o, n)
  BY <1>1 DEF Begin
<1>2. CASE OpenRegular(p) \/ Inspect(p) \/ Parse(p) \/ Read(p) \/ Recheck(p)
  BY <1>2 DEF OpenRegular, Inspect, Parse, Read, Recheck
<1>3. CASE CreateTemp(p)
  BY <1>3 DEF CreateTemp
<1>4. CASE WriteStage(p)
  BY <1>4, OutputIsContent DEF WriteStage, SyncedBy
<1>5. CASE Validate(p) \/ CheckTempName(p) \/ CheckDestName(p)
  BY <1>5 DEF Validate, CheckTempName, CheckDestName
<1>6. CASE Rename(p)
  <2>1. Destination(p) \in Name
    BY Domains DEF Destination
  <2> QED
    BY <1>6, <2>1 DEF Rename, Land, Moved
<1>7. CASE DecideSource(p) \/ DecideDestination(p) \/ SyncDirectory(p)
  BY <1>7 DEF DecideSource, DecideDestination, SyncDirectory
<1>8. CASE StepFails(p) \/ Kill(p)
  BY <1>8 DEF StepFails, Kill
<1> QED
  BY <1>1, <1>2, <1>3, <1>4, <1>5, <1>6, <1>7, <1>8 DEF Own, Act

LEMMA AfterIsStep ==
    ASSUME TypeOK, NEW p \in Proc, Control(p), pc[p] \notin (Late \ {"dirsync"}) \cup {"idle"}
    PROVE  After(op[p], pc[p]) \in Step \cup {"idle", "done"}
BY Table, Starts DEF Control

LEMMA OwnTurned ==
    ASSUME TypeOK, NEW p \in Proc, Control(p), Own(p)
    PROVE  TypeTurns'
<1> USE TypeParted, Basics DEF TypeTurns
<1>1. {"error", "killed", "unknown", "committed", "uncertain", "verified", "failed"}
         \subseteq Result
  BY DEF Result
<1>2. ASSUME Advance(p), pc[p] \notin (Late \ {"dirsync"}) \cup {"idle"} PROVE TypeTurns'
  BY <1>2, AfterIsStep DEF Advance, Goto
<1>3. ASSUME NEW r \in Result, Answer(p, r) PROVE TypeTurns'
  BY <1>3 DEF Answer
<1>4. ASSUME NEW s \in Step, Goto(p, s) PROVE TypeTurns'
  BY <1>4 DEF Goto
<1>5. ASSUME Fail(p) PROVE TypeTurns'
  BY <1>1, <1>3, <1>5 DEF Fail
<1>6. CASE \E o \in Ops, n \in Place : Begin(p, o, n)
  BY <1>4, <1>6, Starts DEF Begin
<1>7. CASE OpenRegular(p) \/ Inspect(p) \/ Parse(p) \/ Read(p)
  BY <1>2, <1>5, <1>7 DEF OpenRegular, Inspect, Parse, Read, Late
<1>8. CASE Recheck(p)
  <2>1. Verdict(p) \in Result
    BY <1>1 DEF Verdict
  <2> QED
    BY <1>2, <1>3, <1>5, <1>8, <2>1 DEF Recheck, Late
<1>9. CASE CreateTemp(p) \/ WriteStage(p) \/ Validate(p) \/ CheckTempName(p) \/ CheckDestName(p)
  BY <1>2, <1>5, <1>9 DEF CreateTemp, WriteStage, Validate, CheckTempName, CheckDestName, Late
<1>10. CASE Rename(p)
  BY <1>2, <1>4, <1>10 DEF Rename, Late, Step
<1>11. CASE DecideSource(p)
  <2>1. (IF dir[p] = p THEN "kept" ELSE "gone") \in Step
    BY DEF Step
  <2> QED
    BY <1>4, <1>11, <2>1 DEF DecideSource
<1>12. CASE DecideDestination(p)
  BY <1>1, <1>3, <1>4, <1>5, <1>12 DEF DecideDestination, Step
<1>13. CASE SyncDirectory(p)
  <2>1. (IF pc[p] = "dirsync" THEN "committed" ELSE "uncertain") \in Result
    BY <1>1
  <2> QED
    BY <1>1, <1>3, <1>13, <2>1 DEF SyncDirectory
<1>14. CASE StepFails(p) \/ Kill(p)
  BY <1>1, <1>3, <1>5, <1>14 DEF StepFails, Kill
<1> QED
  BY <1>6, <1>7, <1>8, <1>9, <1>10, <1>11, <1>12, <1>13, <1>14 DEF Own, Act

LEMMA SeenTyped ==
    ASSUME TypeOK, NEW p \in Proc, NEW r \in Role, NEW v \in View,
           seen' = [seen EXCEPT ![p] = [@ EXCEPT ![r] = v]]
    PROVE  seen' \in [Proc -> [Role -> View]]
<1>1. seen \in [Proc -> [Role -> View]]
  BY TypeParted DEF TypeJobs
<1>2. [seen[p] EXCEPT ![r] = v] \in [Role -> View]
  BY <1>1
<1> QED
  BY <1>1, <1>2

LEMMA OwnJobs ==
    ASSUME TypeOK, NEW p \in Proc, Control(p), Views(p), Own(p)
    PROVE  TypeJobs'
<1> USE TypeParted, Basics DEF TypeJobs, jobs
<1>1. CASE \E o \in Ops, n \in Place : Begin(p, o, n)
  BY <1>1 DEF Begin
<1>2. CASE OpenRegular(p)
  <2> DEFINE i == dir[NameOf(p, pc[p])]
             v == [inode |-> i, stamp |-> stamp[i], content |-> content[i]]
  <2>1. i # None => v \in View
    BY <1>2, Domains DEF TypeFiles, NameOf, OpenRegular, Role, View
  <2>2. /\ pc[p] \in Role
        /\ \/ seen' = seen
           \/ i # None /\ seen' = [seen EXCEPT ![p] = [@ EXCEPT ![pc[p]] = v]]
    BY <1>2 DEF OpenRegular
  <2> HIDE DEF v
  <2>3. seen' = seen => seen' \in [Proc -> [Role -> View]]
    OBVIOUS
  <2>4. seen' \in [Proc -> [Role -> View]]
    BY <2>1, <2>2, <2>3, SeenTyped
  <2> QED
    BY <1>2, <2>4 DEF OpenRegular
<1>3. CASE Inspect(p)
  <2>1. dir[path[p]] \in Inode \cup {None}
    BY Domains DEF TypeFiles
  <2>2. expected' = expected \/ expected' = [expected EXCEPT ![p] = dir[path[p]]]
    BY <1>3 DEF Inspect
  <2>3. expected' \in [Proc -> Inode \cup {None}]
    BY <2>1, <2>2
  <2> QED
    BY <1>3, <2>3 DEF Inspect
<1>4. CASE Parse(p)
  <2>1. seen[p]["sidecar"].inode \in Inode
    <3>1. seen[p]["sidecar"].inode # None
      BY <1>4 DEF Parse, Views, Opened, Running, Control, StepsOf, Order, Late, Ops
    <3> QED
      BY <3>1 DEF View
  <2>2. content[seen[p]["sidecar"].inode] \in Content
    BY <2>1 DEF TypeFiles
  <2>3. \/ seen' = seen
        \/ seen' = [seen EXCEPT ![p]["sidecar"].content = content[seen[p]["sidecar"].inode]]
    BY <1>4 DEF Parse
  <2>4. seen' \in [Proc -> [Role -> View]]
    <3> DEFINE v == [seen[p]["sidecar"] EXCEPT !.content = content[seen[p]["sidecar"].inode]]
    <3>0. seen[p]["sidecar"] \in View
      OBVIOUS
    <3>1. v \in View
      BY ONLY <3>0, <2>2 DEF View
    <3>2. seen' = seen \/ seen' = [seen EXCEPT ![p] = [@ EXCEPT !["sidecar"] = v]]
      BY <2>3
    <3>3. seen' = seen => seen' \in [Proc -> [Role -> View]]
      OBVIOUS
    <3> QED
      BY <3>1, <3>2, <3>3, SeenTyped
  <2> QED
    BY <1>4, <2>4 DEF Parse
<1>5. CASE Read(p)
  <2>1. seen[p]["file"].inode \in Inode
    <3>1. seen[p]["file"].inode # None
      BY <1>5 DEF Read, Views, Opened, Running, Control, StepsOf, Order, Late, Ops
    <3> QED
      BY <3>1 DEF View
  <2>2. parts' \in [Proc -> Seq(Text)]
    BY <1>5, <2>1, BytesAreText DEF Read
  <2> QED
    BY <1>5, <2>2 DEF Read
<1>6. CASE Recheck(p) \/ CreateTemp(p) \/ WriteStage(p) \/ Validate(p) \/ CheckTempName(p)
  BY <1>6 DEF Recheck, CreateTemp, WriteStage, Validate, CheckTempName
<1>7. CASE CheckDestName(p) \/ Rename(p) \/ DecideSource(p) \/ DecideDestination(p)
  BY <1>7 DEF CheckDestName, Rename, DecideSource, DecideDestination
<1>8. CASE SyncDirectory(p) \/ StepFails(p) \/ Kill(p)
  BY <1>8 DEF SyncDirectory, StepFails, Kill
<1> QED
  BY <1>1, <1>2, <1>3, <1>4, <1>5, <1>6, <1>7, <1>8 DEF Own, Act

LEMMA OwnPast ==
    ASSUME TypeOK, NEW p \in Proc, Own(p)
    PROVE  TypePast'
<1> USE TypeParted DEF TypePast, past
<1>1. CASE \E o \in Ops, n \in Place : Begin(p, o, n)
  BY <1>1 DEF Begin
<1>2. CASE OpenRegular(p) \/ Inspect(p) \/ Parse(p) \/ Read(p)
  BY <1>2 DEF OpenRegular, Inspect, Parse, Read
<1>3. CASE Recheck(p)
  <2>1. CASE op[p] = "verify" /\ pc[p] = "lookfile"
    BY <1>3, <2>1 DEF Recheck, Agree
  <2>2. CASE pc[p] = "lastfile"
    BY <1>3, <2>2 DEF Recheck, Vouched
  <2>3. CASE pc[p] # "lastfile" /\ ~(op[p] = "verify" /\ pc[p] = "lookfile")
    BY <1>3, <2>3 DEF Recheck
  <2> QED
    BY <2>1, <2>2, <2>3
<1>4. CASE CreateTemp(p) \/ WriteStage(p) \/ Validate(p) \/ CheckTempName(p) \/ CheckDestName(p)
  BY <1>4 DEF CreateTemp, WriteStage, Validate, CheckTempName, CheckDestName
<1>5. CASE Rename(p)
  BY <1>5 DEF Rename, Land
<1>6. CASE DecideSource(p) \/ DecideDestination(p) \/ SyncDirectory(p) \/ StepFails(p) \/ Kill(p)
  BY <1>6 DEF DecideSource, DecideDestination, SyncDirectory, StepFails, Kill
<1> QED
  BY <1>1, <1>2, <1>3, <1>4, <1>5, <1>6 DEF Own, Act

LEMMA OwnTypes ==
    ASSUME TypeOK, NEW p \in Proc, Control(p), Views(p), Own(p)
    PROVE  TypeOK'
<1>1. TypeAround'
  BY OwnMoves, TypeParted DEF Move, TypeAround
<1>2. TypeParts'
  <2>1. ASSUME NEW q \in Proc, q # p PROVE Len(parts'[q]) <= 2
    BY <2>1, OwnApart, TypeParted DEF Apart, TypeParts
  <2>2. parts[p] \in Seq(Text)
    BY TypeParted DEF TypeJobs
  <2>3. Len(parts[p]) <= 2
    BY TypeParted DEF TypeParts
  <2>4. pc[p] \in {"read1", "read2"} => Len(parts[p]) <= 1
    <3>1. CASE pc[p] = "read1"
      <4>1. parts[p] = <<>>
        BY <3>1 DEF Views, Running, Reads, Unread
      <4> QED
        BY <4>1
    <3>2. CASE pc[p] = "read2"
      <4>1. Len(parts[p]) = 1
        BY <3>2 DEF Views, Running, Reads
      <4> QED
        BY <4>1
    <3> QED
      BY <3>1, <3>2
  <2>5. Len(parts'[p]) <= 2
    <3>1. \/ parts'[p] = parts[p]
          \/ pc[p] \in {"read1", "read2"} /\ \E x : parts'[p] = Append(parts[p], x)
      BY OwnLearns DEF Learns
    <3>2. ASSUME NEW x, parts'[p] = Append(parts[p], x) PROVE Len(parts'[p]) = Len(parts[p]) + 1
      BY <2>2, <3>2
    <3> QED
      BY <2>2, <2>3, <2>4, <3>1, <3>2
  <2> QED
    BY <2>1, <2>5 DEF TypeParts
<1>3. TypeFiles' /\ TypeTurns' /\ TypeJobs' /\ TypePast'
  BY OwnFiles, OwnTurned, OwnJobs, OwnPast
<1> QED
  BY <1>1, <1>2, <1>3, Zenon
  DEF TypeOK, TypeFiles, TypeTurns, TypeJobs, TypeParts, TypePast, TypeAround

\* Every event leaves room for itself.
LEMMA LoadBound ==
    ASSUME TypeOK, Happens
    PROVE  events' = events + 1 /\ events \in Nat /\ events' \in Added
<1> DEFINE C == {p \in Proc : pc[p] # "idle"}
<1>1. Cardinality(C) \in Nat
  BY SidecarAssumption, FS_Subset, FS_CardinalityType
<1>2. events \in 0..MaxLoad
  BY TypeParted DEF TypeAround
<1> QED
  BY <1>1, <1>2, SidecarAssumption DEF Happens, Load, Added

\* To the files and the names, by a change of somebody else's.
Changes ==
    /\ \A i \in Inode : \/ content'[i] = content[i] /\ stamp'[i] = stamp[i]
                        \/ stamp'[i] = events'
    /\ \A n \in Name : dir'[n] # dir[n] => n \in touched'
    /\ \A n \in Place :
          \/ dir'[n] \in {dir[n], None}
          \/ dir'[n] = events' /\ \A p \in Proc : dir'[p] = dir[p]
          \/ dir'[n] = dir[File] /\ dir[File] # None /\ stamp'[dir[File]] = events'
    /\ \A p \in Proc :
          \/ dir'[p] = dir[p]
          \/ /\ dir[p] = p /\ dir'[p] = events'
             /\ \A q \in Proc : q # p => dir'[q] = dir[q]
    /\ touched \subseteq touched'

LEMMA ChangeChanges ==
    ASSUME TypeOK, Change
    PROVE  Changes
<1> USE Basics
<1>1. events' \in Inode
  BY LoadBound DEF Change
<1>2. /\ dir \in [Name -> Inode \cup {None}] /\ content \in [Inode -> Content]
      /\ stamp \in [Inode -> Stamp]
  BY TypeParted DEF TypeFiles
<1>3. ASSUME NEW n \in Place, touched' = touched \cup {n}, Rewrite(n, events')
      PROVE  Changes
  BY <1>2, <1>3 DEF Changes, Rewrite
<1>4. ASSUME NEW n \in Place, touched' = touched \cup {n}, Exchange(n, events')
      PROVE  Changes
  BY <1>1, <1>2, <1>4 DEF Changes, Exchange
<1>5. ASSUME NEW n \in Place, touched' = touched \cup {n}, dir' = [dir EXCEPT ![n] = None],
             UNCHANGED <<content, stamp>>
      PROVE  Changes
  BY <1>2, <1>5 DEF Changes
<1>6. ASSUME LinkFile(events'), touched' = touched \cup {Tag}
      PROVE  Changes
  BY <1>2, <1>6 DEF Changes, LinkFile
<1>7. ASSUME NEW p \in Proc, dir[p] = p, dir' = [dir EXCEPT ![p] = events'],
             touched' = touched \cup {p}, UNCHANGED <<content, stamp>>
      PROVE  Changes
  BY <1>2, <1>7 DEF Changes
<1> QED
  BY <1>3, <1>4, <1>5, <1>6, <1>7 DEF Change

LEMMA ChangeTypes ==
    ASSUME TypeOK, Change
    PROVE  TypeOK'
<1>1. /\ events' \in Inode /\ events' \in Stamp /\ events' \in 0..MaxLoad /\ events' \in Keys
      /\ events' \in Text
  BY LoadBound, SidecarAssumption DEF Change, Inode, Added, Stamp, Text, Keys
<1>2. UNCHANGED <<dirDisk, synced, pc, result, jobs, agreed, landed>>
  BY DEF Change
<1>3. missed' \in [Proc -> BOOLEAN]
  BY DEF Change
<1>4. touched' \in SUBSET Name
  BY Basics, TypeParted DEF Change, TypeAround
<1>5. \A n \in Place : Fresh(n, events') \cup {First(n)} \subseteq Content
  BY <1>1, Contents, Basics DEF Fresh, First
<1>6. /\ dir' \in [Name -> Inode \cup {None}] /\ content' \in [Inode -> Content]
      /\ stamp' \in [Inode -> Stamp]
  <2> USE <1>1, Basics, TypeParted DEF TypeFiles
  <2>1. ASSUME NEW n \in Place, Rewrite(n, events')
        PROVE  /\ dir' \in [Name -> Inode \cup {None}] /\ content' \in [Inode -> Content]
               /\ stamp' \in [Inode -> Stamp]
    BY <1>5, <2>1 DEF Rewrite
  <2>2. ASSUME NEW n \in Place, Exchange(n, events')
        PROVE  /\ dir' \in [Name -> Inode \cup {None}] /\ content' \in [Inode -> Content]
               /\ stamp' \in [Inode -> Stamp]
    BY <1>5, <2>2 DEF Exchange
  <2>3. ASSUME NEW n \in Name, dir' \in {[dir EXCEPT ![n] = None], [dir EXCEPT ![n] = events']},
               UNCHANGED <<content, stamp>>
        PROVE  /\ dir' \in [Name -> Inode \cup {None}] /\ content' \in [Inode -> Content]
               /\ stamp' \in [Inode -> Stamp]
    BY <2>3
  <2>4. ASSUME LinkFile(events')
        PROVE  /\ dir' \in [Name -> Inode \cup {None}] /\ content' \in [Inode -> Content]
               /\ stamp' \in [Inode -> Stamp]
    BY <2>4 DEF LinkFile
  <2> QED
    BY <2>1, <2>2, <2>3, <2>4 DEF Change
<1>7. TypeFiles' /\ TypeAround'
  BY <1>1, <1>2, <1>4, <1>6, TypeParted DEF TypeFiles, TypeAround
<1>8. TypeTurns' /\ TypeJobs' /\ TypeParts' /\ TypePast'
  BY <1>2, <1>3, TypeParted DEF TypeTurns, TypeJobs, TypeParts, TypePast, jobs
<1> QED
  BY <1>7, <1>8, Zenon
  DEF TypeOK, TypeFiles, TypeTurns, TypeJobs, TypeParts, TypePast, TypeAround

LEMMA AroundTypes ==
    ASSUME TypeOK, WriteBack \/ PowerLoss \/ \E p \in Proc : Damage(p)
    PROVE  TypeOK'
<1> USE TypeParted, Contents
<1>1. TypeFiles' /\ TypeTurns'
  <2>1. CASE WriteBack
    BY <2>1 DEF WriteBack, TypeFiles, TypeTurns
  <2>2. CASE PowerLoss
    <3>1. TypeFiles'
      BY <2>2 DEF PowerLoss, TypeFiles
    <3>2. TypeTurns'
      BY <2>2 DEF PowerLoss, TypeTurns, Result
    <3> QED
      BY <3>1, <3>2
  <2>3. ASSUME NEW p \in Proc, Damage(p) PROVE TypeFiles' /\ TypeTurns'
    BY <2>3 DEF Damage, TypeFiles, TypeTurns
  <2> QED
    BY <2>1, <2>2, <2>3
<1>2. TypeJobs' /\ TypeParts' /\ TypePast' /\ UNCHANGED touched
  BY DEF WriteBack, PowerLoss, Damage, TypeJobs, TypeParts, TypePast, jobs, past, around
<1>3. TypeAround'
  <2>1. CASE Happens
    BY <1>2, <2>1, LoadBound DEF TypeAround, Added
  <2>2. CASE WriteBack
    BY <1>2, <2>2 DEF WriteBack, around, TypeAround
  <2> QED
    BY <2>1, <2>2 DEF PowerLoss, Damage
<1> QED
  BY <1>1, <1>2, <1>3, Zenon
  DEF TypeOK, TypeFiles, TypeTurns, TypeJobs, TypeParts, TypePast, TypeAround

-----------------------------------------------------------------------------
(* What no step does to a settled inode.                                   *)

\* It stays settled, its bytes change with its stamp, and no name comes to mean
\* it without that.
Keeps ==
    \A i \in Inode : Settled(i) =>
        /\ Settled(i)'
        /\ stamp'[i] \in Nat /\ stamp[i] <= stamp'[i]
        /\ stamp'[i] = stamp[i] =>
              content'[i] = content[i] /\ \A n \in Place : dir'[n] = i => dir[n] = i

LEMMA Numbers ==
    ASSUME TypeOK
    PROVE  /\ events \in Nat /\ \A i \in Inode : stamp[i] \in Nat
           /\ \A i \in Added : i \in Nat /\ i > 0
           /\ \A p \in Proc, r \in Role : seen[p][r].stamp \in Nat
           /\ \A p \in Proc, r \in Role : seen[p][r].inode \in Inode \cup {None}
           /\ \A p \in Proc : expected[p] \in Inode \cup {None}
<1>1. \A p \in Proc, r \in Role : seen[p][r] \in View
  BY TypeParted DEF TypeJobs
<1>2. \A p \in Proc, r \in Role :
         seen[p][r].stamp \in Stamp /\ seen[p][r].inode \in Inode \cup {None}
  BY <1>1 DEF View
<1>3. events \in 0..MaxLoad /\ stamp \in [Inode -> Stamp]
  BY TypeParted DEF TypeAround, TypeFiles
<1>4. expected \in [Proc -> Inode \cup {None}]
  BY TypeParted DEF TypeJobs
<1> QED
  BY <1>2, <1>3, <1>4, SidecarAssumption DEF Stamp, Added

\* A call that has not landed has no settled staged file.
LEMMA OwnNotSettled ==
    ASSUME Shape, NEW p \in Proc, pc[p] \notin Late
    PROVE  ~Settled(p)
BY DEF Shape, Control, Settled, Kept

LEMMA LandedGrows ==
    ASSUME TypeOK, NEW p \in Proc, Own(p), Control(p)
    PROVE  /\ \A q \in Proc : landed[q] => landed'[q]
           /\ \A q \in Proc : q # p => (landed'[q] <=> landed[q])
           /\ Lands(p) => (landed'[p] <=> landed[p] \/ dir[p] = p)
           /\ ~Lands(p) => (landed'[p] <=> landed[p])
<1>1. \A q \in Proc : q # p => (landed'[q] <=> landed[q])
  BY OwnApart DEF Apart
<1>2. Lands(p) => (landed'[p] <=> landed[p] \/ dir[p] = p)
  BY Domains DEF Lands, Land
<1>3. ~Lands(p) => (landed'[p] <=> landed[p])
  BY OwnMoves DEF Move
<1> QED
  BY <1>1, <1>2, <1>3

\* A call writes only what is not settled yet, and moves only such a thing.
LEMMA OwnKeeps ==
    ASSUME TypeOK, Shape, NEW p \in Proc, Own(p)
    PROVE  Keeps
<1> SUFFICES ASSUME NEW i \in Inode, Settled(i)
             PROVE  /\ Settled(i)' /\ stamp'[i] = stamp[i] /\ content'[i] = content[i]
                    /\ \A n \in Place : dir'[n] = i => dir[n] = i
  BY Numbers DEF Keeps
<1>c. Control(p) /\ Temporary(p)
  BY DEF Shape
<1>m. Move(p) /\ Apart(p) /\ Writes(p) /\ Turns(p)
  BY <1>c, OwnMoves, OwnApart, OwnWrites, OwnTurns
<1>1. Kept(i)'
  BY <1>c, <1>m, LandedGrows DEF Settled, Kept, Move, Writes
<1>2. \A q \in Proc : Running(q)' => dir'[q] # i
  <2>1. ASSUME NEW q \in Proc, q # p, Running(q)' PROVE dir'[q] # i
    BY <1>m, <2>1 DEF Apart, Running, Settled
  <2>2. ASSUME Running(p)' PROVE dir'[p] # i
    <3>1. i # None
      BY Basics
    <3>2. dir[p] # i
      BY <1>m, <1>c, <3>1 DEF Turns, Running, Temporary, Settled
    <3>3. CASE Lands(p)
      <4>1. dir'[p] = None
        BY <3>3, Domains, Basics DEF Lands, Land, Moved
      <4> QED
        BY <3>1, <4>1
    <3>4. CASE pc[p] = "create" /\ dir'[p] = p
      BY <3>4, OwnNotSettled DEF Late
    <3>5. CASE dir'[p] \in {dir[p], None}
      BY <3>1, <3>2, <3>5
    <3> QED
      BY <1>m, <3>3, <3>4, <3>5 DEF Move
  <2> QED
    BY <2>1, <2>2
<1>3. content'[i] = content[i]
  <2>1. CASE pc[p] = "stage" /\ pc'[p] # "done"
    <3>1. i # p
      BY <2>1, OwnNotSettled DEF Late
    <3> QED
      BY <1>m, <2>1, <3>1, Domains DEF Writes
  <2>2. CASE ~(pc[p] = "stage" /\ pc'[p] # "done")
    BY <1>m, <2>2 DEF Writes
  <2> QED
    BY <2>1, <2>2
<1>4. ASSUME NEW n \in Place, dir'[n] = i PROVE dir[n] = i
  <2>1. CASE Lands(p)
    <3>1. dir[p] # i
      BY <2>1 DEF Settled, Lands, Running
    <3>2. Destination(p) \in Name
      BY Basics, Domains DEF Destination
    <3>3. dir'[n] = dir[p] \/ dir'[n] = dir[n]
      BY <2>1, <3>2, Basics, Domains DEF Lands, Land, Moved
    <3> QED
      BY <1>4, <3>1, <3>3
  <2>2. CASE ~Lands(p)
    BY <1>m, <1>4, <2>2 DEF Move
  <2> QED
    BY <2>1, <2>2
<1> QED
  BY <1>1, <1>2, <1>3, <1>4, <1>m DEF Settled, Move

\* Who writes into a settled inode or links it changes its stamp.
LEMMA ChangeKeeps ==
    ASSUME TypeOK, Shape, Change
    PROVE  Keeps
<1> SUFFICES ASSUME NEW i \in Inode, Settled(i)
             PROVE  /\ Settled(i)' /\ stamp'[i] \in Nat /\ stamp[i] <= stamp'[i]
                    /\ stamp'[i] = stamp[i] =>
                          content'[i] = content[i] /\ \A n \in Place : dir'[n] = i => dir[n] = i
  BY DEF Keeps
<1>c. Changes /\ UNCHANGED <<synced, pc, landed>>
  BY ChangeChanges DEF Change
<1>e. /\ events' = events + 1 /\ events' \in Added /\ events \in Nat
      /\ stamp[i] \in Nat /\ stamp[i] <= events /\ i # None
  BY LoadBound, Numbers, Basics DEF Change, Shape, Stamps
<1>1. i # events'
  BY <1>e, Numbers DEF Settled, Kept
<1>2. Settled(i)'
  <2>1. Kept(i)'
    <3>1. Kept(i) /\ landed' = landed /\ synced' = synced
      BY <1>c DEF Settled
    <3>2. i \in Added => i \in Nat
      BY Numbers
    <3> QED
      BY <1>e, <3>1, <3>2 DEF Kept
  <2>2. \A q \in Proc : Running(q)' => dir'[q] # i
    BY <1>c, <1>1 DEF Settled, Changes, Running
  <2> QED
    BY <2>1, <2>2 DEF Settled
<1>3. stamp'[i] = stamp[i] \/ stamp'[i] = events'
  BY <1>c DEF Changes
<1>4. ASSUME stamp'[i] = stamp[i] PROVE content'[i] = content[i]
  BY <1>c, <1>e, <1>4 DEF Changes
<1>5. ASSUME stamp'[i] = stamp[i], NEW n \in Place, dir'[n] = i PROVE dir[n] = i
  <2>1. \/ dir'[n] \in {dir[n], None}
        \/ dir'[n] = events'
        \/ dir'[n] = dir[File] /\ stamp'[dir[File]] = events'
    BY <1>c DEF Changes
  <2> QED
    BY <1>1, <1>5, <1>e, <2>1
<1> QED
  BY <1>2, <1>3, <1>4, <1>5, <1>e

LEMMA DamageKeeps ==
    ASSUME TypeOK, Shape, NEW p \in Proc, Damage(p)
    PROVE  Keeps
<1> SUFFICES ASSUME NEW i \in Inode, Settled(i)
             PROVE  Settled(i)' /\ content'[i] = content[i]
  BY Numbers DEF Keeps, Damage
<1>1. events' = events + 1 /\ events \in Nat
  BY LoadBound DEF Damage
<1>2. Kept(i)'
  BY <1>1, Numbers DEF Settled, Kept, Damage, past
<1>3. i # p
  BY OwnNotSettled DEF Damage, Late
<1> QED
  BY <1>2, <1>3, Domains DEF Settled, Running, Damage

LEMMA WriteBackKeeps ==
    ASSUME TypeOK, WriteBack
    PROVE  Keeps
BY Numbers DEF WriteBack, Keeps, Settled, Kept, Running, past, around

-----------------------------------------------------------------------------
(* A call that a step leaves alone.                                        *)

Rests(q) ==
    /\ pc'[q] = pc[q] /\ op'[q] = op[q] /\ result'[q] = result[q] /\ path'[q] = path[q]
    /\ seen'[q] = seen[q] /\ parts'[q] = parts[q] /\ expected'[q] = expected[q]
    /\ (agreed'[q] <=> agreed[q]) /\ (landed'[q] <=> landed[q])

LEMMA NameOfPlace ==
    ASSUME TypeOK, NEW q \in Proc, NEW r \in Role
    PROVE  NameOf(q, r) \in Place
BY Domains, Basics DEF NameOf

\* A name and a stamp that fit what the call saw have fitted before.
LEMMA NeverBack ==
    ASSUME TypeOK, Keeps, NEW q \in Proc, NEW r \in Role, Known(q, r), seen[q][r].inode # None,
           seen'[q] = seen[q], path'[q] = path[q], Unchanged(q, r)'
    PROVE  Unchanged(q, r)
<1> DEFINE i == seen[q][r].inode
           n == NameOf(q, r)
<1>1. i \in Inode /\ Settled(i) /\ seen[q][r].stamp <= stamp[i] /\ seen[q][r].stamp \in Nat
      /\ stamp[i] \in Nat
  BY Numbers DEF Known
<1>2. n \in Place /\ n' = n
  BY NameOfPlace DEF NameOf
<1>3. stamp'[i] = seen[q][r].stamp /\ dir'[n] = i
  BY <1>2 DEF Unchanged
<1>4. stamp[i] <= stamp'[i]
  BY <1>1 DEF Keeps
<1>5. stamp'[i] = stamp[i]
  BY <1>1, <1>3, <1>4
<1>6. dir[n] = i
  BY <1>1, <1>2, <1>3, <1>5 DEF Keeps
<1> QED
  BY <1>3, <1>5, <1>6 DEF Unchanged

\* What was true of an inode by its stamp stays true by its stamp.
LEMMA KnownStays ==
    ASSUME TypeOK, Keeps, NEW q \in Proc, NEW r \in Role, Known(q, r), seen'[q][r] = seen[q][r]
    PROVE  Known(q, r)'
<1> SUFFICES ASSUME seen[q][r].inode # None PROVE Known(q, r)'
  BY DEF Known
<1> DEFINE i == seen[q][r].inode
<1>1. i \in Inode /\ Settled(i) /\ seen[q][r].stamp <= stamp[i] /\ seen[q][r].stamp \in Nat
      /\ stamp[i] \in Nat
      /\ (seen[q][r].stamp = stamp[i] => content[i] = seen[q][r].content)
  BY Numbers DEF Known
<1>2. /\ Settled(i)' /\ stamp'[i] \in Nat /\ stamp[i] <= stamp'[i]
      /\ stamp'[i] = stamp[i] => content'[i] = content[i]
  BY <1>1 DEF Keeps
<1>3. /\ seen[q][r].stamp <= stamp'[i]
      /\ seen[q][r].stamp = stamp'[i] => stamp'[i] = stamp[i]
  BY <1>1, <1>2
<1> QED
  BY <1>1, <1>2, <1>3 DEF Known

LEMMA ViewsRest ==
    ASSUME TypeOK, Keeps, NEW q \in Proc, Views(q), Rests(q)
    PROVE  Views(q)'
<1>1. /\ pc'[q] = pc[q] /\ op'[q] = op[q] /\ seen'[q] = seen[q] /\ parts'[q] = parts[q]
      /\ Running(q)' = Running(q)
  BY DEF Rests, Running
<1>2. pc[q] = "idle" => parts[q] = <<>> /\ \A r \in Role : seen[q][r].inode = None
  BY DEF Views
<1>3. Running(q) => \A r \in Role : Known(q, r)'
  BY <1>1, KnownStays DEF Views
<1>4. Running(q) => Opened(q)'
  BY <1>1 DEF Views, Opened
<1>5. ASSUME Running(q) PROVE Reads(q)'
  <2>0. PICK i : i = seen[q]["file"].inode
    OBVIOUS
  <2>1. Reads(q) /\ Known(q, "file") /\ Opened(q)
    BY <1>5, Basics DEF Views
  <2>2. op[q] # "keygen" /\ pc[q] \in Looking => i # None
    BY <2>0, <2>1 DEF Opened, Looking
  <2>3. ASSUME i # None, seen[q]["file"].stamp = stamp'[i]
        PROVE  seen[q]["file"].stamp = stamp[i] /\ Bytes(i)' = Bytes(i)
    <3>1. /\ i \in Inode /\ Settled(i) /\ seen[q]["file"].stamp <= stamp[i]
          /\ seen[q]["file"].stamp \in Nat /\ stamp[i] \in Nat
      BY <2>0, <2>1, <2>3, Numbers, Basics DEF Known
    <3>2. /\ stamp[i] <= stamp'[i]
          /\ stamp'[i] = stamp[i] => content'[i] = content[i]
      BY <3>1 DEF Keeps
    <3>3. stamp'[i] = stamp[i]
      BY <2>3, <3>1, <3>2
    <3>4. content'[i] = content[i]
      BY <3>2, <3>3
    <3> QED
      BY <2>3, <3>3, <3>4 DEF Bytes
  <2>4. (seen[q]["file"].inode)' = i
    BY <1>1, <2>0
  <2> QED
    BY <1>1, <2>0, <2>1, <2>2, <2>3, <2>4 DEF Reads
<1> QED
  BY <1>1, <1>2, <1>3, <1>4, <1>5 DEF Views

LEMMA MomentRests ==
    ASSUME TypeOK, Keeps, NEW q \in Proc, Control(q), Views(q), Moment(q), Rests(q)
    PROVE  Moment(q)'
<1>1. /\ pc'[q] = pc[q] /\ op'[q] = op[q] /\ seen'[q] = seen[q] /\ parts'[q] = parts[q]
      /\ path'[q] = path[q] /\ result'[q] = result[q]
      /\ (agreed'[q] <=> agreed[q]) /\ (landed'[q] <=> landed[q])
      /\ Matches(q)' = Matches(q)
  BY DEF Rests, Matches
<1>2. ASSUME pc[q] \in {"looktag", "lookkey", "lastkey"}
      PROVE  /\ Unchanged(q, "key")' => Unchanged(q, "key")
             /\ op[q] = "verify" /\ Unchanged(q, "sidecar")' => Unchanged(q, "sidecar")
  <2>1. op[q] # "keygen" /\ Running(q)
    BY <1>2 DEF Control, StepsOf, Order, Late, Running
  <2>2. Known(q, "key") /\ Known(q, "sidecar") /\ Opened(q)
    BY <2>1, Basics DEF Views
  <2>3. seen[q]["key"].inode # None /\ (op[q] = "verify" => seen[q]["sidecar"].inode # None)
    BY <1>2, <2>1, <2>2 DEF Opened
  <2> QED
    BY <1>1, <2>2, <2>3, NeverBack, Basics
<1>3. pc[q] = "looktag" => op[q] = "verify"
  BY DEF Control, StepsOf, Order, Late, Ops
<1> QED
  BY <1>1, <1>2, <1>3 DEF Moment

LEMMA TargetRests ==
    ASSUME TypeOK, Keeps, NEW q \in Proc, Views(q), Target(q), Rests(q),
           ~missed'[q] => ~missed[q] /\ \A n \in Place : dir'[n] = dir[n]
    PROVE  Target(q)'
<1>1. /\ pc'[q] = pc[q] /\ op'[q] = op[q] /\ path'[q] = path[q] /\ expected'[q] = expected[q]
      /\ Destination(q)' = Destination(q) /\ Destination(q) \in Place /\ Running(q)' = Running(q)
  BY Domains, Basics DEF Rests, Destination, Running
<1>2. Running(q) /\ expected[q] # None => Settled(expected[q])'
  BY <1>1, Numbers DEF Target, Keeps
<1>3. ASSUME pc[q] = "create", expected[q] # None, NEW r \in {"file", "key"}, Unchanged(q, r)'
      PROVE  Unchanged(q, r)
  <2>1. op[q] = "replace" /\ Running(q)
    BY <1>3 DEF Target, Running
  <2>2. Known(q, r) /\ seen[q][r].inode # None
    BY <1>3, <2>1, Basics DEF Views, Opened
  <2> QED
    BY <1>3, <2>2, NeverBack, Basics DEF Rests
<1>4. pc[q] = "rename" /\ expected[q] # None /\ ~missed'[q] => dir'[Destination(q)] = expected[q]
  BY <1>1 DEF Target
<1> QED
  BY <1>1, <1>2, <1>3, <1>4 DEF Target

LEMMA ControlRests ==
    ASSUME NEW q \in Proc, Control(q), Rests(q)
    PROVE  Control(q)'
BY DEF Control, Rests, StepsOf

LEMMA LandedRests ==
    ASSUME NEW q \in Proc, Landed(q), Rests(q), touched \subseteq touched'
    PROVE  Landed(q)'
BY DEF Landed, Rests

LEMMA BytewiseRests ==
    ASSUME NEW q \in Proc, Bytewise(q), Rests(q),
           Vouches(q) /\ stamp'[q] = 0 => stamp[q] = 0 /\ content'[q] = content[q]
    PROVE  Bytewise(q)'
BY DEF Bytewise, Vouches, KindOf, Rests

-----------------------------------------------------------------------------
(* What the surroundings do.                                               *)

LEMMA ChangeShape ==
    ASSUME TypeOK, Shape, Change
    PROVE  Shape'
<1>k. Keeps /\ Changes
  BY ChangeKeeps, ChangeChanges
<1>e. events' = events + 1 /\ events \in Nat /\ events' \in Added
  BY LoadBound DEF Change
<1>u. /\ dirDisk' = dirDisk /\ synced' = synced /\ pc' = pc /\ result' = result /\ op' = op
      /\ path' = path /\ seen' = seen /\ parts' = parts /\ expected' = expected
      /\ agreed' = agreed /\ landed' = landed
  BY DEF Change, jobs
<1>m. missed' = [p \in Proc |-> TRUE]
  BY DEF Change
<1>t. \A p \in Proc : Temporary(p)
  BY DEF Shape
<1>f. /\ \A p \in Proc : dir[p] # events' /\ dirDisk[p] # events'
      /\ ~Kept(events')
  BY <1>t, <1>e, Numbers, Basics DEF Temporary, Kept
<1>1. Names'
  <2>1. ASSUME NEW n \in Place, NEW i \in Inode, dir'[n] = i PROVE Settled(i)'
    <3>1. CASE \E m \in Place : i = dir[m]
      BY <1>k, <3>1, Basics DEF Keeps, Shape, Names
    <3>2. CASE i = events' /\ \A p \in Proc : dir'[p] = dir[p]
      BY <1>e, <1>f, <3>2, Basics DEF Settled, Kept
    <3> QED
      BY <1>k, <2>1, <3>1, <3>2, Basics DEF Changes
  <2>2. ASSUME NEW n \in Place, NEW i \in Inode, dirDisk'[n] = i PROVE Kept(i)'
    <3>1. Kept(i)
      BY <1>u, <2>2, Basics DEF Shape, Names
    <3>2. i \in Added => i \in Nat
      BY Numbers
    <3> QED
      BY <1>u, <1>e, <3>1, <3>2 DEF Kept
  <2>3. \A n \in Place : dir'[n] \in Inode \cup {None} /\ dirDisk'[n] \in Inode \cup {None}
    <3>1. dir' \in [Name -> Inode \cup {None}] /\ dirDisk' \in [Name -> Inode \cup {None}]
      BY ChangeTypes, Zenon DEF TypeOK
    <3> QED
      BY <3>1, Basics
  <2> QED
    BY <2>1, <2>2, <2>3 DEF Names, Settled, Kept, Running
<1>2. Stamps'
  BY <1>k, <1>e, Numbers DEF Shape, Stamps, Changes
<1> SUFFICES ASSUME NEW p \in Proc
             PROVE  /\ Control(p)' /\ Temporary(p)' /\ Views(p)' /\ Moment(p)'
                    /\ Target(p)' /\ Bytewise(p)' /\ Landed(p)' /\ Durable(p)'
  BY <1>1, <1>2 DEF Shape
<1>r. Rests(p)
  BY <1>u DEF Rests
<1>s. /\ Control(p) /\ Views(p) /\ Moment(p) /\ Target(p) /\ Bytewise(p) /\ Landed(p)
      /\ Durable(p)
  BY DEF Shape
<1>3. Control(p)' /\ Views(p)' /\ Moment(p)'
  BY <1>k, <1>r, <1>s, ControlRests, ViewsRest, MomentRests
<1>4. Target(p)'
  BY <1>k, <1>m, <1>r, <1>s, TargetRests
<1>5. Landed(p)'
  BY <1>k, <1>r, <1>s, LandedRests DEF Changes
<1>6. Bytewise(p)'
  <2>1. stamp'[p] = 0 => stamp[p] = 0 /\ content'[p] = content[p]
    BY <1>k, <1>e, Basics DEF Changes
  <2> QED
    BY <1>r, <1>s, <2>1, BytewiseRests
<1>7. Temporary(p)'
  <2>0. \A i \in Added : i <= events => i <= events'
    BY <1>e, Numbers
  <2>1. /\ dir[p] \in {p, None} \cup Added
        /\ (dir[p] \in Added => dir[p] <= events /\ p \in touched)
        /\ dirDisk[p] \in {p, None} \cup Added
        /\ (dirDisk[p] \in Added => dirDisk[p] <= events /\ p \in touched)
        /\ touched \subseteq touched'
    BY <1>k, <1>t DEF Temporary, Changes
  <2>2. \/ dir'[p] = dir[p]
        \/ dir[p] = p /\ dir'[p] = events' /\ \A q \in Proc : q # p => dir'[q] = dir[q]
    BY <1>k DEF Changes
  <2>3. /\ dir'[p] \in {p, None} \cup Added
        /\ (dir'[p] \in Added => dir'[p] <= events' /\ p \in touched')
    <3>1. CASE dir'[p] = dir[p]
      BY <2>0, <2>1, <3>1
    <3>2. CASE dir'[p] = events' /\ dir[p] = p
      <4>1. p # events'
        BY <1>e, Basics
      <4> QED
        BY <1>e, <1>k, <3>2, <4>1, Basics DEF Changes
    <3> QED
      BY <2>2, <3>1, <3>2
  <2>4. dirDisk'[p] \in Added => dirDisk'[p] <= events' /\ p \in touched'
    BY <2>0, <1>u, <2>1
  <2>5. /\ pc'[p] = "idle" => dir'[p] = None /\ dirDisk'[p] = None
        /\ Running(p)' /\ landed'[p] => dir'[p] = None
    BY <1>t, <1>u, <2>2, Basics DEF Temporary, Running
  <2>6. \A q \in Proc : q # p /\ dir'[q] = dir'[p] => dir'[p] = None
    BY <1>f, <1>k, <1>t, <2>2 DEF Temporary, Changes
  <2>7. /\ \A q \in Proc : q # p /\ dirDisk'[q] = dirDisk'[p] => dirDisk'[p] = None
        /\ (pc'[p] \in Written => p \in synced') /\ (landed'[p] => p \in synced')
        /\ dirDisk'[p] \in {p, None} \cup Added
    BY <1>t, <1>u DEF Temporary
  <2> QED
    BY <2>3, <2>4, <2>5, <2>6, <2>7 DEF Temporary
<1>8. Durable(p)'
  <2>1. Destination(p)' = Destination(p) /\ Heirs(p)' = Heirs(p) /\ Destination(p) \in Name
    BY <1>u, Domains, Basics DEF Destination, Heirs
  <2>2. ASSUME (touched \cap (Proc \cup {Destination(p)}) = {})'
        PROVE  touched \cap (Proc \cup {Destination(p)}) = {}
               /\ dir'[Destination(p)] = dir[Destination(p)]
    BY <1>k, <2>1, <2>2 DEF Changes
  <2> QED
    BY <1>u, <1>s, <2>1, <2>2 DEF Durable
<1> QED
  BY <1>3, <1>4, <1>5, <1>6, <1>7, <1>8

LEMMA DamageShape ==
    ASSUME TypeOK, Shape, NEW d \in Proc, Damage(d)
    PROVE  Shape'
<1>k. Keeps
  BY DamageKeeps
<1>e. events' = events + 1 /\ events \in Nat
  BY LoadBound DEF Damage
<1>u. /\ dir' = dir /\ dirDisk' = dirDisk /\ synced' = synced /\ stamp' = stamp /\ pc' = pc
      /\ result' = result /\ op' = op /\ path' = path /\ seen' = seen /\ parts' = parts
      /\ expected' = expected /\ agreed' = agreed /\ landed' = landed /\ missed' = missed
      /\ touched' = touched
  BY DEF Damage, jobs, past
<1>n. \A i \in Added : i <= events => i <= events'
  BY <1>e, Numbers
<1>0. \A i : Kept(i) => Kept(i)'
  BY <1>n, <1>u DEF Kept
<1>1. Names'
  BY <1>n, <1>u DEF Shape, Names, Settled, Running, Kept
<1>2. Stamps'
  BY <1>e, <1>u, Numbers DEF Shape, Stamps
<1> SUFFICES ASSUME NEW p \in Proc
             PROVE  /\ Control(p)' /\ Temporary(p)' /\ Views(p)' /\ Moment(p)'
                    /\ Target(p)' /\ Bytewise(p)' /\ Landed(p)' /\ Durable(p)'
  BY <1>1, <1>2 DEF Shape
<1>r. Rests(p)
  BY <1>u DEF Rests
<1>s. /\ Control(p) /\ Temporary(p) /\ Views(p) /\ Moment(p) /\ Target(p) /\ Bytewise(p)
      /\ Landed(p) /\ Durable(p)
  BY DEF Shape
<1>3. Control(p)' /\ Views(p)' /\ Moment(p)' /\ Target(p)' /\ Landed(p)'
  BY <1>k, <1>r, <1>s, <1>u, ControlRests, ViewsRest, MomentRests, TargetRests, LandedRests
<1>4. Bytewise(p)'
  <2>1. Vouches(p) => p # d
    BY <1>s DEF Damage, Vouches, Control, Rechecked, Late
  <2> QED
    BY <1>r, <1>s, <1>u, <2>1, BytewiseRests, Domains, Basics DEF Damage
<1>5. Temporary(p)'
  BY <1>n, <1>s, <1>u DEF Temporary, Running
<1>6. Durable(p)'
  BY <1>s, <1>u DEF Durable, Destination, Heirs
<1> QED
  BY <1>3, <1>4, <1>5, <1>6

LEMMA WriteBackShape ==
    ASSUME TypeOK, Shape, WriteBack
    PROVE  Shape'
<1>k. Keeps
  BY WriteBackKeeps
<1>u. /\ dir' = dir /\ dirDisk' = dir /\ synced' = synced /\ stamp' = stamp /\ pc' = pc
      /\ result' = result /\ op' = op /\ path' = path /\ seen' = seen /\ parts' = parts
      /\ expected' = expected /\ agreed' = agreed /\ landed' = landed /\ missed' = missed
      /\ touched' = touched /\ events' = events /\ content' = content
  BY DEF WriteBack, jobs, past, around
<1>1. Names' /\ Stamps'
  BY <1>u DEF Shape, Names, Settled, Running, Kept, Stamps
<1> SUFFICES ASSUME NEW p \in Proc
             PROVE  /\ Control(p)' /\ Temporary(p)' /\ Views(p)' /\ Moment(p)'
                    /\ Target(p)' /\ Bytewise(p)' /\ Landed(p)' /\ Durable(p)'
  BY <1>1 DEF Shape
<1>r. Rests(p)
  BY <1>u DEF Rests
<1>s. /\ Control(p) /\ Temporary(p) /\ Views(p) /\ Moment(p) /\ Target(p) /\ Bytewise(p)
      /\ Landed(p) /\ Durable(p)
  BY DEF Shape
<1>3. Control(p)' /\ Views(p)' /\ Moment(p)' /\ Target(p)' /\ Landed(p)' /\ Bytewise(p)'
  BY <1>k, <1>r, <1>s, <1>u, ControlRests, ViewsRest, MomentRests, TargetRests, LandedRests,
     BytewiseRests
<1>5. Temporary(p)'
  BY <1>s, <1>u DEF Temporary, Running
<1>6. Durable(p)'
  BY <1>s, <1>u DEF Durable, Destination, Heirs
<1> QED
  BY <1>3, <1>5, <1>6

LEMMA PowerLossShape ==
    ASSUME TypeOK, Shape, PowerLoss
    PROVE  Shape'
<1>e. events' = events + 1 /\ events \in Nat
  BY LoadBound DEF PowerLoss
<1>u. /\ dir' = dirDisk /\ dirDisk' = dirDisk /\ synced' = synced /\ stamp' = stamp
      /\ op' = op /\ path' = path /\ seen' = seen /\ parts' = parts
      /\ expected' = expected /\ agreed' = agreed /\ landed' = landed /\ missed' = missed
      /\ touched' = touched
  BY DEF PowerLoss, jobs, past
<1>p. \A p \in Proc : /\ pc'[p] = IF Running(p) THEN "done" ELSE pc[p]
                      /\ result'[p] = IF Running(p) THEN "killed" ELSE result[p]
                      /\ ~Running(p)'
  BY DEF PowerLoss, Running
<1>n. \A i \in Added : i <= events => i <= events'
  BY <1>e, Numbers
<1>1. Names'
  BY <1>n, <1>u, <1>p DEF Shape, Names, Settled, Kept
<1>2. Stamps'
  BY <1>e, <1>u, Numbers DEF Shape, Stamps
<1> SUFFICES ASSUME NEW p \in Proc
             PROVE  /\ Control(p)' /\ Temporary(p)' /\ Views(p)' /\ Moment(p)'
                    /\ Target(p)' /\ Bytewise(p)' /\ Landed(p)' /\ Durable(p)'
  BY <1>1, <1>2 DEF Shape
<1>s. /\ Control(p) /\ Temporary(p) /\ Views(p) /\ Moment(p) /\ Target(p) /\ Bytewise(p)
      /\ Landed(p) /\ Durable(p)
  BY DEF Shape
<1>d. pc'[p] \in {"idle", "done"} /\ (pc'[p] = "idle" => pc[p] = "idle")
  BY <1>p DEF Running
<1>3. Control(p)'
  BY <1>d, <1>p, <1>s, <1>u DEF Control, Running, Late
<1>4. Views(p)'
  BY <1>d, <1>p, <1>s, <1>u DEF Views
<1>5. Moment(p)'
  BY <1>d, <1>p, <1>s, <1>u DEF Moment, Rechecked, Late
<1>6. Target(p)'
  BY <1>d, <1>p, <1>s, <1>u DEF Target
<1>7. Bytewise(p)'
  <2>1. Vouches(p)' => landed[p]
    BY <1>d, <1>u DEF Vouches, Rechecked, Late
  <2>2. landed[p] => content'[p] = content[p]
    BY <1>s, Basics DEF Temporary, PowerLoss
  <2> QED
    BY <1>s, <1>u, <2>1, <2>2 DEF Bytewise, Vouches, KindOf
<1>8. Landed(p)'
  BY <1>d, <1>p, <1>s, <1>u DEF Landed
<1>9. Temporary(p)'
  <2>1. pc'[p] \notin Written
    BY <1>d DEF Written, Rechecked, Late
  <2> QED
    BY <1>n, <1>d, <1>p, <1>s, <1>u, <2>1 DEF Temporary
<1>10. Durable(p)'
  BY <1>d, <1>p, <1>s, <1>u DEF Durable, Destination, Heirs, Running
<1> QED
  BY <1>3, <1>4, <1>5, <1>6, <1>7, <1>8, <1>9, <1>10

-----------------------------------------------------------------------------
(* What a step of a call does to the names and to other calls.             *)

LEMMA OwnLands ==
    ASSUME TypeOK, NEW p \in Proc, Lands(p)
    PROVE  /\ Destination(p) \in Place /\ dir[p] # None /\ dir'[p] = None
           /\ dir'[Destination(p)] = dir[p]
           /\ \A n \in Name : n \notin {p, Destination(p)} => dir'[n] = dir[n]
           /\ expected[p] = None => dir[Destination(p)] = None
<1>1. Destination(p) \in Place
  BY Domains, Basics DEF Destination
<1> QED
  BY <1>1, Domains, Basics DEF Lands, Land, Moved, CanMove

\* What a rename gives a name to is complete and on disk.
LEMMA OwnNames ==
    ASSUME TypeOK, Shape, NEW p \in Proc, Own(p)
    PROVE  Names' /\ Stamps'
<1>c. Control(p) /\ Temporary(p)
  BY DEF Shape
<1>m. Move(p) /\ Apart(p) /\ Writes(p) /\ Turns(p) /\ Keeps
  BY <1>c, OwnMoves, OwnApart, OwnWrites, OwnTurns, OwnKeeps
<1>0. ASSUME NEW i \in Inode, Kept(i) PROVE Kept(i)'
  BY <1>c, <1>m, <1>0, LandedGrows DEF Kept, Move, Writes
<1>1. ASSUME NEW n \in Place, NEW i \in Inode, dir'[n] = i PROVE Settled(i)'
  <2>1. CASE dir[n] = i
    BY <1>m, <2>1, Basics DEF Keeps, Shape, Names
  <2>2. CASE Lands(p) /\ i = dir[p]
    <3>1. Kept(i)'
      <4>1. p \in synced /\ synced \subseteq synced' /\ events' = events
        BY <1>c, <1>m, <2>2 DEF Temporary, Lands, Written, Rechecked, Writes, Move
      <4>2. i \in {p} \cup Added /\ (i \in Added => i <= events)
        BY <1>c, <2>2, Basics DEF Temporary
      <4>3. i = p => landed'[i]
        BY <1>c, <2>2, LandedGrows
      <4> QED
        BY <4>1, <4>2, <4>3, Basics DEF Kept
    <3>2. \A q \in Proc : dir'[q] # i
      BY <1>c, <1>m, <2>2, OwnLands, Basics DEF Temporary, Apart
    <3> QED
      BY <3>1, <3>2 DEF Settled
  <2> QED
    <3>1. dir'[n] # dir[n] => Lands(p) /\ n = Destination(p)
      BY <1>m, OwnLands, Basics DEF Move
    <3> QED
      BY <1>1, <2>1, <2>2, <3>1, OwnLands
<1>2. ASSUME NEW n \in Place, NEW i \in Inode, dirDisk'[n] = i PROVE Kept(i)'
  <2>1. CASE dirDisk' = dir'
    BY <1>1, <1>2, <2>1 DEF Settled
  <2>2. CASE dirDisk' = dirDisk
    BY <1>0, <1>2, <2>2, Basics DEF Shape, Names
  <2> QED
    BY <1>m, <2>1, <2>2 DEF Move
<1>3. \A n \in Place : dir'[n] \in Inode \cup {None} /\ dirDisk'[n] \in Inode \cup {None}
  <2>1. TypeFiles'
    BY <1>c, OwnFiles DEF Shape
  <2> QED
    BY <2>1, Basics DEF TypeFiles
<1>4. Names'
  BY <1>1, <1>2, <1>3 DEF Names, Settled, Kept, Running
<1>5. Stamps'
  BY <1>m DEF Move, Shape, Stamps
<1> QED
  BY <1>4, <1>5

LEMMA OwnTemporary ==
    ASSUME TypeOK, Shape, NEW p \in Proc, Own(p)
    PROVE  \A q \in Proc : Temporary(q)'
<1>t. \A q \in Proc : Control(q) /\ Temporary(q)
  BY DEF Shape
<1>m. Move(p) /\ Apart(p) /\ Writes(p) /\ Turns(p)
  BY <1>t, OwnMoves, OwnApart, OwnWrites, OwnTurns
<1>a. /\ touched' = touched /\ events' = events /\ synced \subseteq synced'
      /\ dirDisk' = dirDisk \/ dirDisk' = dir'
  BY <1>m DEF Move, Writes
<1>1. dir'[p] \in {dir[p], None} \/ (pc[p] = "create" /\ dir'[p] = p)
  BY <1>m, OwnLands DEF Move
<1>2. \A q \in Proc : q # p => dir'[q] = dir[q] /\ pc'[q] = pc[q] /\ (landed'[q] <=> landed[q])
  BY <1>m DEF Apart
<1>3. \A q \in Proc : /\ dir'[q] \in {q, None} \cup Added
                      /\ dir'[q] \in Added => q \in touched /\ dir'[q] <= events
  BY <1>t, <1>1, <1>2, Basics DEF Temporary
<1>4. \A q, r \in Proc : q # r /\ dir'[q] = dir'[r] => dir'[r] = None
  BY <1>t, <1>1, <1>2, Basics DEF Temporary
<1>5. \A q \in Proc : /\ dirDisk'[q] \in {q, None} \cup Added
                      /\ dirDisk'[q] \in Added => q \in touched /\ dirDisk'[q] <= events
                      /\ \A r \in Proc : q # r /\ dirDisk'[q] = dirDisk'[r] => dirDisk'[r] = None
  BY <1>t, <1>a, <1>3, <1>4 DEF Temporary
<1>6. \A q \in Proc : pc'[q] = "idle" => dir'[q] = None /\ dirDisk'[q] = None
  <2>1. pc'[p] # "idle"
    BY <1>t, <1>m DEF Turns, Goes, Control, Ops
  <2> QED
    BY <1>t, <1>a, <1>2, <2>1 DEF Temporary
<1>7. \A q \in Proc : Running(q)' /\ landed'[q] => dir'[q] = None
  <2>1. ASSUME Running(p)', landed'[p] PROVE dir'[p] = None
    <3>1. CASE Lands(p)
      BY <3>1, OwnLands
    <3>2. CASE ~Lands(p)
      <4>1. landed[p] /\ pc[p] \in Late /\ pc[p] # "done"
        BY <1>t, <1>m, <2>1, <3>2, LandedGrows DEF Control, Turns
      <4> QED
        BY <1>t, <1>1, <4>1 DEF Temporary, Running, Late
    <3> QED
      BY <3>1, <3>2
  <2> QED
    BY <1>t, <1>2, <2>1 DEF Temporary, Running
<1>8. \A q \in Proc : pc'[q] \in Written => q \in synced'
  <2>1. ASSUME pc'[p] \in Written PROVE p \in synced'
    <3>1. CASE pc[p] = "stage"
      BY <1>m, <2>1, <3>1 DEF Writes, Written, Rechecked, Late
    <3>2. CASE pc[p] \in Written
      BY <1>a, <1>t, <3>2 DEF Temporary
    <3> QED
      BY <1>t, <1>m, <2>1, <3>1, <3>2 DEF Turns, Goes, Written, Rechecked, Late, Ops, Control
  <2> QED
    BY <1>t, <1>a, <1>2, <2>1 DEF Temporary
<1>9. \A q \in Proc : landed'[q] => q \in synced'
  <2>1. Lands(p) => p \in synced
    BY <1>t DEF Temporary, Lands, Written, Rechecked
  <2> QED
    BY <1>t, <1>a, <2>1, LandedGrows DEF Temporary
<1> QED
  BY <1>a, <1>3, <1>4, <1>5, <1>6, <1>7, <1>8, <1>9 DEF Temporary

LEMMA OwnOthers ==
    ASSUME TypeOK, Shape, NEW p \in Proc, Own(p), NEW q \in Proc, q # p
    PROVE  /\ Control(q)' /\ Views(q)' /\ Moment(q)' /\ Target(q)' /\ Landed(q)'
           /\ Bytewise(q)'
<1>s. /\ Control(p)
      /\ Control(q) /\ Views(q) /\ Moment(q) /\ Target(q) /\ Landed(q) /\ Bytewise(q)
  BY DEF Shape
<1>m. Keeps /\ Move(p) /\ Apart(p) /\ Writes(p)
  BY <1>s, OwnKeeps, OwnMoves, OwnApart, OwnWrites
<1>r. Rests(q)
  BY <1>m DEF Apart, Rests
<1>1. Control(q)' /\ Views(q)' /\ Moment(q)'
  BY <1>s, <1>m, <1>r, ControlRests, ViewsRest, MomentRests
<1>2. Target(q)'
  <2>1. ~missed'[q] => ~missed[q] /\ \A n \in Place : dir'[n] = dir[n]
    BY <1>m DEF Apart, Move
  <2> QED
    BY <1>s, <1>m, <1>r, <2>1, TargetRests
<1>3. Landed(q)'
  BY <1>s, <1>m, <1>r, LandedRests DEF Move
<1>4. Bytewise(q)'
  <2>1. stamp'[q] = stamp[q] /\ content'[q] = content[q]
    BY <1>m, Domains, Basics DEF Move, Writes
  <2> QED
    BY <1>s, <1>r, <2>1, BytewiseRests
<1> QED
  BY <1>1, <1>2, <1>3, <1>4

\* An heir of a committed name can only be replaced by another heir.
LEMMA OwnDurable ==
    ASSUME TypeOK, Shape, NEW p \in Proc, Own(p), NEW q \in Proc
    PROVE  Durable(q)'
<1>s. /\ Control(p) /\ Temporary(p) /\ Target(p) /\ Control(q) /\ Durable(q)
  BY DEF Shape
<1>m. Move(p) /\ Apart(p) /\ Turns(p)
  BY <1>s, OwnMoves, OwnApart, OwnTurns
<1>p. pc[p] # "idle" => op'[p] = op[p] /\ path'[p] = path[p]
  BY <1>m DEF Turns
<1>q. pc[q] # "idle" => Destination(q)' = Destination(q) /\ op'[q] = op[q]
  BY <1>p, <1>m DEF Apart, Destination
<1>d. Destination(q) \in Place
  BY Domains, Basics DEF Destination
<1>h. Heirs(q) \subseteq Heirs(q)'
  <2>1. \A r \in Proc : landed[r] => landed'[r] /\ op'[r] = op[r]
    <3>1. \A r \in Proc : landed[r] => landed'[r] /\ pc[r] # "idle"
      BY <1>s, LandedGrows DEF Shape, Control, Late
    <3> QED
      BY <1>p, <1>m, <3>1 DEF Apart
  <2> QED
    BY <2>1 DEF Heirs
<1> SUFFICES ASSUME (touched \cap (Proc \cup {Destination(q)}) = {})'
             PROVE  /\ pc'[q] = "dirsync" \/ result'[q] = "committed"
                          => dir'[Destination(q)'] \in Heirs(q)'
                    /\ result'[q] = "committed" => dirDisk'[Destination(q)'] \in Heirs(q)'
  BY DEF Durable
<1>t. touched \cap Proc = {}
  BY <1>m DEF Move
\* What has had q's name as the destination keeps it or leaves it to an heir.
<1>1. ASSUME pc[q] # "idle", dir[Destination(q)] \in Heirs(q)
      PROVE  dir'[Destination(q)] \in Heirs(q)'
  <2>1. CASE Lands(p) /\ Destination(p) = Destination(q)
    <3>1. dir[Destination(q)] # None
      BY <1>1, Basics DEF Heirs
    <3>2. expected[p] # None
      BY <2>1, <3>1, OwnLands
    <3>3. op[p] = "replace" /\ pc[p] # "idle"
      BY <1>s, <2>1, <3>2 DEF Target, Lands
    <3>4. dir[p] = p
      BY <1>s, <1>t, <2>1, OwnLands DEF Temporary
    <3>5. landed'[p]
      BY <1>s, <2>1, <3>4, LandedGrows
    <3> QED
      BY <1>p, <2>1, <3>3, <3>4, <3>5, OwnLands DEF Heirs
  <2>2. CASE ~(Lands(p) /\ Destination(p) = Destination(q))
    <3>1. dir'[Destination(q)] = dir[Destination(q)]
      BY <1>m, <1>d, <2>2, OwnLands, Basics DEF Move
    <3> QED
      BY <1>1, <1>h, <3>1
  <2> QED
    BY <2>1, <2>2
<1>2. ASSUME pc[q] # "idle"
      PROVE  touched \cap (Proc \cup {Destination(q)}) = {}
  BY <1>2, <1>q, <1>m DEF Move
<1>3. CASE q # p
  <2>1. pc'[q] = pc[q] /\ result'[q] = result[q]
    BY <1>3, <1>m DEF Apart
  <2>2. pc[q] = "dirsync" \/ result[q] = "committed" => pc[q] # "idle"
    BY <1>s DEF Control
  <2>3. pc[q] = "dirsync" \/ result[q] = "committed"
           => /\ Destination(q)' = Destination(q) /\ dir[Destination(q)] \in Heirs(q)
              /\ dir'[Destination(q)] \in Heirs(q)'
    BY <1>1, <1>2, <1>q, <1>s, <2>2 DEF Durable
  <2>4. result[q] = "committed" => dirDisk'[Destination(q)] \in Heirs(q)'
    BY <1>2, <1>h, <1>m, <1>s, <2>2, <2>3 DEF Durable, Move
  <2> QED
    BY <2>1, <2>3, <2>4
<1>4. CASE q = p
  <2>1. pc'[p] = "dirsync" => dir'[Destination(p)'] \in Heirs(p)'
    <3>1. pc'[p] = "dirsync" => Lands(p) /\ pc[p] = "rename"
      BY <1>s, <1>m DEF Turns, Goes, Control, Ops
    <3>2. Lands(p) => dir[p] = p
      BY <1>s, <1>t, OwnLands DEF Temporary
    <3> QED
      BY <1>4, <1>q, <3>1, <3>2, OwnLands DEF Heirs
  <2>2. result'[p] = "committed" =>
           dir'[Destination(p)'] \in Heirs(p)' /\ dirDisk'[Destination(p)'] \in Heirs(p)'
    <3>1. result'[p] = "committed" => pc[p] = "dirsync" /\ dirDisk' = dir' /\ dir' = dir
      BY <1>s, <1>m DEF Turns, Control, Verdict
    <3> QED
      BY <1>2, <1>4, <1>h, <1>q, <1>s, <3>1 DEF Durable
  <2> QED
    BY <1>4, <2>1, <2>2
<1> QED
  BY <1>3, <1>4

-----------------------------------------------------------------------------
(* What a step of a call does to its own part of the invariant.            *)

LEMMA OwnControl ==
    ASSUME TypeOK, Shape, NEW p \in Proc, Own(p)
    PROVE  Control(p)'
<1>s. Control(p)
  BY DEF Shape
<1>m. Turns(p)
  BY <1>s, OwnTurns
<1>1. pc[p] # "idle" /\ pc[p] # "done" => op[p] \in Ops
  BY <1>s DEF Control
<1>2. op'[p] \in Ops
  BY <1>1, <1>m DEF Turns
<1>3. pc'[p] \notin (Late \ {"dirsync"}) \cup {"idle"} => pc'[p] \in StepsOf(op'[p])
  <2>1. CASE pc[p] = "idle"
    BY <1>m, <2>1, Starts DEF Turns, Late
  <2>2. CASE pc[p] # "idle" /\ Goes(op[p], pc[p], pc'[p])
    <3>1. op'[p] = op[p] /\ pc[p] # "done"
      BY <1>m, <2>2 DEF Turns
    <3>2. CASE op[p] = "keygen"
      BY <2>2, <3>1, <3>2 DEF Goes, StepsOf, Order, Late
    <3>3. CASE op[p] \in {"tag", "replace"}
      BY <2>2, <3>1, <3>3 DEF Goes, StepsOf, Order, Late
    <3>4. CASE op[p] = "verify"
      BY <2>2, <3>1, <3>4 DEF Goes, StepsOf, Order, Late
    <3> QED
      BY <1>1, <2>2, <3>1, <3>2, <3>3, <3>4 DEF Ops
  <2> QED
    BY <1>m, <2>1, <2>2 DEF Turns, Late
<1>4. pc'[p] \in Late \ {"done"} => op'[p] # "verify"
  BY <1>s, <1>1, <1>m DEF Turns, Goes, Control, Late, StepsOf, Order, Ops
<1>5. result'[p] # "none" => pc'[p] = "done"
  BY <1>s, <1>m DEF Turns, Control
<1>6. landed'[p] => pc'[p] \in Late /\ op'[p] # "verify"
  <2>1. CASE Lands(p)
    BY <1>s, <1>m, <2>1, AfterRename DEF Turns, Lands, Late
  <2>2. CASE ~Lands(p) /\ landed'[p]
    <3>1. landed[p] /\ pc[p] \in Late \ {"done"} /\ op[p] # "verify"
      BY <1>s, <1>m, <2>2, LandedGrows DEF Control, Turns
    <3> QED
      BY <1>1, <1>m, <3>1 DEF Turns, Goes, Late, Ops
  <2> QED
    BY <2>1, <2>2
<1> QED
  BY <1>2, <1>3, <1>4, <1>5, <1>6 DEF Control

\* After an error of the rename, both names tell whether it took effect.
LEMMA OwnLanded ==
    ASSUME TypeOK, Shape, NEW p \in Proc, Own(p)
    PROVE  Landed(p)'
<1>s. Control(p) /\ Landed(p) /\ Temporary(p)
  BY DEF Shape
<1>m. Turns(p) /\ Move(p)
  BY <1>s, OwnTurns, OwnMoves
<1>0. touched' = touched
  BY <1>m DEF Move
<1>1. pc'[p] = "kept" => ~landed'[p]
  BY <1>s, <1>m, Basics, LandedGrows DEF Turns, Goes, Control, Temporary, Running, Ops, Lands
<1>2. pc'[p] = "dirsync" => landed'[p] \/ p \in touched
  <2>1. pc'[p] = "dirsync" => Lands(p)
    BY <1>s, <1>m DEF Turns, Goes, Control, Ops
  <2>2. Lands(p) => dir[p] = p \/ p \in touched
    BY <1>s, OwnLands DEF Temporary
  <2> QED
    BY <1>s, <2>1, <2>2, LandedGrows
<1>3. pc'[p] = "dirsync_warned" => landed'[p]
  <2>1. pc'[p] = "dirsync_warned" => dir[Destination(p)] = p
    BY <1>m DEF Turns
  <2>2. dir[Destination(p)] = p => landed[p]
    <3>1. Destination(p) \in Place /\ p # None
      BY Domains, Basics DEF Destination
    <3> QED
      BY <3>1 DEF Shape, Names, Settled, Kept
  <2> QED
    BY <1>s, <2>1, <2>2, LandedGrows
<1>4. result'[p] = "error" => ~landed'[p]
  <2>1. result'[p] = "error" => ~landed[p] /\ pc[p] # "rename"
    BY <1>s, <1>m DEF Turns, Control, Landed, Late
  <2> QED
    BY <1>s, <2>1, LandedGrows DEF Lands
<1>5. result'[p] \in {"committed", "uncertain"} => landed'[p] \/ p \in touched
  <2>1. result'[p] \in {"committed", "uncertain"} => pc[p] \in {"dirsync", "dirsync_warned"}
    BY <1>s, <1>m DEF Turns, Control, Verdict
  <2> QED
    BY <1>s, <2>1, LandedGrows DEF Landed
<1> QED
  BY <1>0, <1>1, <1>2, <1>3, <1>4, <1>5 DEF Landed

\* What is published has been validated, or was made by keygen.
LEMMA OwnBytewise ==
    ASSUME TypeOK, Shape, NEW p \in Proc, Own(p)
    PROVE  Bytewise(p)'
<1>s. Control(p) /\ Bytewise(p) /\ Views(p)
  BY DEF Shape
<1>m. Turns(p) /\ Move(p) /\ Writes(p) /\ Checks(p)
  BY <1>s, OwnTurns, OwnMoves, OwnWrites, OwnChecks
<1> SUFFICES ASSUME Vouches(p)', stamp[p] = 0
             PROVE  content'[p].kind = KindOf(p)'
  BY <1>m DEF Bytewise, Move
<1>0. pc[p] # "idle"
  <2>1. pc[p] = "idle" => ~landed'[p]
    BY <1>s, LandedGrows DEF Control, Late, Lands
  <2> QED
    BY <1>m, <2>1 DEF Vouches, Turns, Rechecked, Late
<1>1. KindOf(p)' = KindOf(p) /\ op[p] \in Ops
  BY <1>s, <1>m, <1>0 DEF KindOf, Turns, Control
<1>2. CASE pc[p] = "stage"
  <2>1. pc'[p] = "validate" /\ op[p] = "keygen"
    <3>1. ~landed'[p]
      BY <1>s, <1>2, LandedGrows DEF Control, Late, Lands
    <3> QED
      BY <1>m, <1>1, <1>2, <3>1 DEF Vouches, Turns, Goes, Rechecked, Late, Ops
  <2> QED
    BY <1>m, <1>1, <1>2, <2>1, Domains, Basics DEF Writes, Output, KeyFile, KindOf
<1>3. CASE pc[p] = "validate" /\ op[p] # "keygen"
  <2>1. pc'[p] = "lastfile"
    <3>1. ~landed'[p]
      BY <1>s, <1>3, LandedGrows DEF Control, Late, Lands
    <3> QED
      BY <1>m, <1>1, <1>3, <3>1 DEF Vouches, Turns, Goes, Rechecked, Late, Ops
  <2>2. content'[p] = Output(p)
    BY <1>m, <1>3, <2>1 DEF Checks, Writes
  <2>3. parts[p][1] = parts[p][2]
    BY <1>s, <1>3 DEF Views, Running, Reads, Unread
  <2> QED
    BY <1>1, <1>3, <2>2, <2>3 DEF Output, TagFor, KindOf
<1>4. CASE pc[p] # "stage" /\ ~(pc[p] = "validate" /\ op[p] # "keygen")
  <2>1. Vouches(p)
    <3>1. CASE landed'[p]
      BY <1>s, <3>1, LandedGrows DEF Vouches, Lands, Rechecked
    <3>2. CASE ~landed'[p]
      BY <1>m, <1>1, <1>0, <1>4, <3>2 DEF Vouches, Turns, Goes, Rechecked, Late, Ops
    <3> QED
      BY <3>1, <3>2
  <2>2. content' = content
    BY <1>m, <1>4 DEF Writes
  <2> QED
    BY <1>s, <1>1, <2>1, <2>2 DEF Bytewise
<1> QED
  BY <1>2, <1>3, <1>4

LEMMA Appended ==
    ASSUME NEW s \in Seq(Text), NEW x
    PROVE  Len(Append(s, x)) = Len(s) + 1 /\ Len(<<>>) = 0
OBVIOUS

LEMMA OwnViews ==
    ASSUME TypeOK, Shape, NEW p \in Proc, Own(p)
    PROVE  Views(p)'
<1>s. Control(p) /\ Views(p)
  BY DEF Shape
<1>m. Keeps /\ Turns(p) /\ Writes(p) /\ Move(p) /\ Learns(p) /\ Checks(p)
  BY <1>s, OwnKeeps, OwnTurns, OwnWrites, OwnMoves, OwnLearns, OwnChecks
<1>i. pc'[p] # "idle"
  BY <1>s, <1>m DEF Turns, Goes, Control, Ops
<1> SUFFICES ASSUME pc'[p] # "done"
             PROVE  (\A r \in Role : Known(p, r)') /\ Opened(p)' /\ Reads(p)'
  BY <1>i DEF Views, Running
<1>o. pc[p] # "idle" => Running(p) /\ op[p] \in Ops /\ op'[p] = op[p] /\ path'[p] = path[p]
  BY <1>s, <1>m DEF Turns, Running, Control
<1>1. ASSUME NEW r \in Role PROVE Known(p, r)'
  <2>1. CASE pc[p] = r
    <3> DEFINE i == dir[NameOf(p, r)]
    <3>1. i # None /\ seen'[p][r] = [inode |-> i, stamp |-> stamp[i], content |-> content[i]]
      BY <1>m, <2>1, Domains DEF Learns
    <3>2. i \in Inode /\ Settled(i)
      BY <3>1, NameOfPlace, Domains, Basics DEF Shape, Names
    <3>3. stamp'[i] = stamp[i] /\ stamp[i] \in Nat
      BY <1>m, <3>2, Numbers DEF Move
    <3>4. content'[i] = content[i]
      BY <1>m, <3>2, <3>3 DEF Keeps
    <3>5. PICK j : j = i
      OBVIOUS
    <3>6. Settled(j)'
      BY <1>m, <3>2, <3>5 DEF Keeps
    <3>7. /\ seen'[p][r].inode = j /\ seen'[p][r].stamp = stamp'[j]
          /\ seen'[p][r].content = content'[j] /\ stamp'[j] \in Nat
      BY <3>1, <3>3, <3>4, <3>5
    <3> QED
      BY <3>6, <3>7 DEF Known, Settled, Kept, Running
  <2>2. CASE pc[p] = "parse" /\ r = "sidecar"
    <3>1. PICK i : i = seen[p]["sidecar"].inode
      OBVIOUS
    <3>2. /\ seen'[p][r].inode = i /\ seen'[p][r].stamp = seen[p][r].stamp
          /\ seen'[p][r].content = content[i]
      <4>1. seen'[p] = [seen[p] EXCEPT !["sidecar"].content = content[i]]
        BY <1>m, <2>2, <3>1 DEF Learns, Role
      <4>2. seen[p] \in [Role -> View]
        BY TypeParted DEF TypeJobs
      <4>3. seen[p]["sidecar"] \in View
        BY <4>2, Basics
      <4>4. seen'[p]["sidecar"] = [seen[p]["sidecar"] EXCEPT !.content = content[i]]
        BY <4>1, <4>2, Basics
      <4> QED
        BY <2>2, <3>1, <4>3, <4>4 DEF View
    <3>3. SUFFICES ASSUME i # None PROVE Known(p, r)'
      BY <3>2 DEF Known
    <3>4. /\ i \in Inode /\ Settled(i) /\ seen[p][r].stamp <= stamp[i]
          /\ stamp'[i] = stamp[i]
      <4>1. Known(p, r)
        BY <1>o, <1>s, <2>2 DEF Views
      <4> QED
        BY <1>m, <2>2, <3>1, <3>3, <4>1, Numbers DEF Known, Move
    <3>5. Settled(i)' /\ content'[i] = content[i]
      BY <1>m, <3>4 DEF Keeps
    <3> QED
      BY <3>2, <3>4, <3>5 DEF Known, Settled, Kept, Running
  <2>3. CASE pc[p] # r /\ ~(pc[p] = "parse" /\ r = "sidecar")
    <3>1. seen'[p][r] = seen[p][r]
      <4>1. seen[p] \in [Role -> View]
        BY TypeParted DEF TypeJobs
      <4> QED
        BY <1>m, <2>3, <4>1 DEF Learns, Role
    <3>2. CASE pc[p] = "idle"
      BY <1>s, <3>1, <3>2 DEF Views, Known
    <3>3. CASE pc[p] # "idle"
      BY <1>m, <1>o, <1>s, <3>1, <3>3, KnownStays DEF Views
    <3> QED
      BY <3>2, <3>3
  <2> QED
    BY <2>1, <2>2, <2>3
<1>2. ASSUME NEW r \in Role
      PROVE  /\ pc[p] = r => /\ seen'[p][r].inode # None
                             /\ seen'[p][r].content = content[dir[NameOf(p, r)]]
             /\ seen[p][r].inode # None => seen'[p][r].inode # None
             /\ pc[p] # r /\ r # "sidecar" => seen'[p][r] = seen[p][r]
  <2>1. seen[p] \in [Role -> View] /\ seen[p]["sidecar"] \in View
    BY TypeParted, Basics DEF TypeJobs
  <2>2. CASE pc[p] = r
    BY <1>m, <2>1, <2>2 DEF Learns
  <2>3. CASE pc[p] = "parse" /\ r = "sidecar"
    <3>1. seen'[p]["sidecar"] =
             [seen[p]["sidecar"] EXCEPT !.content = content[seen[p]["sidecar"].inode]]
      BY <1>m, <2>1, <2>3, Basics DEF Learns
    <3>2. seen'[p]["sidecar"].inode = seen[p]["sidecar"].inode
      BY <2>1, <3>1 DEF View
    <3> QED
      BY <2>3, <3>2
  <2>4. CASE pc[p] # r /\ ~(pc[p] = "parse" /\ r = "sidecar")
    BY <1>m, <2>1, <2>4, Basics DEF Learns
  <2> QED
    BY <2>2, <2>3, <2>4
<1>3. Opened(p)'
  <2>0. "file" \in Role /\ "key" \in Role /\ "sidecar" \in Role
    BY Basics
  <2>1. CASE pc[p] = "idle"
    BY <1>m, <2>1 DEF Turns, Opened
  <2>2. CASE pc[p] # "idle"
    <3>1. /\ Opened(p) /\ op'[p] = op[p] /\ op[p] \in Ops
          /\ \/ Goes(op[p], pc[p], pc'[p])
             \/ pc[p] \in Late \cup {"rename"}
      BY <1>m, <1>o, <1>s, <2>2 DEF Turns, Views, Late
    <3>2. op'[p] # "keygen" /\ pc'[p] # "file" => seen'[p]["file"].inode # None
      BY <1>2, <2>0, <3>1 DEF Opened, Goes, Ops, Late
    <3>3. pc[p] = "key" => content[dir[NameOf(p, "key")]].kind = "key"
      BY <1>m, <2>0 DEF Learns, Suitable
    <3>4. op'[p] # "keygen" /\ pc'[p] \notin {"file", "sidecar", "key"}
             => seen'[p]["key"].inode # None /\ seen'[p]["key"].content.kind = "key"
      BY <1>2, <2>0, <3>1, <3>3 DEF Opened, Goes, Ops, Late
    <3>5. op'[p] = "verify" /\ pc'[p] \notin {"file", "sidecar"}
             => seen'[p]["sidecar"].inode # None
      BY <1>2, <2>0, <3>1 DEF Opened, Goes, Ops, Late
    <3> QED
      BY <3>2, <3>4, <3>5 DEF Opened
  <2> QED
    BY <2>1, <2>2
<1>4. Reads(p)'
  <2>1. CASE pc[p] = "idle"
    <3>1. parts'[p] = <<>> /\ pc'[p] \in Unread /\ pc'[p] # "read2"
      BY <1>m, <1>s, <2>1 DEF Turns, Learns, Views, Unread
    <3> QED
      BY <3>1 DEF Reads, Unread
  <2>2. CASE pc[p] # "idle"
    <3>1. /\ Opened(p) /\ Reads(p) /\ Known(p, "file") /\ op'[p] = op[p] /\ op[p] \in Ops
          /\ parts[p] \in Seq(Text)
      BY <1>o, <1>s, <2>2, TypeParted, Basics DEF Views, TypeJobs
    <3>2. \/ Goes(op[p], pc[p], pc'[p])
          \/ pc'[p] \in Late /\ pc[p] \in Late \cup {"rename"}
      BY <1>m, <2>2 DEF Turns, Late
    <3>3. PICK i : i = seen[p]["file"].inode
      OBVIOUS
    <3>4. pc[p] # "file" => /\ seen'[p]["file"] = seen[p]["file"] /\ stamp' = stamp
                            /\ (op[p] # "keygen" => Bytes(i)' = Bytes(i))
      <4>1. pc[p] # "file" => seen'[p]["file"] = seen[p]["file"]
        BY <1>2, Basics
      <4>2. pc[p] # "file" /\ op[p] # "keygen" => i \in Inode /\ Settled(i)
        BY <3>1, <3>3, Numbers, Basics DEF Opened, Known
      <4>3. pc[p] # "file" /\ op[p] # "keygen" => content'[i] = content[i]
        BY <1>m, <4>2 DEF Keeps, Move
      <4> QED
        BY <1>m, <4>1, <4>3 DEF Bytes, Move
    <3>5. \/ pc[p] \in {"read1", "read2"} /\ parts'[p] = Append(parts[p], Bytes(i))
          \/ pc[p] \notin {"read1", "read2"} /\ parts'[p] = parts[p]
      BY <1>m, <3>3 DEF Learns
    <3>6. pc'[p] \in Unread => parts'[p] = <<>>
      BY <3>1, <3>2, <3>5 DEF Reads, Goes, Ops, Unread, Late
    <3>7. /\ pc'[p] = "read2" => Len(parts'[p]) = 1
          /\ op[p] # "keygen" /\ pc'[p] \notin Unread \cup {"read2"} => Len(parts'[p]) = 2
      <4>1. CASE pc[p] = "read1"
        <5>1. parts[p] = <<>>
          BY <3>1, <4>1 DEF Reads, Unread
        <5>2. parts'[p] = Append(parts[p], Bytes(i))
          BY <3>5, <4>1
        <5>3. Len(Append(parts[p], Bytes(i))) = Len(parts[p]) + 1 /\ Len(<<>>) = 0
          BY <3>1, Appended
        <5>4. Len(parts'[p]) = 1
          BY <5>1, <5>2, <5>3
        <5> QED
          BY <3>1, <3>2, <4>1, <5>4 DEF Goes, Late, Ops
      <4>2. CASE pc[p] = "read2"
        <5>1. Len(parts[p]) = 1
          BY <3>1, <4>2 DEF Reads
        <5>2. parts'[p] = Append(parts[p], Bytes(i))
          BY <3>5, <4>2
        <5>3. Len(Append(parts[p], Bytes(i))) = Len(parts[p]) + 1 /\ Len(<<>>) = 0
          BY <3>1, Appended
        <5>4. Len(parts'[p]) = 2
          BY <5>1, <5>2, <5>3
        <5> QED
          BY <3>1, <3>2, <4>2, <5>4 DEF Goes, Late, Ops
      <4>3. CASE pc[p] \notin {"read1", "read2"}
        <5>1. /\ pc'[p] # "read2"
              /\ op[p] # "keygen" /\ pc'[p] \notin Unread => pc[p] \notin Unread
          BY <3>1, <3>2, <4>3 DEF Goes, Late, Ops, Unread
        <5> QED
          BY <3>1, <3>5, <4>3, <5>1 DEF Reads
      <4> QED
        BY <4>1, <4>2, <4>3
    <3>8. ASSUME op[p] # "keygen", pc'[p] \in Looking, seen[p]["file"].stamp = stamp[i],
                 NEW k \in DOMAIN parts'[p]
          PROVE  parts'[p][k] = Bytes(i)
      <4>1. CASE pc[p] = "read1"
        <5>1. parts[p] = <<>>
          BY <3>1, <4>1 DEF Reads, Unread
        <5> QED
          BY <3>5, <3>8, <4>1, <5>1
      <4>2. CASE pc[p] = "read2"
        <5>1. Len(parts[p]) = 1 /\ \A l \in DOMAIN parts[p] : parts[p][l] = Bytes(i)
          BY <3>1, <3>3, <3>8, <4>2 DEF Reads, Looking
        <5> QED
          BY <3>1, <3>5, <3>8, <4>2, <5>1
      <4>3. CASE pc[p] \notin {"read1", "read2"}
        <5>1. pc[p] \in Looking
          BY <3>1, <3>2, <3>8, <4>3 DEF Goes, Late, Ops, Looking
        <5> QED
          BY <3>1, <3>3, <3>5, <3>8, <4>3, <5>1 DEF Reads
      <4> QED
        BY <4>1, <4>2, <4>3
    <3>9. ASSUME op[p] # "keygen", pc'[p] \notin Unread \cup {"read2", "lookfile"}
          PROVE  parts'[p][1] = parts'[p][2]
      <4>1. CASE pc[p] = "lookfile"
        <5>1. seen[p]["file"].stamp = stamp[i]
          BY <1>m, <3>3, <4>1 DEF Checks, Unchanged
        <5>2. Len(parts[p]) = 2 /\ \A l \in DOMAIN parts[p] : parts[p][l] = Bytes(i)
          BY <3>1, <3>3, <3>9, <4>1, <5>1 DEF Reads, Unread, Looking
        <5> QED
          BY <3>1, <3>5, <4>1, <5>2
      <4>2. CASE pc[p] # "lookfile"
        <5>1. pc[p] \notin Unread \cup {"read2", "lookfile"}
          BY <3>1, <3>2, <3>9, <4>2 DEF Goes, Late, Ops, Unread
        <5> QED
          BY <3>1, <3>5, <3>9, <5>1 DEF Reads, Unread
      <4> QED
        BY <4>1, <4>2
    <3>10. op[p] # "keygen" /\ pc'[p] \in Looking => pc[p] # "file"
      BY <3>1, <3>2 DEF Goes, Late, Ops, Looking
    <3>11. op'[p] # "keygen" /\ pc'[p] \in Looking
           /\ seen'[p]["file"].stamp = stamp'[seen'[p]["file"].inode] =>
              \A k \in DOMAIN parts'[p] : parts'[p][k] = Bytes(seen[p]["file"].inode)'
      <4>1. SUFFICES ASSUME op[p] # "keygen", pc'[p] \in Looking,
                            seen'[p]["file"].stamp = stamp'[seen'[p]["file"].inode]
                     PROVE  \A k \in DOMAIN parts'[p] : parts'[p][k] = Bytes(seen[p]["file"].inode)'
        BY <3>1
      <4>2. seen'[p]["file"].inode = i /\ seen[p]["file"].stamp = stamp[i] /\ Bytes(i)' = Bytes(i)
        BY <3>3, <3>4, <3>10, <4>1
      <4> QED
        BY <3>8, <4>1, <4>2 DEF Bytes
    <3> QED
      BY <3>1, <3>6, <3>7, <3>9, <3>11 DEF Reads
  <2> QED
    BY <2>1, <2>2
<1> QED
  BY <1>1, <1>3, <1>4

\* The looks that end a verification or precede a commit.
LEMMA LooksBack ==
    ASSUME TypeOK, Shape, NEW p \in Proc, Own(p), op[p] \in Ops \ {"keygen"},
           pc[p] \notin {"idle", "done", "file", "sidecar", "key", "parse"}
    PROVE  /\ Known(p, "file") /\ Known(p, "key") /\ seen'[p] = seen[p] /\ path'[p] = path[p]
           /\ seen[p]["file"].inode # None /\ seen[p]["key"].inode # None
           /\ seen[p]["key"].content.kind = "key"
           /\ op[p] = "verify" => Known(p, "sidecar") /\ seen[p]["sidecar"].inode # None
           /\ Unchanged(p, "key")' => Unchanged(p, "key")
           /\ op[p] = "verify" /\ Unchanged(p, "sidecar")' => Unchanged(p, "sidecar")
           /\ op'[p] = op[p]
<1>s. Control(p) /\ Views(p)
  BY DEF Shape
<1>m. Keeps /\ Turns(p) /\ Learns(p)
  BY <1>s, OwnKeeps, OwnTurns, OwnLearns
<1>1. Opened(p) /\ Known(p, "file") /\ Known(p, "key") /\ Known(p, "sidecar")
  BY <1>s, Basics DEF Views, Running
<1>2. /\ seen[p]["file"].inode # None /\ seen[p]["key"].inode # None
      /\ seen[p]["key"].content.kind = "key"
      /\ op[p] = "verify" => seen[p]["sidecar"].inode # None
  BY <1>1 DEF Opened
<1>3. seen'[p] = seen[p] /\ path'[p] = path[p] /\ op'[p] = op[p]
  BY <1>m DEF Turns, Learns, Role
<1> QED
  BY <1>1, <1>2, <1>3, <1>m, NeverBack, Basics

\* What a name that fits and a stamp that fits say of the bytes.
LEMMA Seen ==
    ASSUME TypeOK, NEW p \in Proc, NEW r \in Role, Known(p, r), seen[p][r].inode # None,
           Unchanged(p, r)
    PROVE  /\ dir[NameOf(p, r)] = seen[p][r].inode /\ dir[NameOf(p, r)] # None
           /\ content[dir[NameOf(p, r)]] = seen[p][r].content
BY DEF Known, Unchanged

\* Where the looks at the other names still fit, the three names are seen as
\* they were when the file was looked at.
LEMMA OwnMoment ==
    ASSUME TypeOK, Shape, NEW p \in Proc, Own(p)
    PROVE  Moment(p)'
<1>s. Control(p) /\ Views(p) /\ Moment(p)
  BY DEF Shape
<1>m. Keeps /\ Turns(p) /\ Learns(p) /\ Checks(p)
  BY <1>s, OwnKeeps, OwnTurns, OwnLearns, OwnChecks
<1>o. pc[p] # "idle" => op'[p] = op[p] /\ op[p] \in Ops
  BY <1>s, <1>m DEF Turns, Control
<1>g. \/ pc'[p] = "done"
      \/ pc[p] = "idle" /\ pc'[p] \in {"create", "file"}
      \/ pc[p] # "idle" /\ Goes(op[p], pc[p], pc'[p])
      \/ pc[p] \in Late \cup {"rename"} /\ pc'[p] \in Late
  BY <1>m DEF Turns, Late
<1>l. ASSUME pc[p] \in {"lookfile", "lastfile"}, pc'[p] # "done", op[p] # "keygen"
      PROVE  /\ dir[File] # None /\ Len(parts[p]) = 2
             /\ parts[p][1] = Bytes(dir[File]) /\ parts[p][2] = Bytes(dir[File])
  <2>1. Unchanged(p, "file") /\ Known(p, "file") /\ seen[p]["file"].inode # None
    BY <1>l, <1>m, <1>o, LooksBack DEF Checks
  <2>2. dir[File] = seen[p]["file"].inode /\ dir[File] # None
        /\ seen[p]["file"].stamp = stamp[seen[p]["file"].inode]
    BY <2>1 DEF Unchanged, NameOf
  <2>3. Reads(p)
    BY <1>s, <1>l DEF Views, Running
  <2>4. Len(parts[p]) = 2
    BY <1>l, <2>3 DEF Reads, Unread
  <2>5. \A k \in DOMAIN parts[p] : parts[p][k] = Bytes(dir[File])
    BY <1>l, <2>2, <2>3 DEF Reads, Looking
  <2>6. parts[p] \in Seq(Text)
    BY TypeParted DEF TypeJobs
  <2> QED
    BY <2>2, <2>4, <2>5, <2>6
<1>1. ASSUME pc'[p] = "looktag", Unchanged(p, "sidecar")', Unchanged(p, "key")'
      PROVE  agreed'[p] <=> Matches(p)'
  <2>1. pc[p] = "lookfile" /\ op[p] = "verify"
    BY <1>1, <1>g, <1>o DEF Goes, Ops, Late
  <2>2. /\ Unchanged(p, "key") /\ Unchanged(p, "sidecar") /\ seen'[p] = seen[p]
        /\ Known(p, "key") /\ Known(p, "sidecar") /\ seen[p]["key"].inode # None
        /\ seen[p]["sidecar"].inode # None /\ seen[p]["key"].content.kind = "key"
    BY <1>1, <1>o, <2>1, LooksBack DEF Ops
  <2>3. agreed'[p] <=> Agree(p)
    BY <1>1, <1>m, <2>1 DEF Checks
  <2>4. /\ dir[Key] # None /\ content[dir[Key]] = seen[p]["key"].content
        /\ dir[path[p]] # None /\ content[dir[path[p]]] = seen[p]["sidecar"].content
    BY <2>2, Seen, Basics DEF NameOf
  <2>5. Agree(p) <=> Matches(p)
    BY <1>1, <1>l, <2>1, <2>2, <2>4 DEF Agree, Matches
  <2>6. parts'[p] = parts[p]
    BY <1>m, <2>1 DEF Learns
  <2> QED
    BY <2>2, <2>3, <2>5, <2>6 DEF Matches
<1>2. ASSUME pc'[p] = "lookkey", op'[p] = "verify", Unchanged(p, "key")'
      PROVE  agreed'[p] <=> Matches(p)'
  <2>1. pc[p] = "looktag" /\ op[p] = "verify"
    BY <1>2, <1>g, <1>o DEF Goes, Ops, Late
  <2>2. Unchanged(p, "key") /\ seen'[p] = seen[p]
    BY <1>2, <1>o, <2>1, LooksBack
  <2>3. Unchanged(p, "sidecar") /\ (agreed'[p] <=> agreed[p]) /\ parts'[p] = parts[p]
    BY <1>2, <1>m, <2>1 DEF Checks, Learns
  <2> QED
    BY <1>s, <2>1, <2>2, <2>3 DEF Moment, Matches
<1>3. ASSUME pc'[p] = "lastkey", Unchanged(p, "key")'
      PROVE  agreed'[p]
  <2>1. pc[p] = "lastfile" /\ op[p] # "keygen"
    BY <1>3, <1>g, <1>o DEF Goes, Ops, Late
  <2>2. /\ Unchanged(p, "key") /\ Known(p, "key") /\ seen[p]["key"].inode # None
    BY <1>3, <1>o, <2>1, LooksBack
  <2>3. dir[Key] # None /\ content[dir[Key]] = seen[p]["key"].content
    BY <2>2, Seen, Basics DEF NameOf
  <2>4. parts[p] = <<Bytes(dir[File]), Bytes(dir[File])>> /\ dir[File] # None
    <3>1. parts[p] \in Seq(Text)
      BY TypeParted DEF TypeJobs
    <3> QED
      BY <1>3, <1>l, <2>1, <3>1
  <2>5. agreed'[p] <=> Vouched(p)
    BY <1>3, <1>m, <2>1 DEF Checks
  <2> QED
    BY <2>3, <2>4, <2>5 DEF Vouched
<1>4. ASSUME op'[p] # "keygen", pc'[p] \in Rechecked
      PROVE  agreed'[p]
  <2>1. CASE pc[p] = "lastkey"
    BY <1>4, <1>m, <1>s, <2>1 DEF Checks, Moment, Rechecked, Late
  <2>2. CASE pc[p] \in Rechecked /\ op[p] # "keygen"
    BY <1>m, <1>s, <2>2 DEF Checks, Moment, Rechecked, Late
  <2> QED
    BY <1>4, <1>g, <1>o, <1>s, <1>m, <2>1, <2>2 DEF Goes, Ops, Rechecked, Late, Turns, Control
<1>5. ASSUME op'[p] # "keygen", landed'[p]
      PROVE  agreed'[p]
  <2>1. pc[p] \in Late \cup {"rename"} /\ op[p] # "keygen" /\ (landed[p] \/ pc[p] = "rename")
    BY <1>5, <1>o, <1>s, LandedGrows DEF Control, Lands, Late
  <2>2. agreed'[p] <=> agreed[p]
    BY <1>m, <2>1 DEF Checks, Late
  <2> QED
    BY <1>s, <2>1, <2>2 DEF Moment, Rechecked
<1>6. /\ result'[p] = "verified" => agreed'[p]
      /\ result'[p] = "failed" => ~agreed'[p]
  <2>1. SUFFICES ASSUME result'[p] \in {"verified", "failed"}
                 PROVE  IF result'[p] = "verified" THEN agreed'[p] ELSE ~agreed'[p]
    OBVIOUS
  <2>2. result'[p] = Verdict(p) /\ pc[p] = "lookkey" /\ op[p] = "verify" /\ Unchanged(p, "key")
    BY <1>s, <1>m, <2>1 DEF Turns, Control
  <2>3. agreed[p] <=> Matches(p)
    BY <1>s, <2>2 DEF Moment
  <2>4. parts[p][1] = parts[p][2]
    BY <1>s, <2>2 DEF Views, Running, Reads, Unread
  <2>5. agreed'[p] <=> agreed[p]
    BY <1>m, <2>2 DEF Checks
  <2> QED
    BY <2>2, <2>3, <2>4, <2>5 DEF Verdict, Matches
<1> QED
  BY <1>1, <1>2, <1>3, <1>4, <1>5, <1>6 DEF Moment

\* A sidecar to be replaced is neither file nor key, since those still have
\* their names when the temporary file is created.
LEMMA OwnTarget ==
    ASSUME TypeOK, Shape, NEW p \in Proc, Own(p)
    PROVE  Target(p)'
<1>s. Control(p) /\ Views(p) /\ Target(p)
  BY DEF Shape
<1>m. Keeps /\ Turns(p) /\ Learns(p) /\ Checks(p) /\ Move(p)
  BY <1>s, OwnKeeps, OwnTurns, OwnLearns, OwnChecks, OwnMoves
<1>o. pc[p] # "idle" => op'[p] = op[p] /\ path'[p] = path[p] /\ op[p] \in Ops
  BY <1>s, <1>m DEF Turns, Control
<1>g. \/ pc'[p] = "done"
      \/ pc[p] = "idle" /\ pc'[p] \in {"create", "file"}
      \/ pc[p] # "idle" /\ Goes(op[p], pc[p], pc'[p])
      \/ pc[p] \in Late \cup {"rename"} /\ pc'[p] \in Late \ {"dirsync"}
      \/ pc'[p] = "dirsync" /\ pc[p] = "rename"
  BY <1>s, <1>m DEF Turns, Late, Goes, Control, Ops
<1>n. path[p] \in Place /\ (op[p] # "keygen" => Destination(p) = path[p])
  BY Domains DEF Destination
<1>1. CASE pc[p] = "inspect" /\ pc'[p] # "done"
  <2>1. /\ expected'[p] = dir[path[p]] /\ seen'[p] = seen[p]
        /\ dir[path[p]] = None \/ MayReplace(p)
    BY <1>m, <1>1 DEF Learns, Role
  <2>2. pc'[p] = "create" /\ op'[p] = op[p] /\ path'[p] = path[p]
    BY <1>1, <1>g, <1>o DEF Goes, Ops, Late
  <2>3. ASSUME dir[path[p]] # None
        PROVE  /\ op[p] = "replace"
               /\ dir[path[p]] \notin {seen[p]["file"].inode, seen[p]["key"].inode}
    BY <2>1, <2>3 DEF MayReplace
  <2>4. PICK i : i = dir[path[p]]
    OBVIOUS
  <2>5. i # None => i \in Inode /\ Settled(i)
    BY <1>n, <2>4, Domains, Basics DEF Shape, Names
  <2>6. i # None => Settled(i)'
    BY <1>m, <2>5 DEF Keeps
  <2>7. i # None => /\ path[p] = File => ~Unchanged(p, "file")'
                    /\ path[p] = Key => ~Unchanged(p, "key")'
    <3>1. ~Lands(p)
      BY <1>1 DEF Lands
    <3>2. dir'[path[p]] = i
      BY <1>m, <1>n, <2>4, <3>1 DEF Move
    <3> QED
      BY <2>1, <2>2, <2>3, <2>4, <3>2 DEF Unchanged, NameOf
  <2>8. expected'[p] = i
    BY <2>1, <2>4
  <2>9. op'[p] = "replace" \/ i = None
    BY <2>2, <2>3, <2>4
  <2> QED
    BY <2>2, <2>6, <2>7, <2>8, <2>9 DEF Target, Settled, Kept, Running
<1>2. CASE ~(pc[p] = "inspect" /\ pc'[p] # "done")
  <2>0. expected'[p] = expected[p]
    BY <1>m, <1>2 DEF Learns
  <2>1. SUFFICES ASSUME expected[p] # None PROVE Target(p)'
    BY <2>0 DEF Target
  <2>3. /\ pc[p] # "idle" /\ pc[p] # "done" /\ path'[p] = path[p]
        /\ op'[p] = "replace" /\ op[p] = "replace"
    BY <1>m, <1>o, <1>s, <2>1 DEF Target, Turns
  <2>4. PICK i : i = expected[p]
    OBVIOUS
  <2>5. i \in Inode /\ Settled(i)
    BY <1>s, <2>1, <2>3, <2>4, Numbers DEF Target, Running
  <2>6. Settled(i)'
    BY <1>m, <2>5 DEF Keeps
  <2>7. pc'[p] \notin {"idle", "file", "key", "inspect", "create"}
    BY <1>2, <1>g, <1>s, <2>1, <2>3 DEF Goes, Ops, Late, Target
  <2>8. ASSUME pc'[p] # "done" PROVE path[p] = Tag
    <3>1. CASE pc[p] = "create"
      <4>1. Unchanged(p, "file") /\ Unchanged(p, "key")
        BY <1>m, <2>3, <2>8, <3>1 DEF Checks
      <4> QED
        BY <1>n, <1>s, <2>1, <3>1, <4>1, Basics DEF Target
    <3>2. CASE pc[p] # "create"
      BY <1>2, <1>s, <2>1, <2>3, <2>8, <3>2 DEF Target
    <3> QED
      BY <3>1, <3>2
  <2>9. ASSUME pc'[p] = "rename" PROVE dir'[Destination(p)'] = expected[p]
    <3>1. pc[p] = "destname" /\ Destination(p)' = Destination(p) /\ Destination(p) \in Place
      BY <1>g, <1>n, <2>3, <2>9 DEF Goes, Ops, Late, Destination
    <3>2. dir[Destination(p)] = expected[p]
      BY <1>m, <2>1, <2>9, <3>1 DEF Checks
    <3> QED
      BY <1>m, <3>1, <3>2 DEF Move, Lands
  <2>10. expected'[p] = i
    BY <2>0, <2>4
  <2> QED
    BY <2>0, <2>3, <2>6, <2>7, <2>8, <2>9, <2>10 DEF Target, Settled, Kept, Running
<1> QED
  BY <1>1, <1>2

-----------------------------------------------------------------------------
(* The invariant and the properties.                                       *)

LEMMA OwnShape ==
    ASSUME TypeOK, Shape, NEW p \in Proc, Own(p)
    PROVE  Shape'
<1>1. Names' /\ Stamps'
  BY OwnNames
<1>2. \A q \in Proc : Temporary(q)' /\ Durable(q)'
  BY OwnTemporary, OwnDurable
<1>3. Control(p)' /\ Views(p)' /\ Moment(p)' /\ Target(p)' /\ Bytewise(p)' /\ Landed(p)'
  BY OwnControl, OwnViews, OwnMoment, OwnTarget, OwnBytewise, OwnLanded
<1>4. \A q \in Proc : q # p => /\ Control(q)' /\ Views(q)' /\ Moment(q)' /\ Target(q)'
                               /\ Bytewise(q)' /\ Landed(q)'
  BY OwnOthers
<1> QED
  BY <1>1, <1>2, <1>3, <1>4 DEF Shape

LEMMA Initially ==
    ASSUME Init
    PROVE  TypeOK /\ Shape
<1> USE Basics
<1>1. TypeFiles
  <2>1. dir \in [Name -> Inode \cup {None}] /\ dirDisk \in [Name -> Inode \cup {None}]
    BY DEF Init, Name, Inode
  <2>2. \A i \in Inode : content[i] \in Content
    BY Contents DEF Init
  <2>3. content \in [Inode -> Content] /\ stamp \in [Inode -> Stamp] /\ synced \in SUBSET Proc
    <3>1. content = [i \in Inode |-> content[i]]
      BY DEF Init
    <3>2. content \in [Inode -> Content]
      BY ONLY <2>2, <3>1
    <3> QED
      BY <3>2 DEF Init, Stamp
  <2> QED
    BY <2>1, <2>3 DEF TypeFiles
<1>2. TypeTurns /\ TypeJobs /\ TypeParts
  <2>1. NoView \in View
    BY Contents DEF NoView, View, Stamp
  <2>2. seen \in [Proc -> [Role -> View]]
    BY <2>1 DEF Init
  <2> QED
    BY <2>2 DEF Init, TypeTurns, TypeJobs, TypeParts, Result
<1>3. TypePast /\ TypeAround
  BY DEF Init, TypePast, TypeAround
<1>4. TypeOK
  BY <1>1, <1>2, <1>3, TypeParted
<1>5. Names /\ Stamps
  <2>1. \A n \in Place : dir[n] \in {n, None} /\ dirDisk[n] \in {n, None}
    BY DEF Init
  <2>2. \A n \in Place : Kept(n)
    BY DEF Kept
  <2>3. \A p \in Proc : ~Running(p)
    BY DEF Init, Running
  <2> QED
    BY <2>1, <2>2, <2>3 DEF Names, Settled, Stamps, Init
<1>6. ASSUME NEW p \in Proc
      PROVE  /\ Control(p) /\ Temporary(p) /\ Views(p) /\ Moment(p)
             /\ Target(p) /\ Bytewise(p) /\ Landed(p) /\ Durable(p)
  <2>1. /\ pc[p] = "idle" /\ op[p] = "none" /\ result[p] = "none" /\ ~landed[p]
        /\ parts[p] = <<>> /\ expected[p] = None /\ \A r \in Role : seen[p][r] = NoView
    BY DEF Init
  <2>2. \A q \in Proc : dir[q] = None /\ dirDisk[q] = None
    BY DEF Init
  <2>3. Control(p) /\ Moment(p) /\ Target(p) /\ Bytewise(p) /\ Landed(p) /\ Durable(p)
    BY <2>1 DEF Control, Moment, Target, Bytewise, Vouches, Landed, Durable, Late, Rechecked, Running
  <2>4. Temporary(p)
    BY <2>1, <2>2 DEF Temporary, Written, Rechecked, Late, Running
  <2>5. Views(p)
    BY <2>1 DEF Views, NoView, Running
  <2> QED
    BY <2>3, <2>4, <2>5
<1> QED
  BY <1>4, <1>5, <1>6 DEF Shape

LEMMA Stuttering ==
    ASSUME TypeOK, Shape, UNCHANGED vars
    PROVE  TypeOK' /\ Shape'
<1>u. /\ dir' = dir /\ dirDisk' = dirDisk /\ content' = content /\ synced' = synced /\ stamp' = stamp
      /\ pc' = pc /\ result' = result /\ op' = op /\ path' = path /\ seen' = seen /\ parts' = parts
      /\ expected' = expected /\ agreed' = agreed /\ landed' = landed /\ missed' = missed
      /\ touched' = touched /\ events' = events
  BY DEF vars
<1>1. TypeOK'
  BY <1>u, Zenon DEF TypeOK
<1>2. Names' /\ Stamps'
  BY <1>u DEF Shape, Names, Settled, Kept, Running, Stamps
<1> SUFFICES ASSUME NEW p \in Proc
             PROVE  /\ Control(p)' /\ Temporary(p)' /\ Views(p)' /\ Moment(p)'
                    /\ Target(p)' /\ Bytewise(p)' /\ Landed(p)' /\ Durable(p)'
  BY <1>1, <1>2 DEF Shape
<1>s. /\ Control(p) /\ Temporary(p) /\ Views(p) /\ Moment(p) /\ Target(p) /\ Bytewise(p)
      /\ Landed(p) /\ Durable(p)
  BY DEF Shape
<1>k. Keeps /\ Rests(p)
  BY <1>u, Numbers DEF Keeps, Settled, Kept, Running, Rests
<1>3. Control(p)' /\ Views(p)' /\ Moment(p)' /\ Target(p)' /\ Landed(p)' /\ Bytewise(p)'
  BY <1>k, <1>s, <1>u, ControlRests, ViewsRest, MomentRests, TargetRests, LandedRests,
     BytewiseRests
<1>4. Temporary(p)' /\ Durable(p)'
  BY <1>s, <1>u DEF Temporary, Running, Durable, Destination, Heirs
<1> QED
  BY <1>3, <1>4

\* Types and Shape together are inductive.
LEMMA Inductive ==
    ASSUME TypeOK, Shape, [Next]_vars
    PROVE  TypeOK' /\ Shape'
<1>1. ASSUME NEW p \in Proc, Own(p) PROVE TypeOK' /\ Shape'
  BY <1>1, OwnTypes, OwnShape DEF Shape
<1>2. CASE Change
  BY <1>2, ChangeTypes, ChangeShape
<1>3. CASE WriteBack
  BY <1>3, AroundTypes, WriteBackShape
<1>4. CASE PowerLoss
  BY <1>4, AroundTypes, PowerLossShape
<1>5. ASSUME NEW p \in Proc, Damage(p) PROVE TypeOK' /\ Shape'
  BY <1>5, AroundTypes, DamageShape
<1>6. CASE UNCHANGED vars
  BY <1>6, Stuttering
<1> QED
  BY <1>1, <1>2, <1>3, <1>4, <1>5, <1>6 DEF Next, Own

LEMMA Always == Spec => [](TypeOK /\ Shape)
<1>1. Init => TypeOK /\ Shape
  BY Initially
<1>2. TypeOK /\ Shape /\ [Next]_vars => (TypeOK /\ Shape)'
  BY Inductive
<1> QED
  BY <1>1, <1>2, PTL DEF Spec

\* The variables keep their types: no call opens what has no inode, none reads
\* the payload more than twice, and the events keep to their bound.
THEOREM TypeCorrect == Spec => []TypeOK
BY Always, PTL

\* What verify answers is true of one moment of the call, though others rewrite,
\* exchange, link and remove the three names between any two of its looks.
THEOREM VerdictsAreTrue == Spec => []VerdictIsTrue
<1>1. Shape => VerdictIsTrue
  BY DEF Shape, Moment, VerdictIsTrue
<1> QED
  BY <1>1, Always, PTL

\* tag publishes only what payload and key were together at one moment.
THEOREM TagsAreOfOneMoment == Spec => []TagIsOfOneMoment
<1>1. Shape => TagIsOfOneMoment
  BY DEF Shape, Moment, TagIsOfOneMoment
<1> QED
  BY <1>1, Always, PTL

\* What was published is whole, survives a power failure once the call said
\* committed, and no plain error is the answer of a call that took effect.
THEOREM PublishedStays == Spec => []Inv
<1>1. Shape => PublishedIsWhole
  BY DEF Shape, Bytewise, Vouches, KindOf, PublishedIsWhole
<1>2. Shape => AnswersAreTrue
  BY DEF Shape, Landed, AnswersAreTrue
<1>3. Shape => CommittedIsDurable
  BY DEF Shape, Durable, Heirs, CommittedIsDurable
<1>4. TypeOK /\ Shape => Inv
  BY <1>1, <1>2, <1>3 DEF Inv
<1> QED
  BY <1>4, Always, PTL

\* Only a call with --replace replaces anything, and then the sidecar that it
\* inspected or what somebody put there after its last look.
THEOREM OnlyTheInspected == Spec => ReplacesOnlyTheInspected
<1> DEFINE Only == \A p \in Proc : pc[p] = "rename" /\ landed'[p] # landed[p] =>
                      LET i == dir[Destination(p)] IN
                      i # None => op[p] = "replace" /\ (i = expected[p] \/ missed[p])
<1>1. ASSUME TypeOK, Shape, [Next]_vars PROVE Only
  <2> SUFFICES ASSUME NEW p \in Proc, pc[p] = "rename", landed'[p] # landed[p],
                      dir[Destination(p)] # None
               PROVE  op[p] = "replace" /\ (dir[Destination(p)] = expected[p] \/ missed[p])
    OBVIOUS
  <2>0. landed \in [Proc -> BOOLEAN] /\ landed' \in [Proc -> BOOLEAN]
    BY <1>1, Inductive, Zenon DEF TypeOK
  <2>1. PICK q \in Proc : Own(q)
    BY <1>1 DEF Next, Own, Change, WriteBack, PowerLoss, Damage, past, vars
  <2>2. Control(q)
    BY <1>1, <2>1 DEF Shape
  <2>3. q = p /\ Lands(p)
    BY <1>1, <2>0, <2>1, <2>2, LandedGrows
  <2>4. expected[p] # None
    BY <1>1, <2>3, OwnLands
  <2> QED
    BY <1>1, <2>4 DEF Shape, Target
<1>2. Spec => [][Only]_vars
  BY <1>1, Always, PTL DEF Spec
<1> QED
  BY <1>2 DEF ReplacesOnlyTheInspected

\* No step of the tool takes the payload's name or the key's from what has it.
THEOREM InputsStay == Spec => GivenFilesStay
<1> DEFINE Stay == \A n \in {File, Key} : dir[n] # None /\ events' = events => dir'[n] = dir[n]
<1>1. ASSUME TypeOK, Shape, [Next]_vars PROVE Stay
  <2> SUFFICES ASSUME NEW n \in {File, Key}, dir[n] # None, events' = events
               PROVE  dir'[n] = dir[n]
    OBVIOUS
  <2>0. n \in Place /\ n # Tag
    BY Basics
  <2>1. CASE UNCHANGED dir
    BY <2>1
  <2>2. CASE \E q \in Proc : Own(q)
    <3>1. PICK q \in Proc : Own(q)
      BY <2>2
    <3>2. Control(q) /\ Target(q)
      BY <1>1 DEF Shape
    <3>3. CASE Lands(q) /\ Destination(q) = n
      <4>1. expected[q] # None
        BY <1>1, <3>3, OwnLands
      <4>2. op[q] = "replace" /\ path[q] = Tag
        BY <3>2, <3>3, <4>1 DEF Target, Lands
      <4> QED
        BY <2>0, <3>3, <4>2 DEF Destination
    <3>4. CASE ~(Lands(q) /\ Destination(q) = n)
      BY <1>1, <2>0, <3>1, <3>2, <3>4, OwnMoves, OwnLands, Basics DEF Move
    <3> QED
      BY <3>3, <3>4
  <2>3. CASE Happens
    BY <1>1, <2>3, LoadBound
  <2> QED
    BY <1>1, <2>1, <2>2, <2>3 DEF Next, Own, Change, WriteBack, PowerLoss, Damage, vars
<1>2. Spec => [][Stay]_vars
  BY <1>1, Always, PTL DEF Spec
<1> QED
  BY <1>2 DEF GivenFilesStay
=============================================================================

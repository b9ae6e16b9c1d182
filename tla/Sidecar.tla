------------------------------- MODULE Sidecar -------------------------------
(***************************************************************************)
(* Detached authentication: otp2-auth keygen, tag, tag --replace and       *)
(* verify.  A sidecar holds a MAC over the length and the bytes of a file  *)
(* under the key in auth.key.  File, sidecar and key are three names that  *)
(* other programs, and other invocations, may rewrite, exchange or remove  *)
(* at any time; every statement the tool makes about the three has to be   *)
(* true of one moment of the call.                                         *)
(*                                                                         *)
(* An inode holds a payload, a key, a tag or something bad; its stamp      *)
(* stands for the size, times, mode, owner and link count that a           *)
(* FileSnapshot compares.  The staged file of process p is the inode p and *)
(* its temporary name is p; the first inodes of the three names are called *)
(* like the names, and the n-th change made by somebody else makes the     *)
(* stamp, the text, the key or the inode n.  The payload is read in two    *)
(* parts so that a change can fall between them.                           *)
(***************************************************************************)
EXTENDS Integers, Sequences, FiniteSets

CONSTANTS
    File, Key, Tag,  \* the names of the payload, the key and the sidecar
    Proc,        \* invocations
    MaxLoad,     \* bound: calls, changes, damages and power failures
    None         \* no inode

Place == {File, Key, Tag}
Role  == {"file", "key", "sidecar"}
Name  == Proc \cup Place
Inode == Proc \cup Place \cup 1..MaxLoad
Stamp == 0..MaxLoad
Foreign == MaxLoad + 1            \* stands for the bytes of no payload
Text  == Stamp \cup {Foreign}
Keys  == Proc \cup 0..MaxLoad     \* key p is the one that keygen p made
Ops    == {"keygen", "tag", "replace", "verify"}

ASSUME SidecarAssumption ==
    /\ IsFiniteSet(Proc) /\ MaxLoad \in Nat
    /\ Proc \cap Place = {} /\ (Proc \cup Place) \cap Int = {}
    /\ File # Key /\ Key # Tag /\ Tag # File /\ None \notin Inode

VARIABLES
    dir, dirDisk,  \* the inode behind each name: in memory, on disk
    content,       \* what each inode holds
    stamp,         \* when it was changed last
    synced,        \* staged files whose content is on disk
    pc, op, result,
    path,          \* the name that each process was given as the sidecar's
    seen,          \* the inode, stamp and content found for each role
    parts,         \* the texts it has read from the payload
    expected,      \* the destination it inspected: an inode, or absent
    agreed,        \* history: the three names agreed when it looked again
    landed,        \* history: its staged file has had the final name
    missed,        \* history: names were changed since it last looked
    touched,       \* history: names that somebody else changed
    events         \* what the surroundings have done so far

files  == <<dir, dirDisk, content, stamp, synced>>
jobs   == <<op, path, seen, parts, expected>>
past   == <<agreed, landed, missed>>
around == <<touched, events>>
vars   == <<dir, dirDisk, content, stamp, synced, pc, op, result, path, seen,
            parts, expected, agreed, landed, missed, touched, events>>

-----------------------------------------------------------------------------
Content == [kind : {"payload", "key", "tag", "bad"}, text : Text, key : Keys]
View    == [inode : Inode \cup {None}, stamp : Stamp, content : Content]

Payload(t) == [kind |-> "payload", text |-> t, key |-> 0]
KeyFile(k) == [kind |-> "key", text |-> 0, key |-> k]
TagFor(t, k) == [kind |-> "tag", text |-> t, key |-> k]
Bad == [kind |-> "bad", text |-> 0, key |-> 0]
\* What somebody reads who takes inode i for the payload.
Bytes(i) == IF content[i].kind = "payload" THEN content[i].text ELSE Foreign
NoView == [inode |-> None, stamp |-> 0, content |-> Bad]

\* The steps of each command, in order.
Order(o) ==
    CASE o = "keygen" ->
            <<"create", "stage", "validate", "tempname", "rename", "dirsync">>
      [] o \in {"tag", "replace"} ->
            <<"file", "key", "inspect", "create", "read1", "read2",
              "lookfile", "lookkey", "stage", "validate", "lastfile",
              "lastkey", "tempname", "destname", "rename", "dirsync">>
      [] o = "verify" ->
            <<"file", "sidecar", "key", "parse", "read1", "read2",
              "lookfile", "looktag", "lookkey">>

\* What follows each step: "done" after the last.
Successor == [o \in Ops |->
    LET steps == Order(o) IN
    [s \in {steps[i] : i \in DOMAIN steps} |->
        LET i == CHOOSE i \in DOMAIN steps : steps[i] = s IN
        IF i = Len(steps) THEN "done" ELSE steps[i + 1]]]

NoSidecarRecheck(o, s) ==                               \* mutant of After
    IF Successor[o][s] = "looktag" THEN "lookkey" ELSE Successor[o][s]
NoLastRecheck(o, s) ==                                  \* mutant of After
    IF Successor[o][s] = "lastfile" THEN "lastkey" ELSE Successor[o][s]
After(o, s) == Successor[o][s]

Step == {"create", "stage", "validate", "tempname", "destname", "rename",
         "source", "kept", "gone", "dirsync", "dirsync_warned", "file",
         "sidecar", "key", "inspect", "parse", "read1", "read2", "lookfile",
         "looktag", "lookkey", "lastfile", "lastkey"}
Result == {"none", "committed", "uncertain", "unknown", "error", "verified",
           "failed", "killed"}
Running(p) == pc[p] \notin {"idle", "done"}
Staged(p)  == op[p] \in {"keygen", "tag", "replace"}

TypeOK ==
    /\ dir \in [Name -> Inode \cup {None}]
    /\ dirDisk \in [Name -> Inode \cup {None}]
    /\ content \in [Inode -> Content] /\ stamp \in [Inode -> Stamp]
    /\ synced \in SUBSET Proc
    /\ pc \in [Proc -> Step \cup {"idle", "done"}]
    /\ op \in [Proc -> Ops \cup {"none"}]
    /\ result \in [Proc -> Result]
    /\ path \in [Proc -> Place]
    /\ seen \in [Proc -> [Role -> View]]
    /\ parts \in [Proc -> Seq(Text)] /\ \A p \in Proc : Len(parts[p]) <= 2
    /\ expected \in [Proc -> Inode \cup {None}]
    /\ agreed \in [Proc -> BOOLEAN] /\ landed \in [Proc -> BOOLEAN]
    /\ missed \in [Proc -> BOOLEAN] /\ touched \in SUBSET Name
    /\ events \in 0..MaxLoad

Init ==
    /\ dir \in {[n \in Name |-> IF n \in {File} \cup s THEN n ELSE None] :
                s \in SUBSET {Key, Tag}}
    /\ dirDisk = dir
    /\ content = [i \in Inode |-> CASE i = File -> Payload(0)
                                    [] i = Key  -> KeyFile(0)
                                    [] i = Tag  -> TagFor(0, 0)
                                    [] OTHER    -> Bad]
    /\ stamp = [i \in Inode |-> 0]
    /\ synced = {}
    /\ pc = [p \in Proc |-> "idle"]
    /\ op = [p \in Proc |-> "none"]
    /\ result = [p \in Proc |-> "none"]
    /\ path = [p \in Proc |-> Tag]
    /\ seen = [p \in Proc |-> [r \in Role |-> NoView]]
    /\ parts = [p \in Proc |-> <<>>]
    /\ expected = [p \in Proc |-> None]
    /\ agreed = [p \in Proc |-> FALSE]
    /\ landed = [p \in Proc |-> FALSE]
    /\ missed = [p \in Proc |-> FALSE]
    /\ touched = {} /\ events = 0

-----------------------------------------------------------------------------
Goto(p, s) == pc' = [pc EXCEPT ![p] = s] /\ UNCHANGED result

Answer(p, r) ==
    /\ pc' = [pc EXCEPT ![p] = "done"]
    /\ result' = [result EXCEPT ![p] = r]

Advance(p) == Goto(p, After(op[p], pc[p]))

\* An error drops the staged file, which unlinks its temporary name if the
\* name still means this file; the removal may fail.
Fail(p) ==
    /\ Answer(p, "error")
    /\ \/ dir' = [dir EXCEPT ![p] = IF @ = p THEN None ELSE @]
       \/ dir[p] = p /\ UNCHANGED dir

\* The path the sidecar (or the new key) is to have.
Destination(p) == IF op[p] = "keygen" THEN Key ELSE path[p]

NameOf(p, r) == CASE r = "file" -> File [] r = "key" -> Key
                  [] r = "sidecar" -> path[p]
Single(i) == \A m, n \in Name : dir[m] = i /\ dir[n] = i => m = n

\* OpenRegular::recheck: the open file is as it was, and still has its name.
Unchanged(p, r) ==
    /\ stamp[seen[p][r].inode] = seen[p][r].stamp
    /\ dir[NameOf(p, r)] = seen[p][r].inode

\* File, sidecar and key, as they are named now, belong together.
Agree(p) ==
    /\ dir[File] # None /\ dir[path[p]] # None /\ dir[Key] # None
    /\ content[dir[Key]].kind = "key"
    /\ content[dir[path[p]]] =
          TagFor(Bytes(dir[File]), content[dir[Key]].key)

\* What tag p is about to vouch for is what the names say now.
Vouched(p) ==
    /\ dir[File] # None /\ dir[Key] # None
    /\ parts[p] = <<Bytes(dir[File]), Bytes(dir[File])>>
    /\ content[dir[Key]] = seen[p]["key"].content

-----------------------------------------------------------------------------
(* Opening and reading.                                                    *)

Load == Cardinality({p \in Proc : pc[p] # "idle"}) + events

\* Any of the three names may be given as the sidecar's.
Begin(p, o, n) ==
    /\ pc[p] = "idle" /\ Load < MaxLoad
    /\ o = "keygen" => n = Tag                     \* which it ignores
    /\ op' = [op EXCEPT ![p] = o]
    /\ path' = [path EXCEPT ![p] = n]
    /\ Goto(p, Order(o)[1])
    /\ UNCHANGED <<files, seen, parts, expected, past, around>>

\* The key has to be one and to have one name, and neither the file nor the
\* sidecar may be it or each other (for a new sidecar see MayReplace).
Suitable(p, i) ==
    pc[p] = "key" =>
        /\ content[i].kind = "key" /\ Single(i)
        /\ i # seen[p]["file"].inode
        /\ op[p] = "verify" =>
              seen[p]["sidecar"].inode \notin {i, seen[p]["file"].inode}

OpenRegular(p) ==
    /\ pc[p] \in Role
    /\ LET i == dir[NameOf(p, pc[p])] IN
       IF i # None /\ Suitable(p, i)
       THEN /\ seen' = [seen EXCEPT ![p][pc[p]] =
                    [inode |-> i, stamp |-> stamp[i], content |-> content[i]]]
            /\ Advance(p)
            /\ UNCHANGED dir
       ELSE Fail(p) /\ UNCHANGED seen
    /\ UNCHANGED <<dirDisk, content, stamp, synced, op, path, parts, expected,
                   past, around>>

\* --replace takes a sidecar with one name that is neither file nor key.
MayReplace(p) ==
    /\ op[p] = "replace" /\ Single(dir[path[p]])
    /\ dir[path[p]] \notin {seen[p]["file"].inode, seen[p]["key"].inode}

Inspect(p) ==
    /\ pc[p] = "inspect"
    /\ IF dir[path[p]] = None \/ MayReplace(p)
       THEN /\ expected' = [expected EXCEPT ![p] = dir[path[p]]]
            /\ Advance(p)
            /\ UNCHANGED dir
       ELSE Fail(p) /\ UNCHANGED expected
    /\ UNCHANGED <<dirDisk, content, stamp, synced, op, path, seen, parts, past,
                   around>>

\* The sidecar has the canonical length and header.
Parse(p) ==
    /\ pc[p] = "parse"
    /\ LET c == content[seen[p]["sidecar"].inode] IN
       IF c.kind = "tag"
       THEN /\ seen' = [seen EXCEPT ![p]["sidecar"].content = c]
            /\ Advance(p)
            /\ UNCHANGED dir
       ELSE Fail(p) /\ UNCHANGED seen
    /\ UNCHANGED <<dirDisk, content, stamp, synced, op, path, parts, expected,
                   past, around>>

\* Half of the payload, through the open handle.
Read(p) ==
    /\ pc[p] \in {"read1", "read2"}
    /\ parts' = [parts EXCEPT ![p] =
                     Append(@, Bytes(seen[p]["file"].inode))]
    /\ Advance(p)
    /\ UNCHANGED <<files, op, path, seen, expected, past, around>>

\* What a step looks at again.
Rechecks(p) == CASE pc[p] \in {"lookfile", "lastfile"} -> "file"
                 [] pc[p] \in {"lookkey", "lastkey"}   -> "key"
                 [] pc[p] = "looktag"                  -> "sidecar"

\* The MAC over what was read verifies against the tag that was read.
Verdict(p) ==
    IF /\ parts[p][1] = parts[p][2]
       /\ seen[p]["sidecar"].content =
             TagFor(parts[p][1], seen[p]["key"].content.key)
    THEN "verified" ELSE "failed"

Recheck(p) ==
    /\ pc[p] \in {"lookfile", "lookkey", "looktag", "lastfile", "lastkey"}
    /\ IF Unchanged(p, Rechecks(p))
       THEN /\ IF After(op[p], pc[p]) = "done" THEN Answer(p, Verdict(p))
                                               ELSE Advance(p)
            /\ UNCHANGED dir
       ELSE Fail(p)
    /\ agreed' = [agreed EXCEPT ![p] =
           CASE op[p] = "verify" /\ pc[p] = "lookfile" -> Agree(p)
             [] pc[p] = "lastfile" -> Vouched(p)
             [] OTHER -> @]
    /\ UNCHANGED <<dirDisk, content, stamp, synced, jobs, landed, missed,
                   around>>

-----------------------------------------------------------------------------
(* Staging and committing.                                                 *)

\* create_tag looks at file and key again just before.
CreateTemp(p) ==
    /\ pc[p] = "create"
    /\ IF op[p] = "keygen" \/ (Unchanged(p, "file") /\ Unchanged(p, "key"))
       THEN dir' = [dir EXCEPT ![p] = p] /\ Advance(p)
       ELSE Fail(p)
    /\ UNCHANGED <<dirDisk, content, stamp, synced, jobs, past, around>>

Output(p) ==
    IF op[p] = "keygen" THEN KeyFile(p)
    ELSE IF parts[p][1] = parts[p][2]
         THEN TagFor(parts[p][1], seen[p]["key"].content.key) ELSE Bad

SyncedBy(p) == {p}
WriteStage(p) ==
    /\ pc[p] = "stage"
    /\ content' = [content EXCEPT ![p] = Output(p)]
    /\ synced' = synced \cup SyncedBy(p)
    /\ Advance(p)
    /\ UNCHANGED <<dir, dirDisk, stamp, jobs, past, around>>

\* The staged file is read back (a new key is only looked at).
Valid(p) == op[p] # "keygen" => content[p] = Output(p)
Validate(p) ==
    /\ pc[p] = "validate"
    /\ IF Valid(p) /\ dir[p] = p THEN Advance(p) /\ UNCHANGED dir ELSE Fail(p)
    /\ UNCHANGED <<dirDisk, content, stamp, synced, jobs, past, around>>

\* recheck_staged_tag and the first lines of commit.
CheckTempName(p) ==
    /\ pc[p] = "tempname"
    /\ IF dir[p] = p THEN Advance(p) /\ UNCHANGED dir ELSE Fail(p)
    /\ UNCHANGED <<dirDisk, content, stamp, synced, jobs, past, around>>

SameTarget(p) == TRUE                                   \* mutant of StillExpected
StillExpected(p) == dir[Destination(p)] = expected[p] /\ Single(expected[p])
CheckDestName(p) ==
    /\ pc[p] = "destname"
    /\ IF expected[p] = None \/ StillExpected(p)
       THEN Advance(p) /\ UNCHANGED dir ELSE Fail(p)
    /\ missed' = [missed EXCEPT ![p] = FALSE]
    /\ UNCHANGED <<dirDisk, content, stamp, synced, jobs, agreed, landed,
                   around>>

CanMoveAnyway(p) == dir[p] # None                       \* mutant of CanMove
\* RENAME_NOREPLACE, unless the caller replaces the sidecar it inspected.
CanMove(p) ==
    dir[p] # None /\ (expected[p] = None => dir[Destination(p)] = None)
Moved(p) == [dir EXCEPT ![Destination(p)] = dir[p], ![p] = None]
Land(p) ==
    /\ CanMove(p)
    /\ dir' = Moved(p)
    /\ landed' = [landed EXCEPT ![p] = @ \/ dir[p] = p]
    /\ missed' = [q \in Proc |-> q # p \/ missed[q]]

Rename(p) ==
    /\ pc[p] = "rename"
    /\ \/ Land(p) /\ Advance(p)
       \/ Land(p) /\ Goto(p, "source")       \* it took effect all the same
       \/ Goto(p, "source") /\ UNCHANGED <<dir, landed, missed>>
    /\ UNCHANGED <<dirDisk, content, stamp, synced, jobs, agreed, around>>

\* After a reported error both names say what happened.
DecideSource(p) ==
    /\ pc[p] = "source"
    /\ Goto(p, IF dir[p] = p THEN "kept" ELSE "gone")
    /\ UNCHANGED <<files, jobs, past, around>>

TrustTheError(p) ==                                \* mutant of DecideDestination
    /\ pc[p] \in {"kept", "gone"} /\ Fail(p)
    /\ UNCHANGED <<dirDisk, content, stamp, synced, jobs, past, around>>
\* Not committed, committed, or unknown; the last two leave every name alone.
DecideDestination(p) ==
    /\ \/ pc[p] = "kept" /\ dir[Destination(p)] # p /\ Fail(p)
       \/ /\ pc[p] = "gone" /\ dir[Destination(p)] = p
          /\ Goto(p, "dirsync_warned") /\ UNCHANGED dir
       \/ /\ \/ pc[p] = "kept" /\ dir[Destination(p)] = p
             \/ pc[p] = "gone" /\ dir[Destination(p)] # p
          /\ Answer(p, "unknown") /\ UNCHANGED dir
    /\ UNCHANGED <<dirDisk, content, stamp, synced, jobs, past, around>>

SyncDirectory(p) ==
    /\ pc[p] \in {"dirsync", "dirsync_warned"}
    /\ \/ dirDisk' = dir
          /\ Answer(p, IF pc[p] = "dirsync" THEN "committed" ELSE "uncertain")
       \/ UNCHANGED dirDisk /\ Answer(p, "uncertain")
    /\ UNCHANGED <<dir, content, stamp, synced, jobs, past, around>>

\* An I/O error in any step before the rename.
StepFails(p) ==
    /\ Running(p)
    /\ pc[p] \notin {"rename", "source", "kept", "gone", "dirsync",
                     "dirsync_warned"}
    /\ Fail(p)
    /\ UNCHANGED <<dirDisk, content, stamp, synced, jobs, past, around>>

-----------------------------------------------------------------------------
(* The rest of the system.                                                 *)

\* What somebody else may put under name n: something new, or what was there
\* at first.
Fresh(n, c) == CASE n = File -> {Payload(c)}
                 [] n = Key  -> {KeyFile(c)}
                 [] n = Tag  -> {TagFor(0, 0), Bad}
First(n) == CASE n = File -> Payload(0) [] n = Key -> KeyFile(0)
              [] n = Tag  -> TagFor(0, 0)

Rewrite(n, c) ==
    /\ dir[n] # None
    /\ \E x \in Fresh(n, c) \cup {First(n)} :
          content' = [content EXCEPT ![dir[n]] = x]
    /\ stamp' = [stamp EXCEPT ![dir[n]] = c]
    /\ UNCHANGED dir

Exchange(n, c) ==
    /\ dir' = [dir EXCEPT ![n] = c]
    /\ \E x \in Fresh(n, c) : content' = [content EXCEPT ![c] = x]
    /\ stamp' = [stamp EXCEPT ![c] = c]

\* A hard link to the file under the sidecar's name changes the file's ctime.
LinkFile(c) ==
    /\ dir[File] # None
    /\ dir' = [dir EXCEPT ![Tag] = dir[File]]
    /\ stamp' = [stamp EXCEPT ![dir[File]] = c]
    /\ UNCHANGED content

Happens == Load < MaxLoad /\ events' = events + 1

Change ==
    /\ Happens
    /\ missed' = [p \in Proc |-> TRUE]
    /\ \/ \E n \in Place :
             /\ touched' = touched \cup {n}
             /\ \/ Rewrite(n, events') \/ Exchange(n, events')
                \/ /\ dir' = [dir EXCEPT ![n] = None]
                   /\ UNCHANGED <<content, stamp>>
       \/ LinkFile(events') /\ touched' = touched \cup {Tag}
       \/ \E p \in Proc :
             /\ dir[p] = p /\ dir' = [dir EXCEPT ![p] = events']
             /\ touched' = touched \cup {p}
             /\ UNCHANGED <<content, stamp>>
    /\ UNCHANGED <<dirDisk, synced, pc, result, jobs, agreed, landed>>

\* The storage damages a staged output that is going to be read back.
Damage(p) ==
    /\ Happens
    /\ pc[p] = "validate" /\ op[p] # "keygen"
    /\ content' = [content EXCEPT ![p] = Bad]
    /\ UNCHANGED <<dir, dirDisk, stamp, synced, pc, result, jobs, past,
                   touched>>

Kill(p) ==
    /\ Running(p)
    /\ Answer(p, "killed")
    /\ UNCHANGED <<files, jobs, past, around>>

\* The system writes the directories back when it likes, which matters as long
\* as there can be a power failure.
WriteBack ==
    /\ dirDisk # dir /\ Load < MaxLoad
    /\ dirDisk' = dir
    /\ UNCHANGED <<dir, content, stamp, synced, pc, result, jobs, past, around>>

PowerLoss ==
    /\ Happens
    /\ dir' = dirDisk
    /\ content' = [i \in Inode |-> IF i \in Proc \ synced THEN Bad
                                   ELSE content[i]]
    /\ pc' = [p \in Proc |-> IF Running(p) THEN "done" ELSE pc[p]]
    /\ result' = [p \in Proc |-> IF Running(p) THEN "killed" ELSE result[p]]
    /\ UNCHANGED <<dirDisk, stamp, synced, jobs, past, touched>>

Act(p) ==
    \/ \E o \in Ops, n \in Place : Begin(p, o, n)
    \/ OpenRegular(p) \/ Inspect(p) \/ Parse(p) \/ Read(p) \/ Recheck(p)
    \/ CreateTemp(p) \/ WriteStage(p) \/ Validate(p) \/ CheckTempName(p)
    \/ CheckDestName(p) \/ Rename(p) \/ DecideSource(p)
    \/ DecideDestination(p) \/ SyncDirectory(p) \/ StepFails(p)

Next ==
    \/ \E p \in Proc : Act(p) \/ Damage(p) \/ Kill(p)
    \/ Change \/ WriteBack \/ PowerLoss

Spec == Init /\ [][Next]_vars

-----------------------------------------------------------------------------
(* Properties.                                                             *)

\* A verdict is true of one moment of the call, whatever is changed around
\* it: verified only if file, sidecar and key belonged together then, failed
\* only if they did not.
VerdictIsTrue ==
    \A p \in Proc : /\ result[p] = "verified" => agreed[p]
                    /\ result[p] = "failed" => ~agreed[p]

\* A sidecar appears only if, at one moment after the file had been read,
\* file and key were what it vouches for.
TagIsOfOneMoment ==
    \A p \in Proc : landed[p] /\ op[p] # "keygen" => agreed[p]

\* Under the name of a sidecar or a key that this tool published stands a
\* whole one, after a power failure too, until somebody else rewrites it.
PublishedIsWhole ==
    \A p \in Proc : landed[p] /\ stamp[p] = 0 =>
        content[p].kind = (IF op[p] = "keygen" THEN "key" ELSE "tag")

\* Without --replace nothing that has the destination's name is replaced;
\* with it, only the sidecar that was inspected, or what somebody put there
\* after the last look.
ReplacesOnlyTheInspected ==
    [][\A p \in Proc : pc[p] = "rename" /\ landed'[p] # landed[p] =>
          LET i == dir[Destination(p)] IN
          i # None => op[p] = "replace" /\ (i = expected[p] \/ missed[p])]_vars

\* Whatever path is given as the sidecar's, the tool never takes the name of
\* the payload or of the key away from what has it.
GivenFilesStay ==
    [][\A n \in {File, Key} :
          dir[n] # None /\ events' = events => dir'[n] = dir[n]]_vars

\* A plain error is never the answer of a call that took effect, and where
\* the answer is that it did, it did.
AnswersAreTrue ==
    \A p \in Proc : /\ result[p] = "error" => ~landed[p]
                    /\ result[p] \in {"committed", "uncertain"}
                          => landed[p] \/ p \in touched

\* Committed means on disk, until somebody else changes the name or another
\* call of the tool replaces the sidecar in turn.
CommittedIsDurable ==
    \A p \in Proc :
        /\ result[p] = "committed"
        /\ touched \cap (Proc \cup {Destination(p)}) = {}
        =>
        dirDisk[Destination(p)] \in {p} \cup
            {q \in Proc : op[q] = "replace" /\ landed[q]}

\* What the tool published is whole, is on disk once it says so, and no plain
\* error is the answer of a call that took effect.
Inv == TypeOK /\ AnswersAreTrue /\ CommittedIsDurable /\ PublishedIsWhole
=============================================================================

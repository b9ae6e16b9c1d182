---------------------------- MODULE EzTransaction ----------------------------
(***************************************************************************)
(* ezcrypt: one file is turned into its encrypted or decrypted form beside *)
(* it, then the original is deleted.  transform_plan and the operations of *)
(* SourceFile and PendingOutput it calls, for commands that work on the    *)
(* same two names, "file" and "file.ez", beside other programs.            *)
(*                                                                         *)
(* A file is known by who made it: the user (Orig), another program        *)
(* (Other) or a command.  Its bytes are its form and its text; Bad stands  *)
(* for bytes that are incomplete or damaged, Mixed for bytes of two texts. *)
(* Handles are exclusive, as share_mode(0) makes them: nobody else opens,  *)
(* renames or removes a held file.  What stays possible, and the code      *)
(* defends against, is that a view mapped earlier writes into it, that it  *)
(* gets a hard link or an alternate stream, and that storage damages it.   *)
(* A file marked for deletion loses its name when its handle closes.       *)
(***************************************************************************)
EXTENDS Integers, FiniteSets

CONSTANTS
    Proc,           \* commands
    Text,           \* what a file may say
    Orig, Other,    \* the user's file, and one another program makes
    Empty, Bad, Mixed,
    None,
    MaxMeddling,    \* bound: steps of other programs and of failing storage
    MaxLoss         \* bound: power failures

Name == {"file", "file.ez"}
File == Proc \cup {Orig, Other}
Extra == {"link", "stream"}

ASSUME EzAssumption ==
    /\ Cardinality({Orig, Other}) = 2 /\ {Orig, Other} \cap Proc = {}
    /\ Cardinality({Empty, Bad, Mixed}) = 3 /\ {Empty, Bad, Mixed} \cap Text = {}
    /\ None \notin File \cup Text \cup {Mixed}
    /\ MaxMeddling \in Nat /\ MaxLoss \in Nat

VARIABLES
    dir, dirDisk,   \* the file under each name; the same on disk
    sealed, text,   \* the bytes of each file
    flushed,        \* files whose bytes are on disk
    extra,          \* hard links and alternate streams a file has got
    stamp,          \* files whose metadata changed since a command opened them
    pc, in, src, srcState,  \* a command: its step, input name, source handle
    tmp,            \* the state of the file it makes, until it has a name
    read,           \* the text it has read
    result,
    late,           \* a source was written into after its last look
    meddled, losses

vars == <<dir, dirDisk, sealed, text, flushed, extra, stamp, pc, in, src,
          srcState, tmp, read, result, late, meddled, losses>>
world == <<dir, dirDisk, sealed, text, flushed, extra, stamp, late>>

-----------------------------------------------------------------------------
Step == {"idle", "open", "absent", "create", "arm", "read", "readrest", "sync",
         "readback", "metadata", "source", "clear", "recheck", "rename",
         "flush", "delcheck", "mark", "final", "close", "release", "done"}
Result == {"none", "exists", "error", "published_retained",
           "committed_retained", "unconfirmed", "ok", "killed"}

TypeOK ==
    /\ dir \in [Name -> File \cup {None}] /\ dirDisk \in [Name -> File \cup {None}]
    /\ sealed \in [File -> BOOLEAN] /\ text \in [File -> Text \cup {Empty, Bad, Mixed}]
    /\ flushed \subseteq File /\ extra \in [File -> SUBSET Extra]
    /\ stamp \subseteq File
    /\ pc \in [Proc -> Step] /\ in \in [Proc -> Name]
    /\ src \in [Proc -> File \cup {None}]
    /\ srcState \in [Proc -> {"none", "open", "pending", "closed"}]
    /\ tmp \in [Proc -> {"none", "plain", "pending", "named", "left", "gone"}]
    /\ read \in [Proc -> Text \cup {Mixed, None}]
    /\ result \in [Proc -> Result] /\ late \in BOOLEAN
    /\ meddled \in 0..MaxMeddling /\ losses \in 0..MaxLoss

\* The user has the plain or the encrypted file.
Init ==
    /\ \E n \in Name, t \in Text :
         /\ dir = [m \in Name |-> IF m = n THEN Orig ELSE None]
         /\ sealed = [f \in File |-> f = Orig /\ n = "file.ez"]
         /\ text = [f \in File |-> IF f \in Proc THEN Empty ELSE t]
    /\ dirDisk = dir
    /\ flushed = {Orig, Other} /\ extra = [f \in File |-> {}] /\ stamp = {}
    /\ pc = [p \in Proc |-> "idle"] /\ in = [p \in Proc |-> "file"]
    /\ src = [p \in Proc |-> None] /\ srcState = [p \in Proc |-> "none"]
    /\ tmp = [p \in Proc |-> "none"] /\ read = [p \in Proc |-> None]
    /\ result = [p \in Proc |-> "none"] /\ late = FALSE
    /\ meddled = 0 /\ losses = 0

-----------------------------------------------------------------------------
\* plan_for_path: the suffix decides the operation and the other name.
Out(n) == IF n = "file" THEN "file.ez" ELSE "file"
Encrypts(p) == in[p] = "file"

HoldsSource(p) == srcState[p] \in {"open", "pending"}
ReleasedEarly(p) == tmp[p] \in {"plain", "pending"}      \* mutant of HoldsOutput
                    /\ pc[p] \notin {"idle", "done"}
HoldsOutput(p) == tmp[p] \in {"plain", "pending", "named"}
                  /\ pc[p] \notin {"idle", "done"}
Held(f) == \/ \E p \in Proc : HoldsSource(p) /\ src[p] = f
           \/ f \in Proc /\ HoldsOutput(f)
DeletePending(f) == \/ \E p \in Proc : srcState[p] = "pending" /\ src[p] = f
                    \/ f \in Proc /\ tmp[f] = "pending"

Goto(p, s) == pc' = [pc EXCEPT ![p] = s] /\ UNCHANGED result
Answer(p, r) == /\ pc' = [pc EXCEPT ![p] = "done"]
                /\ result' = [result EXCEPT ![p] = r]
SourceTo(p, s) == srcState' = [srcState EXCEPT ![p] = s]
Unnamed(f) == [n \in Name |-> IF dir[n] = f THEN None ELSE dir[n]]

\* Drop of PendingOutput: an unpublished file is marked (which may fail) and
\* goes away with its handle.
Dropped(p) ==
    CASE tmp[p] = "pending" -> {"gone"}
      [] tmp[p] = "plain"   -> {"gone", "left"}
      [] OTHER              -> {tmp[p]}

\* An error return before publication: both handles are dropped.
Fail(p, r) ==
    /\ Answer(p, r)
    /\ tmp' \in {[tmp EXCEPT ![p] = s] : s \in Dropped(p)}
    /\ srcState' = [srcState EXCEPT ![p] = IF @ = "none" THEN @ ELSE "closed"]
    /\ UNCHANGED <<world, in, src, read, meddled, losses>>

IoError(p) == Fail(p, "error")

-----------------------------------------------------------------------------
(* Before publication.                                                     *)

Begin(p) == \E n \in Name :
    /\ pc[p] = "idle"
    /\ in' = [in EXCEPT ![p] = n]
    /\ IF dir[Out(n)] # None THEN Answer(p, "exists") ELSE Goto(p, "open")
    /\ UNCHANGED <<world, src, srcState, tmp, read, meddled, losses>>

\* Exclusive open, a single link and no alternate stream.
OpenSource(p) == LET f == dir[in[p]] IN
    /\ pc[p] = "open"
    /\ f # None /\ ~Held(f) /\ extra[f] = {}
    /\ src' = [src EXCEPT ![p] = f] /\ SourceTo(p, "open")
    /\ stamp' = stamp \ {f}
    /\ Goto(p, "absent")
    /\ UNCHANGED <<dir, dirDisk, sealed, text, flushed, extra, late, in, tmp,
                   read, meddled, losses>>

CheckAbsent(p) ==
    /\ pc[p] = "absent"
    /\ IF dir[Out(in[p])] # None THEN Fail(p, "exists")
       ELSE /\ Goto(p, "create")
            /\ UNCHANGED <<world, in, src, srcState, tmp, read, meddled, losses>>

Create(p) ==
    /\ pc[p] = "create"
    /\ tmp' = [tmp EXCEPT ![p] = "plain"]
    /\ Goto(p, "arm")
    /\ UNCHANGED <<world, in, src, srcState, read, meddled, losses>>

\* Delete-on-close before any byte; when that fails the empty file stays.
Armed(p) == tmp' = [tmp EXCEPT ![p] = "pending"]

Arm(p) ==
    /\ pc[p] = "arm"
    /\ \/ Armed(p) /\ Goto(p, "read") /\ UNCHANGED srcState
       \/ /\ \E s \in {"left", "gone"} : tmp' = [tmp EXCEPT ![p] = s]
          /\ Answer(p, "error") /\ SourceTo(p, "closed")
    /\ UNCHANGED <<world, in, src, read, meddled, losses>>

\* The transform: the first part of the source is read and its form written...
Authentic(p) == Encrypts(p) \/ (sealed[src[p]] /\ text[src[p]] # Bad)

ReadFirst(p) ==
    /\ pc[p] = "read"
    /\ Authentic(p)
    /\ read' = [read EXCEPT ![p] = text[src[p]]]
    /\ text' = [text EXCEPT ![p] = Bad]
    /\ sealed' = [sealed EXCEPT ![p] = Encrypts(p)]
    /\ Goto(p, "readrest")
    /\ UNCHANGED <<dir, dirDisk, flushed, extra, stamp, late, in, src, srcState,
                   tmp, meddled, losses>>

\* ... then the rest; decryption notices a change, encryption cannot.
ReadRest(p) == LET all == IF text[src[p]] = read[p] THEN read[p] ELSE Mixed IN
    /\ pc[p] = "readrest"
    /\ Authentic(p) /\ (all # Mixed \/ Encrypts(p))
    /\ text' = [text EXCEPT ![p] = all]
    /\ read' = [read EXCEPT ![p] = all]
    /\ Goto(p, "sync")
    /\ UNCHANGED <<dir, dirDisk, sealed, flushed, extra, stamp, late, in, src,
                   srcState, tmp, meddled, losses>>

Flush(p, from, to) ==
    /\ pc[p] = from
    /\ flushed' = flushed \cup {p}
    /\ Goto(p, to)
    /\ UNCHANGED <<dir, dirDisk, sealed, text, extra, stamp, late, in, src,
                   srcState, tmp, read, meddled, losses>>

Sync(p) == Flush(p, "sync", "readback")

\* verify_readback compares the file with what was written, verify_encrypted_
\* output decrypts it; bytes mixed of two texts pass both.
ReadsBackAnyway(p) == TRUE                              \* mutant of ReadsBack
ReadsBack(p) == text[p] # Bad

Readback(p) ==
    /\ pc[p] = "readback"
    /\ ReadsBack(p)
    /\ Goto(p, "metadata")
    /\ UNCHANGED <<world, in, src, srcState, tmp, read, meddled, losses>>

Metadata(p) == Flush(p, "metadata", "source")

\* verify_source_readback and verify_unchanged.
SourceSame(p) == /\ text[src[p]] = read[p]
                 /\ src[p] \notin stamp
                 /\ "link" \notin extra[src[p]]

CheckSource(p) ==
    /\ pc[p] = "source"
    /\ IF SourceSame(p)
       THEN /\ Goto(p, "clear")
            /\ UNCHANGED <<world, in, src, srcState, tmp, read, meddled, losses>>
       ELSE IoError(p)

ClearDelete(p) ==
    /\ pc[p] = "clear"
    /\ tmp' = [tmp EXCEPT ![p] = "plain"]
    /\ Goto(p, "recheck")
    /\ UNCHANGED <<world, in, src, srcState, read, meddled, losses>>

Recheck(p) ==
    /\ pc[p] = "recheck"
    /\ IF extra[p] = {}
       THEN /\ Goto(p, "rename")
            /\ UNCHANGED <<world, in, src, srcState, tmp, read, meddled, losses>>
       ELSE IoError(p)

\* A rename, a flush, or any other call may fail.
StopBeforePublication(p) ==
    /\ pc[p] \in {"open", "absent", "create", "read", "readrest", "sync",
                  "readback", "metadata", "source", "clear", "recheck", "rename"}
    /\ IoError(p)

-----------------------------------------------------------------------------
(* Publication and deletion.                                               *)

Replacing(p) == TRUE                                    \* mutant of Vacant
Vacant(p) == dir[Out(in[p])] = None

Rename(p) ==
    /\ pc[p] = "rename"
    /\ IF Vacant(p)
       THEN /\ dir' = [dir EXCEPT ![Out(in[p])] = p]
            /\ tmp' = [tmp EXCEPT ![p] = "named"]
            /\ Goto(p, "flush")
            /\ UNCHANGED <<dirDisk, sealed, text, flushed, extra, stamp, late,
                           in, src, srcState, read, meddled, losses>>
       ELSE Fail(p, "exists")

\* Nothing is known to be on disk when the last flush fails.
FlushErrorIgnored(p) == Goto(p, "delcheck") /\ UNCHANGED srcState \* mutant of NotFlushed
NotFlushed(p) == Answer(p, "published_retained") /\ SourceTo(p, "closed")

FlushPublished(p) ==
    /\ pc[p] = "flush"
    /\ \/ /\ dirDisk' = [dirDisk EXCEPT ![Out(in[p])] = p]
          /\ Goto(p, "delcheck")
          /\ UNCHANGED srcState
       \/ NotFlushed(p) /\ UNCHANGED dirDisk
    /\ UNCHANGED <<dir, sealed, text, flushed, extra, stamp, late, in, src, tmp,
                   read, meddled, losses>>

Retained(p) ==
    /\ Answer(p, "committed_retained")
    /\ SourceTo(p, "closed")
    /\ UNCHANGED <<world, in, src, tmp, read, meddled, losses>>

\* The first look of SourceFile::delete does not ask for streams.
DeleteCheck(p) ==
    /\ pc[p] = "delcheck"
    /\ \/ /\ src[p] \notin stamp /\ "link" \notin extra[src[p]]
          /\ Goto(p, "mark")
          /\ UNCHANGED <<world, in, src, srcState, tmp, read, meddled, losses>>
       \/ Retained(p)

MarkDelete(p) ==
    /\ pc[p] = "mark"
    /\ \/ /\ SourceTo(p, "pending")
          /\ Goto(p, "final")
          /\ UNCHANGED <<world, in, src, tmp, read, meddled, losses>>
       \/ Retained(p)

\* The source's name goes away with its handle.
LosesName(p) == dir' = Unnamed(src[p])

\* cancel_source_delete: the mark is taken back, or stays when that fails.
CancelDelete(p) ==
    \/ Retained(p)
    \/ /\ LosesName(p)
       /\ Answer(p, "unconfirmed") /\ SourceTo(p, "closed")
       /\ UNCHANGED <<dirDisk, sealed, text, flushed, extra, stamp, late, in,
                      src, tmp, read, meddled, losses>>

Deletable(p) == src[p] \notin stamp /\ extra[src[p]] = {}

FinalCheck(p) ==
    /\ pc[p] = "final"
    /\ \/ /\ Deletable(p)
          /\ Goto(p, "close")
          /\ UNCHANGED <<world, in, src, srcState, tmp, read, meddled, losses>>
       \/ CancelDelete(p)

CloseSource(p) ==
    /\ pc[p] = "close"
    /\ SourceTo(p, "closed")
    /\ \/ LosesName(p) /\ Goto(p, "release")
       \/ (LosesName(p) \/ UNCHANGED dir) /\ Answer(p, "unconfirmed")
    /\ UNCHANGED <<dirDisk, sealed, text, flushed, extra, stamp, late, in, src,
                   tmp, read, meddled, losses>>

Release(p) ==
    /\ pc[p] = "release"
    /\ Answer(p, "ok")
    /\ UNCHANGED <<world, in, src, srcState, tmp, read, meddled, losses>>

-----------------------------------------------------------------------------
(* The surroundings.                                                       *)

Meddle == meddled < MaxMeddling /\ meddled' = meddled + 1

\* Another program makes a file under a free name, or removes a file nobody holds.
Intrude == \E n \in Name :
    /\ Meddle
    /\ \/ /\ dir[n] = None /\ \A p \in Proc : src[p] # Other
          /\ \A m \in Name : dir[m] # Other /\ dirDisk[m] # Other
          /\ dir' = [dir EXCEPT ![n] = Other]
       \/ /\ dir[n] # None /\ ~Held(dir[n])
          /\ dir' = [dir EXCEPT ![n] = None]
    /\ UNCHANGED <<dirDisk, sealed, text, flushed, extra, stamp, late, pc, in,
                   src, srcState, tmp, read, result, losses>>

\* A user's or another program's file is written into, a held source through
\* a view mapped earlier; the time of the last write may lag behind.
Change == \E n \in Name : LET f == dir[n] IN
    /\ Meddle
    /\ f # None /\ ~(f \in Proc /\ HoldsOutput(f))
    /\ \E t \in (IF sealed[f] THEN {Bad} ELSE Text) : text' = [text EXCEPT ![f] = t]
    /\ \E s \in {{}, {f}} : stamp' = stamp \cup s
    /\ late' = (late \/ \E p \in Proc : /\ src[p] = f /\ HoldsSource(p)
                                        /\ pc[p] \notin {"absent", "create",
                                              "arm", "read", "readrest", "sync",
                                              "readback", "metadata", "source"})
    /\ UNCHANGED <<dir, dirDisk, sealed, flushed, extra, pc, in, src, srcState,
                   tmp, read, result, losses>>

\* A file gets a hard link or a stream; one that is marked for deletion cannot.
Attach == \E f \in File, x \in Extra :
    /\ Meddle
    /\ \/ \E n \in Name : dir[n] = f
       \/ f \in Proc /\ tmp[f] = "plain" /\ pc[f] \in {"recheck", "rename"}
    /\ ~DeletePending(f)
    /\ extra' = [extra EXCEPT ![f] = @ \cup {x}]
    /\ UNCHANGED <<dir, dirDisk, sealed, text, flushed, stamp, late, pc, in, src,
                   srcState, tmp, read, result, losses>>

\* Storage damages bytes between their writing and the reading back.
Damage == \E p \in Proc :
    /\ Meddle
    /\ pc[p] \in {"sync", "readback"}
    /\ text' = [text EXCEPT ![p] = Bad]
    /\ UNCHANGED <<dir, dirDisk, sealed, flushed, extra, stamp, late, pc, in,
                   src, srcState, tmp, read, result, losses>>

\* Handles close: what is marked for deletion goes.
Kill(p) ==
    /\ pc[p] \notin {"idle", "done"}
    /\ Answer(p, "killed")
    /\ tmp' = [tmp EXCEPT ![p] = CASE @ = "pending" -> "gone"
                                  [] @ = "plain" -> "left"
                                  [] OTHER -> @]
    /\ dir' = IF srcState[p] = "pending" THEN Unnamed(src[p]) ELSE dir
    /\ SourceTo(p, IF srcState[p] = "none" THEN "none" ELSE "closed")
    /\ UNCHANGED <<dirDisk, sealed, text, flushed, extra, stamp, late, in, src,
                   read, meddled, losses>>

\* Matters as long as there can be a power failure.
WriteBack == \E n \in Name :
    /\ dirDisk[n] # dir[n] /\ losses < MaxLoss
    /\ dirDisk' = [dirDisk EXCEPT ![n] = dir[n]]
    /\ UNCHANGED <<dir, sealed, text, flushed, extra, stamp, late, pc, in, src,
                   srcState, tmp, read, result, meddled, losses>>

\* Marks for deletion and bytes that were not flushed are lost.
PowerLoss ==
    /\ losses < MaxLoss
    /\ losses' = losses + 1
    /\ dir' = dirDisk
    /\ LET running == {p \in Proc : pc[p] \notin {"idle", "done"}} IN
         /\ text' = [f \in File |-> IF f \in running \ flushed THEN Bad ELSE text[f]]
         /\ pc' = [p \in Proc |-> IF p \in running THEN "done" ELSE pc[p]]
         /\ result' = [p \in Proc |-> IF p \in running THEN "killed" ELSE result[p]]
         /\ srcState' = [p \in Proc |-> IF srcState[p] = "none" THEN "none"
                                        ELSE "closed"]
         /\ tmp' = [p \in Proc |-> IF tmp[p] \in {"plain", "pending"} THEN "left"
                                   ELSE tmp[p]]
    /\ UNCHANGED <<dirDisk, sealed, flushed, extra, stamp, late, in, src, read,
                   meddled>>

StepOf(p) ==
    \/ Begin(p) \/ OpenSource(p) \/ CheckAbsent(p) \/ Create(p) \/ Arm(p)
    \/ ReadFirst(p) \/ ReadRest(p) \/ Sync(p) \/ Readback(p) \/ Metadata(p)
    \/ CheckSource(p) \/ ClearDelete(p) \/ Recheck(p) \/ StopBeforePublication(p)
    \/ Rename(p) \/ FlushPublished(p)
    \/ DeleteCheck(p) \/ MarkDelete(p) \/ FinalCheck(p) \/ CloseSource(p)
    \/ Release(p)

Next ==
    \/ \E p \in Proc : StepOf(p) \/ Kill(p)
    \/ Intrude \/ Change \/ Attach \/ Damage \/ WriteBack \/ PowerLoss

Spec == Init /\ [][Next]_vars

-----------------------------------------------------------------------------
(* Properties.                                                             *)

\* Some file with a name holds text t, and a power failure keeps it so.
Safe(t) == \E n \in Name : LET f == dir[n] IN
    f # None /\ dirDisk[n] = f /\ f \in flushed /\ text[f] = t

\* No step of a command, no kill and no power failure takes the last copy of
\* a text (README.md: "never losing the original before a complete,
\* authenticated, flushed, read-back-verified output exists"); only other
\* programs do, or a write into the source after its last look.
NeverNeither ==
    [][\A t \in Text : Safe(t) /\ ~Safe(t)' =>
          meddled' # meddled \/ late]_vars

\* While a command still holds the file it has published, and may delete its
\* source for it, that file is on disk and holds the one text it has read.
PublishedIsWhole ==
    \A p \in Proc : tmp[p] = "named" /\ pc[p] # "done" =>
        p \in flushed /\ text[p] = read[p] /\ read[p] \in Text

\* What each answer says of the two names is true when it is given.
SaysTrue(p) == LET here == dir[in[p]]  there == dir[Out(in[p])] IN
    CASE result[p] \in {"exists", "error"} ->
           /\ \A n \in Name : dir[n] # p
           /\ src[p] # None => here = src[p]
      [] result[p] = "published_retained" -> there = p /\ here = src[p]
      [] result[p] = "committed_retained" ->
           there = p /\ dirDisk[Out(in[p])] = p /\ here = src[p]
      [] result[p] = "unconfirmed" -> there = p /\ dirDisk[Out(in[p])] = p
      [] result[p] = "ok" ->
           /\ there = p /\ dirDisk[Out(in[p])] = p
           /\ \A n \in Name : dir[n] # src[p]
      [] OTHER -> TRUE

AnswersAreTrue ==
    [][\A p \in Proc : result'[p] # result[p] => SaysTrue(p)']_vars

\* A command that reports success has deleted nothing but the bytes it read:
\* no alternate stream, no name of a file that is linked elsewhere, however
\* late they were attached.
OkLosesNothing ==
    [][\A p \in Proc : result[p] # "ok" /\ result'[p] = "ok" =>
          extra[src[p]] = {}]_vars

\* What a failure or a kill leaves behind without a name is never a part of an
\* output or damaged: it is empty (delete-on-close could not be armed, or was
\* not yet), or it is the complete output, flushed, read back and still what
\* its source said when it was compared.  That complete output, plaintext of a
\* decryption included, does stay behind: after a kill between clear_delete and
\* the rename ("Publication briefly clears this state before rename"), and after
\* an error there when Drop cannot mark it again.  Of a power failure, which
\* also loses the mark, nothing is promised.
LeftoversAreWhole ==
    \A p \in Proc : tmp[p] = "left" /\ losses = 0 =>
        \/ text[p] = Empty
        \/ p \in flushed /\ text[p] = read[p] /\ read[p] \in Text

\* Nobody's file is replaced: a name passes from one file to another only by
\* becoming free first.
NeverReplaced ==
    [][\A n \in Name : dir[n] # None /\ dir'[n] # dir[n] =>
          dir'[n] = None \/ losses' # losses]_vars

\* A published file that may cost the source its name is whole and on disk;
\* a temporary file that a failure or a kill leaves behind is empty or whole.
Inv == TypeOK /\ PublishedIsWhole /\ LeftoversAreWhole

\* An answer is true of both names when it is given, and success has deleted
\* nothing but what was read.
AnswersHold == AnswersAreTrue /\ OkLosesNothing

-----------------------------------------------------------------------------
(* The abstract specification, with its state read off this one's.         *)

Status(p) ==
    CASE pc[p] = "idle" -> "idle"
      [] pc[p] = "flush" -> "published"
      [] pc[p] \in {"delcheck", "mark", "final", "close"} -> "settled"
      [] pc[p] = "release" -> "moved"
      [] pc[p] = "done" -> IF result[p] \in {"exists", "error"} THEN "failed" ELSE result[p]
      [] OTHER -> "working"

M == INSTANCE MovePromise WITH
        Client <- Proc, Foreign <- {Orig, Other}, Nobody <- None,
        Beside <- [n \in Name |-> Out(n)],
        holder <- dir, safe <- dirDisk, status <- [p \in Proc |-> Status(p)],
        from <- in, source <- src, turns <- meddled + losses

\* Whatever a command does between them, it changes names twice at most: the
\* output appears where nothing was, and once it is there for good the source
\* goes; and its answer says which of the two has happened.
KeepsThePromise == M!Spec
=============================================================================

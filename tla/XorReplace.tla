----------------------------- MODULE XorReplace -----------------------------
(***************************************************************************)
(* In-place replacement of one file by its transformed image: the otp1 and *)
(* otp2 commands (XOR with key.key) and otp1-auth (seal, verify, unwrap).  *)
(* The output is staged under a temporary name beside the input,           *)
(* synchronised, and renamed over the input after the file, the key and    *)
(* both names have been looked at again.                                   *)
(*                                                                         *)
(* XOR is its own inverse, so a caller that repeats a call because it      *)
(* reported an error undoes the encryption if the first call had taken     *)
(* effect.  The file system may report an error for a rename it carried    *)
(* out (OTP2/otp2/src/lib.rs:590); otp2 then decides from both names what  *)
(* happened, otp1 takes the report at face value.                          *)
(*                                                                         *)
(* A content is a text with the layers put on it; two contents are equal   *)
(* iff the text and the layers are.  Every edit of the file writes a text  *)
(* of its own, so a content also stands for the stamps (size, mtime,       *)
(* ctime) that FileSnapshot compares.  The temporary file of process p is  *)
(* the inode p, and its name is p: names hold a 64 or 128 bit nonce.  The  *)
(* n-th change made by somebody else makes the text, or the inode, n.      *)
(***************************************************************************)
EXTENDS Integers, Sequences

CONSTANTS
    Proc,        \* invocations; each transforms (or verifies) the one file
    Tools,       \* "otp1" (with otp1-auth), "otp2" or both
    Late,        \* tools whose renames may take effect and report an error
    MaxEvents,   \* bound: changes by somebody else, damages, power failures
    None         \* no inode

Input == 0                          \* the name of the file
Key   == 0..MaxEvents               \* contents of the key file
Text  == 0..MaxEvents
Torn  == -1                         \* a text that nobody wrote
AllOps == {"xor", "seal", "unwrap", "verify"}
OpsOf(t) == IF t = "otp1" THEN AllOps ELSE {"xor"}
Name  == Proc \cup {Input}
Inode == Proc \cup 0..MaxEvents     \* 0 is the file as it was first

ASSUME ReplaceAssumption ==
    /\ Tools \subseteq {"otp1", "otp2"}
    /\ Late \subseteq Tools
    /\ MaxEvents \in Nat
    /\ Proc \cap Int = {}
    /\ None \notin Inode

VARIABLES
    tool,           \* the tool every call of a behaviour is of
    dir, dirDisk,   \* the inode behind each name: in memory, synchronised
    content,        \* what each inode holds
    synced,         \* inodes whose content is on disk
    key,            \* what the key file holds
    pc, op, result,
    opened,         \* the inode each process opened
    snap,           \* the content and the key it found then
    half,           \* the content and the key when it had read one half
    landed,         \* history: its output has had the file's name
    missed,         \* history: changes since it last looked
    events          \* what the surroundings have done so far

diskVars == <<dir, dirDisk, content, synced>>
jobVars  == <<op, opened, snap, half>>
vars == <<tool, dir, dirDisk, content, synced, key, pc, op, result, opened, snap,
          half, landed, missed, events>>

-----------------------------------------------------------------------------
Layer   == {"xor", "seal"} \X Key
Content == [text : Text \cup {Torn}, layers : Seq(Layer)]
View    == [content : Content, key : Key]
Step    == {"idle", "stage", "read1", "read2", "check", "sync", "validate",
            "handles", "names", "tempname", "destname", "rename", "decide",
            "kept", "gone", "dirsync", "dirsync_warned", "done"}
Result  == {"none", "committed", "uncertain", "error", "verified", "killed"}
Change  == {"edited", "replaced"}

Plain(t) == [text |-> t, layers |-> <<>>]
Garbage  == [text |-> Torn, layers |-> <<>>]
NoView   == [content |-> Garbage, key |-> 0]

TopIs(c, l) == c.layers # <<>> /\ c.layers[Len(c.layers)] = l
IsSealed(c) == \E k \in Key : TopIs(c, <<"seal", k>>)
Push(c, l)  == [c EXCEPT !.layers = Append(@, l)]
Pop(c)      == [c EXCEPT !.layers = SubSeq(@, 1, Len(@) - 1)]

\* The tag over the header and the payload verifies under key k.
HeaderOnly(c, k) == c.text # Torn /\ IsSealed(c)        \* mutant of Authentic
Authentic(c, k) == c.text # Torn /\ TopIs(c, <<"seal", k>>)

\* What operation o makes of content c under key k.
Image(o, c, k) ==
    CASE o = "xor"    -> IF TopIs(c, <<"xor", k>>) THEN Pop(c)
                                                   ELSE Push(c, <<"xor", k>>)
      [] o = "seal"   -> Push(c, <<"seal", k>>)
      [] o = "unwrap" -> Pop(c)
      [] o = "verify" -> c

TypeOK ==
    /\ tool \in Tools
    /\ dir \in [Name -> Inode \cup {None}]
    /\ dirDisk \in [Name -> Inode \cup {None}]
    /\ content \in [Inode -> Content]
    /\ synced \in SUBSET Inode
    /\ key \in Key
    /\ pc \in [Proc -> Step] /\ op \in [Proc -> AllOps \cup {"none"}]
    /\ result \in [Proc -> Result]
    /\ opened \in [Proc -> Inode \cup {None}]
    /\ snap \in [Proc -> View] /\ half \in [Proc -> View]
    /\ landed \in [Proc -> BOOLEAN]
    /\ missed \in [Proc -> SUBSET Change]
    /\ events \in 0..MaxEvents

Init ==
    /\ tool \in Tools
    /\ dir = [n \in Name |-> IF n = Input THEN 0 ELSE None]
    /\ dirDisk = dir
    /\ content = [i \in Inode |-> IF i = 0 THEN Plain(0) ELSE Garbage]
    /\ synced = {0}
    /\ key = 0
    /\ pc = [p \in Proc |-> "idle"]
    /\ op = [p \in Proc |-> "none"]
    /\ result = [p \in Proc |-> "none"]
    /\ opened = [p \in Proc |-> None]
    /\ snap = [p \in Proc |-> NoView]
    /\ half = [p \in Proc |-> NoView]
    /\ landed = [p \in Proc |-> FALSE]
    /\ missed = [p \in Proc |-> {}]
    /\ events = 0

-----------------------------------------------------------------------------
Goto(p, s) == pc' = [pc EXCEPT ![p] = s] /\ UNCHANGED <<tool, result>>

Answer(p, r) ==
    /\ pc' = [pc EXCEPT ![p] = "done"]
    /\ result' = [result EXCEPT ![p] = r]
    /\ UNCHANGED tool

\* Dropping an uncommitted SiblingTemp removes the temporary name, if it still
\* names the temporary file; the removal may fail.
Dropped(p) == {dir} \cup (IF dir[p] = p THEN {[dir EXCEPT ![p] = None]} ELSE {})

\* An error before the rename: the input has not been touched.
Abandon(p) ==
    /\ Answer(p, "error")
    /\ dir' \in Dropped(p)
    /\ UNCHANGED <<dirDisk, content, synced, key, jobVars, landed, missed, events>>

\* Any system call before the rename may fail.
Fail(p) ==
    /\ pc[p] \in {"stage", "read1", "read2", "check", "sync", "validate",
                  "handles", "names", "tempname", "destname"}
    /\ Abandon(p)

-----------------------------------------------------------------------------
(* Opening, staging and reading.                                           *)

\* The header test of each operation: seal refuses an envelope, verify and
\* unwrap refuse anything else.
Acceptable(o, c) ==
    CASE o = "xor" -> TRUE
      [] o = "seal" -> ~IsSealed(c)
      [] OTHER -> IsSealed(c)

Open(p) == \E o \in OpsOf(tool) :
    /\ pc[p] = "idle"
    /\ dir[Input] # None
    /\ LET seen == content[dir[Input]]
       IN /\ op' = [op EXCEPT ![p] = o]
          /\ opened' = [opened EXCEPT ![p] = dir[Input]]
          /\ snap' = [snap EXCEPT ![p] = [content |-> seen, key |-> key]]
          /\ IF Acceptable(o, seen)
             THEN Goto(p, IF o = "verify" THEN "read1" ELSE "stage")
             ELSE Answer(p, "error")
    /\ missed' = [missed EXCEPT ![p] = {}]
    /\ UNCHANGED <<diskVars, key, half, landed, events>>

\* SiblingTemp::create: a new file under a new name.
CreateTemp(p) ==
    /\ pc[p] = "stage"
    /\ dir' = [dir EXCEPT ![p] = p]
    /\ Goto(p, "read1")
    /\ UNCHANGED <<dirDisk, content, synced, key, jobVars, landed, missed, events>>

ReadFirstHalf(p) ==
    /\ pc[p] = "read1"
    /\ half' = [half EXCEPT ![p] = [content |-> content[opened[p]], key |-> key]]
    /\ Goto(p, "read2")
    /\ UNCHANGED <<diskVars, key, op, opened, snap, landed, missed, events>>

\* The key an operation uses: otp1 and otp2 stream it beside the file,
\* otp1-auth has loaded it when it opened it.
KeyUsed(p) == IF op[p] = "xor" THEN key ELSE snap[p].key

\* The halves belong together iff nothing changed between the two reads.
Consistent(p) ==
    /\ half[p].content = content[opened[p]]
    /\ op[p] = "xor" => half[p].key = key

ReadSecondHalf(p) ==
    /\ pc[p] = "read2"
    /\ LET now == IF Consistent(p) THEN content[opened[p]] ELSE Garbage
       IN IF op[p] \in {"verify", "unwrap"} /\ ~Authentic(now, KeyUsed(p))
          THEN Abandon(p)
          ELSE /\ content' = IF op[p] = "verify" THEN content
                  ELSE [content EXCEPT ![p] =
                          IF now.text = Torn THEN Garbage
                          ELSE Image(op[p], now, KeyUsed(p))]
               /\ Goto(p, "check")
               /\ UNCHANGED <<dir, dirDisk, synced, key, jobVars, landed,
                              missed, events>>

-----------------------------------------------------------------------------
(* Checks, synchronisation and the rename.                                 *)

\* ensure_unchanged on both handles.  A file that was replaced has lost its
\* link, which the snapshot counts.
KeyUnchanged(p) == key = snap[p].key                    \* mutant of Unchanged
Unchanged(p) ==
    /\ content[opened[p]] = snap[p].content
    /\ dir[Input] = opened[p]
    /\ key = snap[p].key

CheckRead(p) ==
    /\ pc[p] = "check"
    /\ IF Unchanged(p)
       THEN /\ Goto(p, IF op[p] = "verify" THEN "names" ELSE "sync")
            /\ missed' = [missed EXCEPT ![p] = @ \ {"edited"}]
            /\ UNCHANGED <<diskVars, key, jobVars, landed, events>>
       ELSE Abandon(p)

\* Permissions, flush, sync_all, and the length and link count of the result.
NoSync(p) == synced                                     \* mutant of SyncedBy
SyncedBy(p) == synced \cup {p}

SyncTemp(p) ==
    /\ pc[p] = "sync"
    /\ synced' = SyncedBy(p)
    /\ Goto(p, IF op[p] = "xor" THEN "handles" ELSE "validate")
    /\ UNCHANGED <<dir, dirDisk, content, key, jobVars, landed, missed, events>>

\* otp1-auth reads the staged output back under the same tag.
Valid(p) == content[p].text # Torn

Validate(p) ==
    /\ pc[p] = "validate"
    /\ IF Valid(p)
       THEN /\ Goto(p, "handles")
            /\ UNCHANGED <<diskVars, key, jobVars, landed, missed, events>>
       ELSE Abandon(p)

\* The last look at the open files: input, key, temporary file.  A temporary
\* file that lost its name has no link left.
RecheckHandles(p) ==
    /\ pc[p] = "handles"
    /\ IF Unchanged(p) /\ dir[p] = p
       THEN /\ Goto(p, "names")
            /\ missed' = [missed EXCEPT ![p] = @ \ {"edited"}]
            /\ UNCHANGED <<diskVars, key, jobVars, landed, events>>
       ELSE Abandon(p)

AnyTarget(p) == TRUE                                    \* mutant of StillNamed
StillNamed(p) == dir[Input] = opened[p]

\* The last look at the names; a verify ends here.
RecheckNames(p) ==
    /\ pc[p] = "names"
    /\ IF StillNamed(p)
       THEN /\ IF op[p] = "verify" THEN Answer(p, "verified")
                                   ELSE Goto(p, "tempname")
            /\ missed' = [missed EXCEPT ![p] = @ \ {"replaced"}]
            /\ UNCHANGED <<diskVars, key, jobVars, landed, events>>
       ELSE Abandon(p)

\* SiblingTemp::commit: the temporary name still names the temporary file.
CheckTempName(p) ==
    /\ pc[p] = "tempname"
    /\ IF dir[p] = p
       THEN /\ Goto(p, IF tool = "otp2" THEN "destname" ELSE "rename")
            /\ UNCHANGED <<diskVars, key, jobVars, landed, missed, events>>
       ELSE Abandon(p)

\* otp2 looks at the destination once more.
CheckDestName(p) ==
    /\ pc[p] = "destname"
    /\ IF StillNamed(p)
       THEN /\ Goto(p, "rename")
            /\ missed' = [missed EXCEPT ![p] = @ \ {"replaced"}]
            /\ UNCHANGED <<diskVars, key, jobVars, landed, events>>
       ELSE Abandon(p)

\* What a rename that takes effect does: it moves whatever the name p names.
Moved(p) ==
    /\ dir[p] # None
    /\ dir' = [dir EXCEPT ![Input] = dir[p], ![p] = None]
    /\ landed' = [landed EXCEPT ![p] = dir[p] = p]
    /\ missed' = [q \in Proc |-> IF q = p THEN missed[p]
                                 ELSE missed[q] \cup {"replaced"}]
    /\ UNCHANGED <<dirDisk, content, synced, key, jobVars, events>>

RenameOk(p) ==
    /\ pc[p] = "rename"
    /\ Moved(p)
    /\ Goto(p, "dirsync")

\* An error: otp1 reports it, and drops (and tries to remove) the temporary
\* file; otp2 looks at the names.
TrustError(p) ==                                        \* mutant of Rejected
    Answer(p, "error")
Rejected(p) == IF tool = "otp2" THEN Goto(p, "decide") ELSE Answer(p, "error")

RenameErrorLate(p) ==
    /\ tool \in Late
    /\ pc[p] = "rename"
    /\ Moved(p)
    /\ Rejected(p)

RenameError(p) ==
    /\ pc[p] = "rename"
    /\ IF tool = "otp2"
       THEN /\ Rejected(p)
            /\ UNCHANGED <<diskVars, key, jobVars, landed, missed, events>>
       ELSE Abandon(p)

\* otp2 reads the identity behind the temporary name, then behind the input's.
DecideSource(p) ==
    /\ pc[p] = "decide"
    /\ Goto(p, IF dir[p] = p THEN "kept" ELSE "gone")
    /\ UNCHANGED <<diskVars, key, jobVars, landed, missed, events>>

GoneIsAnError(p) ==                                 \* mutant of DecideDestination
    /\ pc[p] \in {"kept", "gone"}
    /\ IF dir[Input] # p
       THEN Abandon(p)
       ELSE /\ Goto(p, "dirsync_warned")
            /\ UNCHANGED <<diskVars, key, jobVars, landed, missed, events>>

DecideDestination(p) ==
    /\ pc[p] \in {"kept", "gone"}
    /\ IF pc[p] = "kept" /\ dir[Input] # p
       THEN Abandon(p)
       ELSE /\ IF pc[p] = "gone" /\ dir[Input] = p
               THEN Goto(p, "dirsync_warned")
               ELSE Answer(p, "uncertain")
            /\ UNCHANGED <<diskVars, key, jobVars, landed, missed, events>>

\* Synchronising the directory, and the outcome.
DirectorySynced(p) == dirDisk' = dir

NotDurable(p) == "uncertain"

SyncDirectory(p) ==
    /\ pc[p] \in {"dirsync", "dirsync_warned"}
    /\ \/ /\ DirectorySynced(p)
          /\ Answer(p, IF pc[p] = "dirsync" THEN "committed" ELSE "uncertain")
       \/ /\ Answer(p, NotDurable(p))
          /\ UNCHANGED dirDisk
    /\ UNCHANGED <<dir, content, synced, key, jobVars, landed, missed, events>>

-----------------------------------------------------------------------------
(* The surroundings: another program, the storage, a kill, a power failure.*)

Happens == events < MaxEvents /\ events' = events + 1
SomebodySaw(change) == missed' = [q \in Proc |-> missed[q] \cup {change}]

\* Somebody writes another text into the file.
EditInPlace ==
    /\ Happens
    /\ dir[Input] # None
    /\ content' = [content EXCEPT ![dir[Input]] = Plain(events + 1)]
    /\ SomebodySaw("edited")
    /\ UNCHANGED <<tool, dir, dirDisk, synced, key, pc, result, jobVars, landed>>

\* Somebody saves a new file over the name, and synchronises it.
ReplaceInput ==
    /\ Happens
    /\ content' = [content EXCEPT ![events + 1] = Plain(events + 1)]
    /\ synced' = synced \cup {events + 1}
    /\ dir' = [dir EXCEPT ![Input] = events + 1]
    /\ dirDisk' = [dirDisk EXCEPT ![Input] = events + 1]
    /\ SomebodySaw("replaced")
    /\ UNCHANGED <<tool, key, pc, result, jobVars, landed>>

\* Somebody removes a temporary name or puts another file there.
MeddleWithTemp(p) ==
    /\ Happens
    /\ dir[p] # None
    /\ content' = [content EXCEPT ![events + 1] = Plain(events + 1)]
    /\ synced' = synced \cup {events + 1}
    /\ \E i \in {None, events + 1} : dir' = [dir EXCEPT ![p] = i]
    /\ UNCHANGED <<tool, dirDisk, key, pc, result, jobVars, landed, missed>>

\* Somebody changes the key file.
Rekey ==
    /\ Happens
    /\ key' = events + 1
    /\ UNCHANGED <<tool, diskVars, pc, result, jobVars, landed, missed>>

\* The storage damages a staged output that is going to be read back.
Damage(p) ==
    /\ Happens
    /\ pc[p] = "validate"
    /\ content' = [content EXCEPT ![p] = Garbage]
    /\ UNCHANGED <<tool, dir, dirDisk, synced, key, pc, result, jobVars, landed,
                   missed>>

Kill(p) ==
    /\ pc[p] \notin {"idle", "done"}
    /\ Answer(p, "killed")
    /\ UNCHANGED <<diskVars, key, jobVars, landed, missed, events>>

\* Every process stops; a name may go back to what it named on disk, and a
\* content that was not synchronised may be lost.
PowerLoss ==
    /\ Happens
    /\ \E back \in SUBSET Name :
         /\ dir' = [n \in Name |-> IF n \in back THEN dirDisk[n] ELSE dir[n]]
         /\ dirDisk' = dir'
    /\ \E lost \in SUBSET (Inode \ synced) :
         content' = [i \in Inode |-> IF i \in lost THEN Garbage ELSE content[i]]
    /\ pc' = [p \in Proc |-> IF pc[p] = "idle" THEN "idle" ELSE "done"]
    /\ result' = [p \in Proc |-> IF pc[p] \in {"idle", "done"} THEN result[p]
                                 ELSE "killed"]
    /\ UNCHANGED <<tool, synced, key, jobVars, landed, missed>>

StepOf(p) ==
    \/ Open(p) \/ CreateTemp(p) \/ ReadFirstHalf(p) \/ ReadSecondHalf(p)
    \/ CheckRead(p) \/ SyncTemp(p) \/ Validate(p) \/ RecheckHandles(p)
    \/ RecheckNames(p) \/ CheckTempName(p) \/ CheckDestName(p)
    \/ RenameOk(p) \/ RenameErrorLate(p) \/ RenameError(p)
    \/ DecideSource(p) \/ DecideDestination(p) \/ SyncDirectory(p) \/ Fail(p)

Next ==
    \/ \E p \in Proc : StepOf(p) \/ MeddleWithTemp(p) \/ Damage(p) \/ Kill(p)
    \/ EditInPlace \/ ReplaceInput \/ Rekey \/ PowerLoss

Spec == Init /\ [][Next]_vars

-----------------------------------------------------------------------------
(* Properties.                                                             *)

\* The file is at every moment, also after a power failure at any step, a
\* content that somebody wrote or the complete image of one
\* (otp1/src/lib.rs:189: no write is made to the input path until a complete
\* sibling has been written and synchronized).
NeverTorn ==
    /\ dir[Input] # None => content[dir[Input]].text # Torn
    /\ dirDisk[Input] # None => dirDisk[Input] \in synced

\* A call that reports an error (exit status 1) has not had its output under
\* the file's name, however the rename behaved and whatever happened to both
\* names meanwhile: repeating the call does not undo an encryption
\* (OTP2/otp2/src/lib.rs: encrypt_in_place, SiblingTemp::commit).
ErrorMeansNotApplied ==
    \A p \in Proc : result[p] = "error" => ~landed[p]

\* After a call reported success, the file it replaced does not come back
\* under the name, not even after a power failure (the directory is
\* synchronised before Committed is returned).
CommittedStays ==
    \A p \in Proc : result[p] = "committed" =>
        dir[Input] # opened[p] /\ dirDisk[Input] # opened[p]

\* Both answers hold: an error was not applied, and a success stays applied.
AnswersHold == ErrorMeansNotApplied /\ CommittedStays

\* What a rename puts under the file's name is the image, under one key, of
\* the whole file as it was opened: never half of one text and half of
\* another, and never under half of each of two keys.
LandsTheImage ==
    [][\A p \in Proc : landed'[p] /\ ~landed[p] =>
          content[p] = Image(op[p], snap[p].content, snap[p].key)]_vars

\* A change made by somebody else to the file is overwritten only if it was
\* made after the call's last look: at the open file for an edit in place, at
\* the name for a replacement (the window both READMEs describe).
OnlyLateChangesAreLost ==
    [][\A p \in Proc : landed'[p] /\ ~landed[p] =>
          \/ /\ dir[Input] = opened[p]
             /\ content[opened[p]] = snap[p].content
          \/ missed[p] # {}]_vars

\* verify says yes, and unwrap strips an envelope, only for a file whose tag
\* was made under the key the call uses (auth.rs: verify_payload_and_tag).
VerifiedUnderThisKey ==
    \A p \in Proc :
        result[p] = "verified" \/ (landed[p] /\ op[p] = "unwrap")
            => TopIs(snap[p].content, <<"seal", snap[p].key>>)

Turned(c, d) == \E o \in AllOps, k \in Key : d = Image(o, c, k)

\* The promise of the tools, read off the names and the steps.
Promise == INSTANCE ReplacePromise WITH
    Client <- Proc,
    Whole  <- {Plain(t) : t \in Text},
    Turns  <- Turned,
    shown  <- content[dir[Input]],
    safe   <- content[dirDisk[Input]],
    phase  <- [p \in Proc |-> IF pc[p] = "idle" THEN "idle"
                              ELSE IF pc[p] = "done" THEN "over"
                              ELSE IF landed[p] THEN "applied"
                              ELSE IF pc[p] = "dirsync" THEN "displaced"
                              ELSE "working"],
    view   <- [p \in Proc |-> IF pc[p] = "idle" THEN Plain(0)
                              ELSE snap[p].content],
    answer <- result

\* Every behaviour of the tools is one the promise allows, also when somebody
\* meddles with temporary names.
KeepsThePromise == Promise!Spec
=============================================================================

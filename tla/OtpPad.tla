------------------------------- MODULE OtpPad -------------------------------
(***************************************************************************)
(* The single-use discipline of the otp tool (src/otp/src/lib.rs).         *)
(*                                                                         *)
(* A pad pair has one identifier.  Its sender file may encrypt once and    *)
(* its receiver file may decrypt once.  Use is recorded twice: by a marker *)
(* byte inside the pad file and by a create-once record (the ledger) in a  *)
(* per-account state directory.  Every process below is one invocation of  *)
(* the command line tool; processes share the file system and nothing else.*)
(*                                                                         *)
(* File contents are abstracted to what the properties tell apart: a pad   *)
(* file is an inode whose identifier and role never change and whose       *)
(* marker does; an output path holds nothing, somebody else's file, an     *)
(* envelope, a damaged envelope or a plaintext.  HMAC and SHA-256 are      *)
(* perfect: an envelope authenticates iff it was sealed under that pad     *)
(* identifier and not changed since.                                       *)
(*                                                                         *)
(* Durability is explicit.  Each variable x with a partner xDisk is what   *)
(* running processes see; xDisk is what has been synchronised.  A power    *)
(* loss stops every process and may revert any object to its xDisk value,  *)
(* or may not (the kernel may have written it back on its own).            *)
(***************************************************************************)
EXTENDS Integers, FiniteSets

CONSTANTS
    Proc,       \* invocations of the tool; each runs one command
    PadId,      \* pad identifiers
    PadFile,    \* pad files (inodes), copies of a pad included
    IdOf,       \* PadFile -> PadId: the identifier in the file's header
    RoleOf,     \* PadFile -> Role: the role in the file's header
    Restorable, \* pad files that only exist once somebody copies a pad to them
    StateDir,   \* ledger directories (--state-dir, OTP_STATE_DIR)
    FreshDir,   \* those that do not exist before the tool creates them
    Path,       \* names for envelopes and plaintexts
    Message,    \* plaintexts
    Ops,        \* commands the invocations may run
    MaxLoss,    \* bound: power failures
    None        \* no process, no message

Role == {"sender", "receiver"}
AllOps == {"encrypt", "decrypt", "destroy", "info"}

ASSUME PadAssumption ==
    /\ IdOf \in [PadFile -> PadId]
    /\ RoleOf \in [PadFile -> Role]
    /\ Restorable \subseteq PadFile
    /\ FreshDir \subseteq StateDir
    /\ Ops \subseteq AllOps
    /\ MaxLoss \in Nat
    /\ None \notin Proc \cup Message \cup PadId \cup PadFile \cup StateDir \cup Path

VARIABLES
    mark, markDisk,     \* marker of each pad file
    ledger, ledgerDisk, \* usage records in each state directory
    durableDir,         \* state directories whose own entry is on disk
    file, fileDisk,     \* contents of each output path
    lock,               \* exclusive holder of each pad file's lock
    pc,                 \* next step of each process
    job,                \* the command line of each process
    header,             \* identifier decrypt read from the envelope's header
    staged,             \* message in each process's temporary output
    result,             \* how each command ended
    released,           \* history: every output that was ever published
    losses              \* number of power failures

ledgerVars == <<ledger, ledgerDisk, durableDir>>
fileVars == <<file, fileDisk>>
procVars == <<pc, job, header, staged, result>>
vars == <<mark, markDisk, ledger, ledgerDisk, durableDir, file, fileDisk, lock,
          pc, job, header, staged, result, released, losses>>

-----------------------------------------------------------------------------
Marker  == {"absent", "fresh", "consumed", "wiped"}
Usage   == PadId \X Role            \* one ledger record: hex(id)-role.used
Kind    == {"none", "foreign", "envelope", "damaged", "plaintext"}
Content == [kind : Kind, id : PadId \cup {None}, msg : Message \cup {None}]
Job     == [op : AllOps \cup {"none"}, pad : PadFile \cup {None},
            dir : StateDir \cup {None}, in : Path \cup {None},
            out : Path \cup {None}, msg : Message \cup {None}]
Step    == {"idle", "lock", "check", "auth", "stage", "reserve", "ledgersync",
            "mark", "marksync", "stream", "commit", "dirsync", "wipe",
            "wipesync", "inspect", "report", "done"}
Result  == {"none", "ok", "refused", "used", "exists", "error",
            "not_durable", "fresh", "consumed", "killed"}
Release == [by : Proc, pad : PadFile, dir : StateDir, use : Usage, msg : Message]

Nothing == [kind |-> "none", id |-> None, msg |-> None]
Foreign == [kind |-> "foreign", id |-> None, msg |-> None]
NoJob   == [op |-> "none", pad |-> None, dir |-> None, in |-> None,
            out |-> None, msg |-> None]

\* The role a command needs, and the ledger record it creates.
RoleFor(op) == IF op = "encrypt" THEN "sender" ELSE "receiver"
UseOf(p) == <<IdOf[job[p].pad], RoleFor(job[p].op)>>

Envelope(id, m)  == [kind |-> "envelope", id |-> id, msg |-> m]
Damaged(id)      == [kind |-> "damaged", id |-> id, msg |-> None]
Plaintext(id, m) == [kind |-> "plaintext", id |-> id, msg |-> m]

\* The HMAC over header and ciphertext verifies under the pad's key.
HeaderMatches(c, id) == c.id = id                       \* mutant of Authentic
Authentic(c, id) == c.kind = "envelope" /\ c.id = id

\* Directories that were there, on disk, before the tool first used them.
Retained == StateDir \ FreshDir

TypeOK ==
    /\ mark \in [PadFile -> Marker] /\ markDisk \in [PadFile -> Marker]
    /\ ledger \in [StateDir -> SUBSET Usage]
    /\ ledgerDisk \in [StateDir -> SUBSET Usage]
    /\ durableDir \in SUBSET StateDir
    /\ file \in [Path -> Content] /\ fileDisk \in [Path -> Content]
    /\ lock \in [PadFile -> Proc \cup {None}]
    /\ pc \in [Proc -> Step]
    /\ job \in [Proc -> Job]
    /\ header \in [Proc -> PadId \cup {None}]
    /\ staged \in [Proc -> Message \cup {None}]
    /\ result \in [Proc -> Result]
    /\ released \subseteq Release
    /\ losses \in 0..MaxLoss

Init ==
    /\ mark = [f \in PadFile |-> IF f \in Restorable THEN "absent" ELSE "fresh"]
    /\ markDisk = mark
    /\ ledger = [d \in StateDir |-> {}]
    /\ ledgerDisk = ledger
    /\ durableDir = Retained
    /\ file = [o \in Path |-> Nothing]
    /\ fileDisk = file
    /\ lock = [f \in PadFile |-> None]
    /\ pc = [p \in Proc |-> "idle"]
    /\ job = [p \in Proc |-> NoJob]
    /\ header = [p \in Proc |-> None]
    /\ staged = [p \in Proc |-> None]
    /\ result = [p \in Proc |-> "none"]
    /\ released = {}
    /\ losses = 0

-----------------------------------------------------------------------------
(* Returning: the temporary output is dropped and the pad's handle closed, *)
(* which releases its lock.                                                *)

LockKept(p) == lock                                     \* mutant of Unlocked
Unlocked(p) == [f \in PadFile |-> IF lock[f] = p THEN None ELSE lock[f]]

Return(p, r) ==
    /\ pc' = [pc EXCEPT ![p] = "done"]
    /\ result' = [result EXCEPT ![p] = r]
    /\ staged' = [staged EXCEPT ![p] = None]
    /\ lock' = Unlocked(p)
    /\ UNCHANGED <<job, header>>

Goto(p, s) ==
    /\ pc' = [pc EXCEPT ![p] = s]
    /\ UNCHANGED <<job, header, staged, result, lock>>

\* Nothing durable and nothing published changes.
Volatile == UNCHANGED <<mark, markDisk, ledgerVars, fileVars, released, losses>>

-----------------------------------------------------------------------------
(* Opening the inputs.  encrypt opens plaintext and pad; decrypt opens the *)
(* envelope and parses its header before it opens the pad.                 *)

BeginEncrypt(p) ==
    /\ pc[p] = "idle" /\ "encrypt" \in Ops
    /\ \E f \in PadFile, d \in StateDir, o \in Path, m \in Message :
          /\ mark[f] # "absent"
          /\ job' = [job EXCEPT ![p] = [op |-> "encrypt", pad |-> f, dir |-> d,
                                        in |-> None, out |-> o, msg |-> m]]
    /\ pc' = [pc EXCEPT ![p] = "lock"]
    /\ UNCHANGED <<header, staged, result, lock>> /\ Volatile

BeginDecrypt(p) ==
    /\ pc[p] = "idle" /\ "decrypt" \in Ops
    /\ \E f \in PadFile, d \in StateDir, i \in Path, o \in Path :
          /\ mark[f] # "absent" /\ i # o
          /\ file[i].kind \in {"envelope", "damaged"}
          /\ job' = [job EXCEPT ![p] = [op |-> "decrypt", pad |-> f, dir |-> d,
                                        in |-> i, out |-> o, msg |-> None]]
          /\ header' = [header EXCEPT ![p] = file[i].id]
    /\ pc' = [pc EXCEPT ![p] = "lock"]
    /\ UNCHANGED <<staged, result, lock>> /\ Volatile

BeginDestroy(p) ==
    /\ pc[p] = "idle" /\ "destroy" \in Ops
    /\ \E f \in PadFile :
          /\ mark[f] # "absent"
          /\ job' = [job EXCEPT ![p] = [NoJob EXCEPT !.op = "destroy", !.pad = f]]
    /\ pc' = [pc EXCEPT ![p] = "lock"]
    /\ UNCHANGED <<header, staged, result, lock>> /\ Volatile

BeginInfo(p) ==
    /\ pc[p] = "idle" /\ "info" \in Ops
    /\ \E f \in PadFile, d \in StateDir :
          /\ mark[f] # "absent"
          /\ job' = [job EXCEPT ![p] =
                        [NoJob EXCEPT !.op = "info", !.pad = f, !.dir = d]]
    /\ pc' = [pc EXCEPT ![p] = "inspect"]
    /\ UNCHANGED <<header, staged, result, lock>> /\ Volatile

-----------------------------------------------------------------------------
(* Under the pad's lock: validate, reserve, mark.                          *)

\* pad.lock(): blocks until no other process holds this inode's lock.
Lock(p) ==
    /\ pc[p] = "lock" /\ lock[job[p].pad] = None
    /\ lock' = [lock EXCEPT ![job[p].pad] = p]
    /\ pc' = [pc EXCEPT ![p] = "check"]
    /\ UNCHANGED <<job, header, staged, result>> /\ Volatile

\* read_pad_header, validate_pad and the tests on the header.
Valid(f) == mark[f] \in {"fresh", "consumed"}

Check(p) ==
    LET f == job[p].pad IN
    /\ pc[p] = "check" /\ Volatile
    /\ \/ ~Valid(f) /\ Return(p, "refused")
       \/ Valid(f) /\ job[p].op = "destroy" /\ Goto(p, "wipe")
       \/ /\ Valid(f) /\ job[p].op # "destroy"
          /\ RoleOf[f] # RoleFor(job[p].op) /\ Return(p, "refused")
       \/ /\ Valid(f) /\ job[p].op # "destroy"
          /\ RoleOf[f] = RoleFor(job[p].op)
          /\ mark[f] = "consumed" /\ Return(p, "used")
       \/ /\ Valid(f) /\ RoleOf[f] = RoleFor(job[p].op)
          /\ mark[f] = "fresh" /\ job[p].op = "encrypt" /\ Goto(p, "stage")
       \/ /\ Valid(f) /\ RoleOf[f] = RoleFor(job[p].op)
          /\ mark[f] = "fresh" /\ job[p].op = "decrypt"
          /\ IF header[p] = IdOf[f] THEN Goto(p, "auth") ELSE Return(p, "refused")

\* authenticate_envelope: a first pass over the whole envelope.
Authenticate(p) ==
    /\ pc[p] = "auth" /\ Volatile
    /\ IF Authentic(file[job[p].in], header[p])
       THEN Goto(p, "stage") ELSE Return(p, "refused")

\* OutputTransaction::new
Stage(p) ==
    /\ pc[p] = "stage" /\ Volatile
    /\ IF file[job[p].out].kind = "none"
       THEN Goto(p, "reserve") ELSE Return(p, "exists")

\* reserve_usage: create_new on the ledger record is the atomic test-and-set.
RecordOverwritten(p) == FALSE                           \* mutant of RecordExists
RecordExists(p) == UseOf(p) \in ledger[job[p].dir]

ReserveCreate(p) ==
    /\ pc[p] = "reserve"
    /\ IF RecordExists(p)
       THEN Return(p, "used") /\ Volatile
       ELSE /\ ledger' = [ledger EXCEPT ![job[p].dir] = @ \cup {UseOf(p)}]
            /\ Goto(p, "ledgersync")
            /\ UNCHANGED <<mark, markDisk, ledgerDisk, durableDir, fileVars,
                           released, losses>>

\* The record and then the directory that names it are synchronised.  A
\* directory that create_dir_all has just made is not on disk itself: nothing
\* synchronises its parent.
RecordBuffered(p) == ledgerDisk                         \* mutant of RecordSynced
RecordSynced(p) == [ledgerDisk EXCEPT ![job[p].dir] = @ \cup {UseOf(p)}]

ReserveSync(p) ==
    /\ pc[p] = "ledgersync" /\ Goto(p, "mark")
    /\ ledgerDisk' = RecordSynced(p)
    /\ UNCHANGED <<mark, markDisk, ledger, durableDir, fileVars, released, losses>>

\* mark_pad_consumed: one byte is written, then synchronised.
Mark(p) ==
    /\ pc[p] = "mark" /\ Goto(p, "marksync")
    /\ mark' = [mark EXCEPT ![job[p].pad] = "consumed"]
    /\ UNCHANGED <<markDisk, ledgerVars, fileVars, released, losses>>

MarkBuffered(p) == markDisk                             \* mutant of PadSynced
PadSynced(p) == [markDisk EXCEPT ![job[p].pad] = mark[job[p].pad]]

MarkSync(p) ==
    /\ pc[p] = "marksync" /\ Goto(p, "stream")
    /\ markDisk' = PadSynced(p)
    /\ UNCHANGED <<mark, ledgerVars, fileVars, released, losses>>

-----------------------------------------------------------------------------
(* Streaming into the temporary file, then publication.                    *)

EncryptStream(p) ==
    /\ pc[p] = "stream" /\ job[p].op = "encrypt"
    /\ staged' = [staged EXCEPT ![p] = job[p].msg]
    /\ pc' = [pc EXCEPT ![p] = "commit"]
    /\ UNCHANGED <<job, header, result, lock>> /\ Volatile

\* The second pass decrypts and authenticates the bytes it decrypts again,
\* because the envelope may have changed since the first pass.
DecryptStream(p) ==
    LET c == file[job[p].in] IN
    /\ pc[p] = "stream" /\ job[p].op = "decrypt" /\ Volatile
    /\ IF Authentic(c, header[p])
       THEN /\ staged' = [staged EXCEPT ![p] = c.msg]
            /\ pc' = [pc EXCEPT ![p] = "commit"]
            /\ UNCHANGED <<job, header, result, lock>>
       ELSE Return(p, "refused")

Output(p) == IF job[p].op = "encrypt"
             THEN Envelope(IdOf[job[p].pad], staged[p])
             ELSE Plaintext(IdOf[job[p].pad], staged[p])

\* OutputTransaction::commit, first half: persist_noclobber.
NameReplaced(o) == FALSE                                \* mutant of NameTaken
NameTaken(o) == file[o].kind # "none"

Commit(p) ==
    LET o == job[p].out IN
    /\ pc[p] = "commit"
    /\ IF NameTaken(o)
       THEN Return(p, "exists") /\ Volatile
       ELSE /\ file' = [file EXCEPT ![o] = Output(p)]
            /\ released' = released \cup
                 {[by |-> p, pad |-> job[p].pad, dir |-> job[p].dir,
                   use |-> UseOf(p), msg |-> staged[p]]}
            /\ Goto(p, "dirsync")
            /\ UNCHANGED <<mark, markDisk, ledgerVars, fileDisk, losses>>

\* Second half: sync_parent, whose failure has an error of its own.
PlainIoError == "error"                                 \* mutant of PublishedButNotDurable
PublishedButNotDurable == "not_durable"

DirSync(p) ==
    LET o == job[p].out IN
    /\ pc[p] = "dirsync"
    /\ \/ fileDisk' = [fileDisk EXCEPT ![o] = file[o]] /\ Return(p, "ok")
       \/ fileDisk' = fileDisk /\ Return(p, PublishedButNotDurable)
    /\ UNCHANGED <<mark, markDisk, ledgerVars, file, released, losses>>

-----------------------------------------------------------------------------
(* destroy_pad and the info command.                                       *)

Wipe(p) ==
    /\ pc[p] = "wipe" /\ Goto(p, "wipesync")
    /\ mark' = [mark EXCEPT ![job[p].pad] = "wiped"]
    /\ UNCHANGED <<markDisk, ledgerVars, fileVars, released, losses>>

WipeSync(p) ==
    /\ pc[p] = "wipesync" /\ Return(p, "ok")
    /\ markDisk' = PadSynced(p)
    /\ UNCHANGED <<mark, ledgerVars, fileVars, released, losses>>

\* inspect_pad takes and drops a shared lock; the ledger is read later.
Inspect(p) ==
    LET f == job[p].pad IN
    /\ pc[p] = "inspect" /\ lock[f] = None /\ Volatile
    /\ \/ ~Valid(f) /\ Return(p, "refused")
       \/ mark[f] = "consumed" /\ Return(p, "consumed")
       \/ mark[f] = "fresh" /\ Goto(p, "report")

\* is_reserved_in
LedgerIgnored(f, d) == FALSE                            \* mutant of IsReservedIn
IsReservedIn(f, d) == <<IdOf[f], RoleOf[f]>> \in ledger[d]

Report(p) ==
    /\ pc[p] = "report" /\ Volatile
    /\ Return(p, IF IsReservedIn(job[p].pad, job[p].dir)
                 THEN "consumed" ELSE "fresh")

-----------------------------------------------------------------------------
(* Failures and the environment.                                           *)

\* Any step before the rename may fail: wrong length, input that grew or
\* shrank, I/O error.  What was reserved or marked stays so.
RollBack(p) ==                                          \* mutant of Burn
    IF pc[p] \in {"ledgersync", "mark"}
    THEN [ledger EXCEPT ![job[p].dir] = @ \ {UseOf(p)}] ELSE ledger
Burn(p) == ledger

Fail(p) ==
    /\ pc[p] \notin {"idle", "done", "dirsync"}
    /\ Return(p, "error")
    /\ ledger' = Burn(p)
    /\ UNCHANGED <<mark, markDisk, ledgerDisk, durableDir, fileVars, released, losses>>

\* The process is killed: the kernel drops its lock, files stay as they are.
Kill(p) ==
    /\ pc[p] \notin {"idle", "done"}
    /\ Return(p, "killed") /\ Volatile

PowerLoss ==
    /\ losses < MaxLoss
    /\ losses' = losses + 1
    /\ mark' \in {g \in [PadFile -> Marker] :
                    \A f \in PadFile : g[f] \in {mark[f], markDisk[f]}}
    /\ markDisk' = mark'
    /\ ledger' \in {g \in [StateDir -> SUBSET Usage] :
                      \A d \in StateDir :
                        \/ ledgerDisk[d] \subseteq g[d] /\ g[d] \subseteq ledger[d]
                        \/ d \notin durableDir /\ g[d] = {}}
    /\ ledgerDisk' = ledger'
    /\ durableDir' = durableDir \cup {d \in StateDir : ledger'[d] # {}}
    /\ file' \in {g \in [Path -> Content] :
                    \A o \in Path : g[o] \in {file[o], fileDisk[o]}}
    /\ fileDisk' = file'
    /\ lock' = [f \in PadFile |-> None]
    /\ pc' = [p \in Proc |-> IF pc[p] = "idle" THEN "idle" ELSE "done"]
    /\ result' = [p \in Proc |-> IF pc[p] \in {"idle", "done"}
                                 THEN result[p] ELSE "killed"]
    /\ staged' = [p \in Proc |-> None]
    /\ UNCHANGED <<job, header, released>>

\* Somebody copies a pad file, or keeps a backup that is put back later.
CopyPad ==
    /\ \E f, g \in PadFile :
          /\ mark[f] # "absent" /\ mark[g] = "absent"
          /\ IdOf[g] = IdOf[f] /\ RoleOf[g] = RoleOf[f]
          /\ mark' = [mark EXCEPT ![g] = mark[f]]
          /\ markDisk' = [markDisk EXCEPT ![g] = mark[f]]
    /\ UNCHANGED <<ledgerVars, fileVars, lock, procVars, released, losses>>

\* An envelope is damaged, its identifier included, or another program creates
\* a file at a free name.
Disturb ==
    /\ \E o \in Path :
          \/ /\ file[o].kind = "envelope"
             /\ \E i \in PadId : file' = [file EXCEPT ![o] = Damaged(i)]
          \/ file[o].kind = "none" /\ file' = [file EXCEPT ![o] = Foreign]
    /\ UNCHANGED <<mark, markDisk, ledgerVars, fileDisk, lock, procVars, released, losses>>

-----------------------------------------------------------------------------
Progress(p) ==
    \/ Lock(p) \/ Check(p) \/ Authenticate(p) \/ Stage(p)
    \/ ReserveCreate(p) \/ ReserveSync(p) \/ Mark(p) \/ MarkSync(p)
    \/ EncryptStream(p) \/ DecryptStream(p) \/ Commit(p) \/ DirSync(p)
    \/ Wipe(p) \/ WipeSync(p) \/ Inspect(p) \/ Report(p)

Begin(p) == BeginEncrypt(p) \/ BeginDecrypt(p) \/ BeginDestroy(p) \/ BeginInfo(p)

Run(p) == Begin(p) \/ Progress(p) \/ Fail(p) \/ Kill(p)

Environment == PowerLoss \/ CopyPad \/ Disturb

Next == (\E p \in Proc : Run(p)) \/ Environment

Spec == Init /\ [][Next]_vars

\* A started process is scheduled; nobody is obliged to start one.
FairSpec == Spec /\ \A p \in Proc : WF_vars(Progress(p))

-----------------------------------------------------------------------------
(* Properties                                                              *)

\* README "Exact single use": through a state directory that is retained, a
\* pad identifier encrypts at most one message and decrypts at most once,
\* whatever copies of its files exist, whichever processes race, and whatever
\* a crash or a power failure interrupts.
SingleUse ==
    \A r, s \in released :
        r.dir \in Retained /\ r.dir = s.dir /\ r.use = s.use => r = s

\* README "Two reuse barriers", the marker on its own: one pad file never
\* yields two outputs, even when each command names another state directory.
OneOutputPerPadFile ==
    \A r, s \in released : r.pad = s.pad => r = s

\* README "Fail closed": by the time an output has a name, its reservation and
\* its marker are on disk, so no later crash can make reuse look safe.
ReservedBeforeReleased ==
    \A r \in released :
        /\ r.dir \in Retained => r.use \in ledgerDisk[r.dir]
        /\ markDisk[r.pad] \in {"consumed", "wiped"}

\* README "Authenticate before plaintext", across both passes over an
\* envelope that may change in between: a plaintext that was published is the
\* message some sender encrypted under the same identifier.
PlaintextIsAuthentic ==
    \A r \in released :
        r.use[2] = "receiver" =>
            \E s \in released : s.use = <<r.use[1], "sender">> /\ s.msg = r.msg

\* decrypt_file_with_state: "Authentication failure occurs before receiver
\* usage is reserved".  Damaged or foreign input cannot burn a receiver pad:
\* a reservation, or a marker, implies that a real envelope existed.
NoBurnWithoutEnvelope ==
    /\ \A d \in StateDir : \A u \in ledger[d] :
          u[2] = "receiver" => \E s \in released : s.use = <<u[1], "sender">>
    /\ \A f \in PadFile :
          RoleOf[f] = "receiver" /\ mark[f] = "consumed" =>
              \E s \in released : s.use = <<IdOf[f], "sender">>

\* PublishedButNotDurable is "a distinct error": every other error tells the
\* user that no output was published under the name he gave.
ErrorMeansUnpublished ==
    \A p \in Proc :
        result[p] \in {"refused", "used", "exists", "error"} =>
            \A r \in released : r.by # p

\* "existing output files are never overwritten", also when the name is taken
\* after OutputTransaction::new looked at it.
NeverOverwrites ==
    [][\A o \in Path :
         (\E p \in Proc : Run(p)) /\ file[o].kind # "none" => file'[o] = file[o]]_vars

\* "deliberately never repaired or rolled back": no step of the tool, and no
\* power failure once it is synchronised, takes a reservation back.
ReservationIsForever ==
    [][\A d \in Retained :
         /\ ledgerDisk[d] \subseteq ledger'[d]
         /\ (\E p \in Proc : Run(p)) => ledger[d] \subseteq ledger'[d]]_vars

\* pad info reads the marker and the ledger at two different moments.  When it
\* says "fresh", no output has been published from that pad by any means that
\* used the same directory.
FreshIsHonest ==
    [][\A p \in Proc :
         result'[p] = "fresh" /\ result[p] # "fresh" /\ job[p].dir \in Retained =>
             \A r \in released :
                 r.dir = job[p].dir => r.use # <<IdOf[job[p].pad], RoleOf[job[p].pad]>>]_vars

\* Every command that starts also ends: no process waits for ever for a pad
\* lock, since each holder returns, dies or is killed.
EveryCommandEnds ==
    \A p \in Proc : pc[p] # "idle" ~> pc[p] = "done"

\* README: "Encryption durably reserves the sender pad before ciphertext can
\* be committed".  For a directory the tool itself has just created this is
\* too strong: see the run otp_fresh_dir.
DurablyReserved ==
    \A r \in released : r.use[2] = "sender" => r.use \in ledger[r.dir]

-----------------------------------------------------------------------------
(* The abstract specification, with its state read off this one's.         *)

ReservedKeys == {k \in [dir : StateDir, use : Usage] : k.use \in ledger[k.dir]}
PublishedOutputs ==
    {[key |-> [dir |-> r.dir, use |-> r.use], msg |-> r.msg] : r \in released}

P == INSTANCE OtpPromise WITH
        Dir <- StateDir, Use <- Usage,
        reserved <- ReservedKeys, published <- PublishedOutputs

\* The tool keeps the promise of OtpPromise.
KeepsPromise == P!Promise
=============================================================================

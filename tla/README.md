# Verification of the rust-encryption workspace

TLA+ models of the encryption tools in this repository, their TLC runs and
TLAPS proofs. The repository is a collection of independent programs; what they
share is less their cryptography than what they do to files: reserve something
once, publish an output without overwriting anything, replace a file in place,
make a set of keys, read a container that may have been damaged. Those are the
behaviours modelled here. Ciphers, MACs and key derivation are assumed perfect
throughout: an authenticated object opens exactly under what it was sealed with.

    tlc -workers 2 -config otp_encrypt.cfg MCOtpPad    # a model-checking run
    tlapm OtpPad_proofs.tla                            # the proofs

## Inventory

| Part (src/) | State it keeps | Hard behaviour | What makes it correct | Model |
|---|---|---|---|---|
| otp, use of a pad | marker byte in each pad file; create-once records in a state directory; a lock on each pad; outputs | racing processes, copies of pads, two state directories, crashes between five durable steps, envelopes that change between two passes | one use per identifier and role; nothing published before the use is on disk; only authentic plaintext | OtpPad |
| otp, pad create | two pad files | two files cannot be published atomically; failures and power loss in between | no sender without receiver; errors name what is left; success lasts | OtpPairs |
| x5x/src/x4x, e-tools (x1 to x50) | containers | the input changes while it is read; frames cut, repeated, reordered or mixed | only whole plaintexts; what is written can be read | FrameStream |
| otp1 (with otp1-auth seal, verify, unwrap), OTP2/otp2 | the input file, a sibling temporary file | a rename that fails after it took effect; a retry that undoes the encryption; writers between check and rename | never half a file; an uncertain outcome is reported as such | XorReplace, ReplacePromise |
| OTP2/otp2-auth | payload, auth.key, sidecar | three names that others change between any two looks | a verdict is true of one moment; a tag replaces only the one that was inspected | Sidecar |
| cascade, multicrypt, be, otp1-auth, tf1024: key generation | key files with fixed names | several publications with or without rollback, two generators, readers in between | all keys or none, never someone else's, no half a key | KeySet, KeyPromise |
| secure, best, filecrypt, cascade, multicrypt, x2, x5x's x3x suite, algos, be, tf1024: file commands | one staged output | errors after publication, replaced staging files, signals that race the commit, an input that is edited meanwhile | an answer says truly whether the output exists, as far as the call could look; nothing is replaced; no half an output has a name | StagedOutput, OutputPromise |
| ezcrypt (Windows) | source and output | publication, then deletion of the source | never neither file | EzTransaction, MovePromise |
| x5x otp tool, threefish1024, versakey, OTP2/versakey | an in-place XOR, outputs, deterministic key files | sequential | test vectors | see Not modelled |
| seal, zenc, asmcrypt | containers (Zig, assembly) | sequential | round trip | see Not modelled |
| backups, workspace.zip, scripts, third-party licences | none | | | no program state |

The programs do not call each other. Processes of one program interact only
through the file system: names, contents, locks and what of it is on disk. No
program keeps a daemon or threads of its own that share state, except for
signal flags in `secure` and `best`.

## Modules

| Module | What it is |
|---|---|
| OtpPromise | abstract specification: keys are reserved, published at most once, and forgotten only while unpublished |
| OtpPad, OtpPad_proofs | the otp tool's use of a pad, step by step; `P` is the refinement of OtpPromise |
| OtpPairs, OtpPairs_proofs | pad create |
| FrameStream, FrameStream_proofs | chunked containers of x4x and e-tools |
| ReplacePromise | abstract specification of replacing a file in place: at most one effect, at one moment, and an answer that is true of it |
| XorReplace, XorReplace_proofs | otp1, otp1-auth and otp2; `Promise` is the refinement of ReplacePromise |
| KeyPromise | abstract specification of key generation: a key appears where nothing was, a whole set stays, an answer is true |
| KeySet, KeySet_proofs | generation and use of a set of keys in five tools; `K` is the refinement of KeyPromise |
| MovePromise | abstract specification of turning a file into another one beside it: the output appears, then the source goes, and the answer says how far it got |
| EzTransaction, EzTransaction_proofs | ezcrypt's publish-then-delete; `M` is the refinement of MovePromise |
| OutputPromise | abstract specification of a command that makes one new file: it appears in one step, where nothing was, and the answer is true of it |
| StagedOutput, StagedOutput_proofs | one output, published whole or not at all, in ten tools; `O` is the refinement of OutputPromise |
| Sidecar, Sidecar_proofs | otp2-auth |
| MCOtpPad, MCOtpPairs, MCFrameStream, MCXorReplace, MCKeySet, MCEzTransaction, MCStagedOutput, MCSidecar | their instances: pads and their copies, directories, kinds of command, symmetry sets |

In all modules a process is one invocation and `pc` is the library call it is
about to make. What processes see (`dir`, `file`, `mark`, ...) is kept apart
from what is on disk (`dirDisk`, `fileDisk`, `markDisk`, ...); `synced` or
`flushed` are the files whose content is on disk. A power failure stops every
process and takes the disk's view, or for each object one of the two; the
system may write back on its own account at any moment. Definitions marked
"mutant of" are variants of the code with a bug, which the properties are
checked to notice; no specification uses them.

### OtpPad

The actions follow encrypt_file_with_state and decrypt_file_with_state in order:

| Action | Code (src/otp/src/lib.rs) |
|---|---|
| BeginEncrypt, BeginDecrypt, BeginDestroy, BeginInfo | inputs opened, envelope header read (959, 1115, 1206; main.rs 137) |
| Lock | `pad.lock()`, released when the handle is dropped |
| Check | read_pad_header, validate_pad, require_fresh_role, identifier |
| Authenticate | authenticate_envelope, first pass |
| Stage | OutputTransaction::new: the name must be free |
| ReserveCreate, ReserveSync | reserve_usage: create_new, then two synchronisations |
| Mark, MarkSync | mark_pad_consumed |
| EncryptStream, DecryptStream | the streaming pass; decrypt authenticates again |
| Commit, DirSync | OutputTransaction::commit: persist_noclobber, sync_parent |
| Wipe, WipeSync | wipe_pad |
| Inspect, Report | inspect_pad, is_reserved_in |
| Fail, Kill, PowerLoss | any error return, a killed process, a power failure |
| CopyPad, Disturb | a user copies a pad; an envelope is damaged; a foreign file appears |

`released` is a history of every output ever published. `result` is what the
library function returns: a failure of the command to print its last line
afterwards is left out. Sizes, capacities and contents of pads are left out,
except that a wiped pad is no longer a pad.

### OtpPairs

The receiver is published before the sender, each followed by sync_parent of its
directory. The code compares the two paths as text, so the model lets equal
names through (two spellings) as well as refusing them. `Named` is the set of
names a user learns from the error.

### FrameStream

A chunk is the offset it was read at and its length; a frame carries its
cleartext header and a seal that binds the encryption, the frame number, the
final flag and the chunk. `tool` selects the look-ahead rule: x4x reads another
chunk in any case, e-tools only after a full one. A read of a chunk is one step:
read_chunk stops when a read returns nothing, which is what it would have got at
the moment of its last successful read. `Damage` does one of `Harm` at any
moment, also while a reader is in the middle of it: the frames become any
sequence of stored frames (Rearranged), a frame's flag or length changes
(Flipped, Resized), the header becomes another one's (Reheaded), or bytes follow
the last frame (Extended).

### XorReplace and ReplacePromise

A content is a text with the layers (XOR, seal) put on it, so that XOR undoes
itself. The actions follow otp1's encrypt_in_place, otp2's, and seal, verify and
unwrap of otp1/src/auth.rs: Open, CreateTemp, ReadFirstHalf and ReadSecondHalf
(of the file and of the key, with changes in between), CheckRead, SyncTemp,
Validate (otp1-auth reads the staged output back), RecheckHandles,
RecheckNames, CheckTempName, CheckDestName (otp2 only), then RenameOk,
RenameError or RenameErrorLate. After an error otp2 decides from the two names
what happened (DecideSource, DecideDestination); otp1 takes it at face value.
SyncDirectory gives the answer. EditInPlace, ReplaceInput, MeddleWithTemp,
Rekey, Damage, Kill and PowerLoss may come between any two steps; the calls of
others are among them. `missed` records which kinds of change came after the
call's last look: the window both READMEs admit.

ReplacePromise knows what the file shows, what it would show after a power
failure, and the phase of each call. A call takes effect at most once, at one
moment, and shows an image of what it found; "error" is answered only by a call
that had no effect, "committed" only by one whose effect survives.

### KeySet and KeyPromise

One module for five generators, because what can go wrong is what two of them,
or a generator and a reader, do to the same names. cascade and be: Precheck,
Stage, Publish (by rename, or link and UnlinkTemp), Rollback, RollbackSync,
Sync. multicrypt: Look, Load, Write, Persist, DirSync for each name. otp1-auth
and tf1024: Create under the final name, Fill, Flush, and for otp1-auth
Identify and DirSync; otp1-auth withdraws a key it cannot fill, tf1024 does not. `Use`
is the loading of a key by a file command, with the checks each reader makes.
A file is known by who made it; other programs put good keys or junk there.

KeyPromise knows whose key each name stands for, now and after a power failure,
and how far each call is. It has four kinds of generation: a set (cascade, be),
keys one by one (multicrypt), a single key (otp1-auth), and a single key that is
not synchronised (tf1024). A key is placed only under a free name and withdrawn
only while its maker is at work; of a set, only as long as another key of it is
missing; of keys made one by one, never. "ok" stands for keys that are there
and, but for tf1024, on disk; "failed", which only cascade tells apart from the
other errors, for none, neither there nor on disk. First looks, staging,
temporary names, lists of what was made and the fallback to links are hidden.
OnlyTheMakerRemoves, which names the steps that remove keys, is a theorem of its
own.

### StagedOutput and OutputPromise

`Order(tool, op)` lists the steps of each command as its code takes them, and
one action per step says what the step does in every tool that has it. The
tools differ in where they stage (an unnamed file for secure, memory first for
cascade and multicrypt, a private directory for filecrypt, a named sibling for
the rest), in what they look at again (SameInput, CheckIdentity, Confirm), in
which signals they hold back, and in their answers. `linkOnly` stands for a
file system without a rename that does not replace. Differences worth naming:

  - be and x3x report a directory that cannot be synchronised as an ordinary
    error, although the output is there: result "unsynced". The other tools say
    that it is published ("uncertain").
  - algos and tf1024 do not synchronise the directory (src/algos/README.md:75),
    so SuccessIsDurable promises less of them.
  - best's keygen holds every signal back, so SignalStops excludes it.
  - be opens its input anew for each of its two passes over it; the digest of
    the first is compared with the second's.
  - x3x's legacy containers have a first pass of their own, which can only
    fail: that is StepFails at "first". key2txt and txt2key of x5x go through
    the same output and have no actions of their own.
  - filecrypt looks at the destination after its move, and that look can itself
    fail. After a move that succeeded it then answers
    PublicationIdentityMismatch (src/filecrypt/src/staging.rs:96), after one that
    reported an error the plain error (staging.rs:108), in both cases possibly
    with the output in place. Confirm and DecideLate have these branches;
    `result` calls both answers "unseen", to keep them apart from an error or a
    mismatch that was seen, which filecrypt's caller cannot do. AnswersAreTrue
    excludes "unseen" by name and says that no other tool answers so; OutputPromise
    calls it "unclear" and lets it promise nothing. For filecrypt's caller this
    means that a mismatch, or an error of the publication itself, does not prove
    that the output is absent.

OutputPromise knows who has the destination's name, now and after a power
failure, and how far each call is. Publish is its one step between a free name
and an output; "failed" is answered only where the call has no output under the
name, "there" only after it had one, "durable" only when the disk has what the
name shows, "unclear" only after a publication. A call whose temporary file was exchanged ("displaced") can only
fail, or answer "unclear". The refinement mapping reads the status off `pc`, `result` and who has the
name; temporary names, contents, signals and the states of the input are hidden.

### EzTransaction and MovePromise

transform_plan of src/ezcrypt with every operation of SourceFile and
PendingOutput that it calls. Handles are exclusive as Windows makes them; what
others still can do is write through an earlier mapping (Change), attach a hard
link or a stream (Attach), take a free name (Intrude) and fail to store
(Damage). A file marked for deletion loses its name when its handle closes.

The temporary file is marked for deletion while it holds anything unfinished, so
what an error or a kill leaves of it is empty or whole (LeftoversAreWhole). It
can be whole: between clear_delete (src/ezcrypt/src/platform.rs:466) and the
rename the mark is off, and a kill there, or an error when Drop cannot set the
mark again, leaves the complete output, for a decryption the complete plaintext,
under its temporary name. The comment at platform.rs:321-323 mentions that window.
A power failure also loses the mark and may leave partial plaintext
(src/ezcrypt/README.md:57); LeftoversAreWhole says nothing of what is left then.

MovePromise knows the two names, now and after a power failure, how far each
command is and which file it took. Take, Publish, Settle and Remove are its only
steps besides the answers: handles, marks for deletion, temporary files and
every check in between are hidden. What a command has in hand (its source until
it is removed, its output once it has a name) nobody else can take away, which is
what the exclusive handles are for. The guards of Answer say what each answer
means for the two names.

### Sidecar

keygen, tag, tag --replace and verify. `seen` is what a command found behind
each role; Recheck is the comparison of a FileSnapshot with both the handle and
the name. The payload is read in two parts. Any of the three names may be given
as the sidecar's, also the payload's or the key's own; a file that is no payload
reads as one further text. After an error of the
rename DecideSource and DecideDestination look at both names, as in otp2.

## Runs

| Run | Instance | Shows |
|---|---|---|
| otp_encrypt | 2 commands of encrypt, destroy, info; a pad and a copy; 2 names, 2 messages; 1 power failure | single use, reservation on disk before publication, honest errors, no overwriting, reservations never taken back, `fresh` is honest, refinement of OtpPromise |
| otp_decrypt | an encryption and two decryptions; a receiver pad, its copy and another pair's receiver; damage at any moment, to the identifier too | plaintext is authentic, no pad burnt without an envelope |
| otp_live | all four commands, 2 processes, a new state directory, 1 power failure, fair | one output per pad file on the marker alone; every command that starts ends |
| otp_fresh_dir | a state directory the tool creates | *violation*: see Findings |
| otp_pairs | 2 pad creates with any of 3 names in 2 directories, an intruder, 1 power failure | sender has receiver, errors name orphans, success lasts |
| stream | both look-ahead rules; 2 encryptions, 1 decryption, chunks of 2, length up to 3, 1 event | only whole plaintexts, intact containers open |
| stream_x4x_growing | the x4x rule while the length changes | *violation*: see Findings |
| xor | otp1 with otp1-auth, and otp2; 2 calls of any kind, 2 events | NeverTorn, honest answers, verdicts under this key, only whole images land, only late changes are lost, refinement of ReplacePromise |
| keys | five tools, sets of 2 keys, 2 calls that generate or read, 2 foreign files, 1 power failure | truthful answers, keys in use stay, readers get whole keys, refinement of KeyPromise (only the maker removes, and never from a whole set) |
| ez_meddling | 2 commands on the two names, 2 steps of others, 1 power failure | never neither file, truthful answers, what is left behind is empty or whole, refinement of MovePromise (nothing is replaced, and the source goes last) |
| staged | ten tools on each kind of file system; 2 calls and 1 event or 1 call and 2 events | truthful answers (but filecrypt's after a look that failed), signals stop, one state of the input, names are whole, refinement of OutputPromise (which includes that nothing is replaced) |
| sidecar | 2 commands and 1 event or 1 command and 2 events; any of three names as the sidecar's | verdicts and tags are of one moment, only the inspected is replaced, files given as inputs stay |

Some invariants are conjunctions of named parts that are checked together:
KeySet's, EzTransaction's, StagedOutput's and Sidecar's `Inv`, `AnswersHold`,
`NamesAreWhole`. A type invariant that is proved is run only as a part of `Inv`,
if at all.

Why the bounds are enough. Two processes suffice for every race the code can
lose: each barrier is a test-and-set on one object. Three processes are needed
only where a decryption races another one over an envelope, or where two
containers can be mixed. A second power failure finds nothing new: after the
first everything that survives is on disk; for the same reason the system writes
back on its own account only while a power failure can still come (and in
StagedOutput only when it changes what the destination's name stands for: the
temporary names that a power failure leaves are looked at by no tool). Two messages
tell two outputs apart. In FrameStream a length of two chunks less one gives no
frame but the final one, a full frame and a final one, and the boundary; three
frames in a damaged container are one more than was written, so that a frame
can be repeated. One damage replaces all frames at once. Edits, meddling,
signals and power failures share one bound (MaxEvents, MaxLoad), because what
the code defends against is a change between two of its looks: one change tells
a missing look, two tell a look that a change back would fool, and a second call
is itself a change to the first. The key sets have two names: one that was
published and one that failed. The temporal property of otp_live is checked
without symmetry.

CHECK_DEADLOCK is off everywhere: invocations end and nobody has to start
another one.

## Fairness

OtpPad's FairSpec assumes weak fairness of `Progress(p)`, the next step of a
process that has started: the operating system schedules a process that can run.
Nothing is assumed of users, failures or damage, and a process that waits for a
pad lock is not enabled until the lock is free. Weak fairness is enough because
each process takes the lock once: with more processes a lock could be handed to
others only finitely often. The other programs never wait for each other: each
command is a finite sequence of steps whatever the others do, so a liveness
property of theirs would say nothing.

## Proofs

All theorems are for any number of processes, files, directories, messages and
events. They assume the named assumptions on the constants and, where it is
said, nothing else.

**OtpPad_proofs.** The inductive invariant comes in three layers.
`Typed`: types, and the operands each started command keeps (a decryption has an
input, only encrypt, decrypt reach the marker).
`Guarded` adds who may do what: the process past the lock holds it (LockHeld);
a marker that is consumed stays so and is backed by a record or a process that
made it (MarkerKnown, RecordHeld); at most one running process has claimed a
ledger record (OneClaimant); what a process past a synchronisation has written
is on disk (Covered); a claim that is not yet published has no output
(ClaimUnused). SingleUse alone is not inductive: nothing in it stops a process
from publishing after another already did with the same key; OneClaimant and
ClaimUnused do.
`Backed` adds what outputs contain: every envelope with a name was published
by a sender (FilesBacked), and a process that decrypts has authenticated one
(DecryptBacked, UseBacked).
The answers need one more invariant, `Answered`: a command has no result before
it is done, and one that has published is at its last step or over, with a
result that says so. RunEnds states once what a step does to results and to
`released`. FreshIsHonest speaks of two reads at different moments; it follows
because a record is never taken back (RecordsStay) and no output is released
without one.

| Theorem | Property |
|---|---|
| TypeCorrect | TypeOK |
| NoSecondUse | SingleUse |
| OneOutput | OneOutputPerPadFile |
| FailClosed | ReservedBeforeReleased |
| OnlyAuthenticPlaintext | PlaintextIsAuthentic |
| OnlyEnvelopesBurn | NoBurnWithoutEnvelope |
| ErrorsAreHonest | ErrorMeansUnpublished |
| NothingIsOverwritten | NeverOverwrites |
| RecordsStay | ReservationIsForever |
| InfoIsHonest | FreshIsHonest |
| ImplementsPromise | KeepsPromise: initial states map to initial states, each step to Reserve, Publish, Forget or a stutter |

**OtpPairs_proofs.** `IInv` adds to the properties that the disk is behind what
processes see and never different (DiskBehind), what a command has published by
the step it is at (Stage), and that its pads lie only under names it has got to
(Reach, Within). SenderHasReceiver is not inductive alone because CommitSender
relies on the receiver having been synchronised, which only Stage says.

| Theorem | Property |
|---|---|
| TypeCorrect | TypeOK |
| ReceiverFirst | SenderHasReceiver |
| SuccessIsDurable | SuccessIsAPair |
| OrphansAreNamed | ErrorNamesOrphans |

**FrameStream_proofs.** `TInv` is the type with what each step of the two loops
presupposes (`Loop`). `SInv` adds that every seal an encryption made is of its
own pieces in order (Sealed), that every stored frame was sealed by somebody,
whatever damage has rearranged (Stored), that a decryption's accepted frames
follow one encryption's (Follows), and the property itself for outputs with a
name (Published): WholeOrNothing. For WrittenOpens the containers an encryption
publishes are complete (Written), containers nobody damaged still are what was
written (Intact), and a reader of such a one has not been refused so far
(Reads). Facts about single steps carry them: stored contents are kept or
damaged (Kept), what an encryption has ended with stays (Lasting), what was not
named stays (Untouched).

| Theorem | Property |
|---|---|
| TypeCorrect | TypeOK |
| WholeOrNothing | OnlyWholePlaintext |
| WrittenOpens | IntactOpens |

**XorReplace_proofs.** `RInv` is, besides the type: a process's output has had
the file's name only if its rename took effect (Effect, for HonestErrors); texts
and inodes are older than the next event (Bounded); each temporary name and the
file's name hold only what can be there at the process's step (Placed); whatever
the file's name stands for, in memory or on disk, is whole and, on disk,
synchronised (Sound); and what each process has found and staged is of one
moment by the step it is at (Good). LostOnlyWhenLate adds what the process has
missed since its looks (Looked). CommittedStays needs that no other name leads
back to the file a call replaced (Named, Displaced). For the refinement,
`Theirs` says which contents somebody else may have written, and one lemma per
kind of step maps it: to Ask, Refuse, Apply, Displace, Answer, Edit, Lose or a
stutter. AnswersAreHonest and ImplementsPromise assume that of the two tools
only otp2 meets renames that report an error late; for otp1 see Findings.

| Theorem | Property |
|---|---|
| TypeCorrect | TypeOK |
| AnswersAreHonest | AnswersHold |
| NeverHalfAFile | NeverTorn |
| OnlyUnderItsKey | VerifiedUnderThisKey |
| OnlyTheImageLands | LandsTheImage |
| LostOnlyWhenLate | OnlyLateChangesAreLost |
| ImplementsPromise | KeepsThePromise |

**KeySet_proofs.** `Shape` says, per process, which steps its tool has (Order),
that a running process still has the keys it has published, but for those its
rollback has got to (Holds), that a key under a name is in its maker's list
unless the maker stopped half way (Listed), and what has been published by each
step: in cascade and be (SetSoFar) and in multicrypt, where every name is
persisted or loaded before the next one (NamesSoFar). Listed is what
PlainFailureLeavesNothing rests on: a rollback can remove only what the list
names. For keys in use, `LastOfAll` adds that the last key of a set is there only
with the others. How one process changes the directory is stated once (Moves,
OthersApart, StaysReadable) and used for every invariant. KeySetAssumption says
that be's set has two keys, as its code does. The refinement of KeyPromise adds
`Made`, that otp1-auth and tf1024 still have the name they have created, and
goes by what a step does to the directory: nothing (QuietPromise,
AnswerPromise), one key more (PlacePromise), one less (RollbackPromise,
WithdrawPromise). That the step leaves a whole set alone comes from SetSoFar: a
rollback never has the last key in its list.

| Theorem | Property |
|---|---|
| TypeCorrect | TypeOK |
| NobodyElseRemoves | OnlyTheMakerRemoves |
| ReadersGetWholeKeys | ReaderGetsWholeKey |
| AnswersAreTrue | Inv: SuccessIsOwnSetOnDisk, SuccessIsUsable, PlainFailureLeavesNothing |
| InUseStays | KeyInUseStays |
| ImplementsPromise | KeepsThePromise: every step of every tool is a step of KeyPromise or a stutter |

**EzTransaction_proofs.** Per command, `Shape` says what its two handles are by
each step (Stage), what its output holds (Bytes), and that its source is held by
it alone, still has the name it was given, is nobody's unfinished output and says
what was read unless somebody wrote into it after the last look (Source); per
file, that one with a name is on disk, is whole (or a sealed one somebody
damaged) and has no other name, in memory or on disk (Named). NeverNeither
rests on OutputStandsIn: whenever a source is marked for deletion, the output is
under the other name, on disk, and says the same. `Looks` states the order of the
steps and what the checks on the way establish; it holds the control flow of
transform_plan in one place. The refinement of MovePromise needs no further
invariant: Stage and Source are what the guards of its steps ask for, and
InHandIsHeld turns the handles into what the promise knows of them.

| Theorem | Property |
|---|---|
| TypeCorrect | TypeOK |
| FilesAreWhole | Inv: PublishedIsWhole, LeftoversAreWhole |
| NobodyIsReplaced | NeverReplaced |
| ImplementsPromise | KeepsThePromise: every step is a step of MovePromise or a stutter |
| NoTextIsLost | NeverNeither |
| AnswersAreHonest | AnswersHold: AnswersAreTrue, OkLosesNothing |

**StagedOutput_proofs.** The order of the steps is data, so the first lemmas are
about it: `Goes` lists what the invariants need to know of any two steps that
follow each other, and `Table` proves it of all tools and operations. `Shape`
then says, per call, that it takes its tool's steps (Control), what it has
written (Bytes), from which states of the input it has read (Reads), when its
signal came (Signals), what its temporary name can stand for (Temporary), and,
the part the theorems follow from, that an output under the destination's name,
in memory or on disk, is complete, authenticated, synchronised and of one state
of the input (Landed). That a published output is synchronised is why a
power failure brings back no torn one. How a step changes the names, the others and itself
is stated once (Moves, OthersApart). `AllAnswers` adds what the answers rest on:
that a call past its publication still has its output there, or somebody removed
it. AnswersHold assumes OnlyFilecrypt, as the run does: the rename or link of the
other tools is one system call, while filecrypt's move synchronises directories
after it, and looks at the destination when that fails; and that
somebody takes over a random temporary name is considered only for filecrypt,
the one tool that checks for it. Neither AnswersHold nor the refinement says
anything of an error after a look at the destination that failed ("unseen").
For the refinement, `Gone` adds that an output somebody removed was published by
a call that does not have the name any more. One lemma per phase of a call maps
its steps: before publication to Ask, Answer or a stutter (WorkingPromise), the
publication to Publish (PublishPromise), after it to Answer or a stutter, with
the answers from `AllAnswers` (InstalledPromise); everybody else's to Disturb,
Settle or Lose (OutsidePromise).

| Theorem | Property |
|---|---|
| TypeCorrect | TypeOK |
| NamesWhole | NamesAreWhole: DestinationIsWhole, NamedPlaintextIsAuthentic |
| OneStateIsEncrypted | OneStateOfTheInput |
| SignalsStop | SignalStops |
| NobodyIsReplaced | NeverReplaced, for every step of every tool |
| AnswersHold | Inv: AnswersAreTrue, SuccessIsDurable, LeftoverIsReported |
| ImplementsPromise | KeepsThePromise: every step of every tool is a step of OutputPromise or a stutter |

**Sidecar_proofs.** The invariant rests on two facts about files that others
change. A settled file keeps its bytes as long as its stamp stays the same, and
every event takes a new stamp (Stamps, Keeps); a name that has left a file never
comes back to it (NeverBack). Two equal looks at a name therefore speak for
everything between them. `Shape` says, per call, which steps it may be at and
with what (Control), where its temporary file is (Temporary), what it has seen
(Known, Opened, Reads), that its verdict or tag is of one moment once the last look
is passed (Moment), what it may replace (Target), that what it wrote has the
right bytes (Bytewise), and that what it published is there and on disk
(Landed, Durable). What a step of a call may change is stated once (Moves, Apart,
Writes, Turns, Learns, Checks) and every part of `Shape` is then shown from these
and not from the actions; other calls, Change, damage, a kill and a power failure
have their lemmas. Nothing beyond the module's assumption is used.

| Theorem | Property |
|---|---|
| TypeCorrect | TypeOK |
| VerdictsAreTrue | VerdictIsTrue |
| TagsAreOfOneMoment | TagIsOfOneMoment |
| PublishedStays | Inv |
| OnlyTheInspected | ReplacesOnlyTheInspected |
| InputsStay | GivenFilesStay |

Every safety property of a passing run is stated by one of these theorems. Only
model-checked: EveryCommandEnds, because liveness under fairness is out of the
provers' reach.

## Findings

1. *otp, new state directory.* `ensure_state_directory` creates a missing
   directory with create_dir_all and never synchronises its parent. README.md:108
   says that encryption durably reserves the sender pad before ciphertext can be
   committed; in otp_fresh_dir a power failure loses the directory with the
   reservation after the ciphertext was published. The marker in the pad file
   still protects that file (OneOutput), but not an earlier copy of it.
2. *x4x, growing input.* The look-ahead loop takes only an empty read for the
   end. If the input grows after a short read, the short chunk is sealed as a
   non-final frame, encryption succeeds, and the reader rejects the published
   container ("short non-final frame"). IntactOpens, which holds of both rules
   in the run stream, excuses x4x in exactly this case.

Observations that no run reports as a violation:

  - src/filecrypt/FORMAT.md:125-128 says that a late failure of the publication is
    reported as a final path that was created. When the destination cannot be
    looked at after such a failure, the code returns the plain error
    (src/filecrypt/src/staging.rs:108); after a move that succeeded, a mismatch
    (staging.rs:96). AnswersAreTrue and OutputPromise except these answers by
    name ("unseen", "unclear").
  - ezcrypt leaves the complete plaintext of a decryption under a temporary name
    when it is killed, or fails and cannot mark the file again, between
    clear_delete and the rename (src/ezcrypt/src/platform.rs:466).
    LeftoversAreWhole allows this and excludes anything less.
  - otp1 returns the error of a rename as it is (src/otp1/src/lib.rs:858). On a
    file system that reports an error after the rename took effect, which otp2
    provides for, a caller that repeats the call undoes the encryption. xor
    therefore lets only otp2 meet such renames (`Late`).
  - be's keygen gives key.pub its name before key.key (src/be/src/lib.rs:50); a
    kill in between leaves a recipient without an identity.
  - when several temporary keys cannot be removed, cascade names only the first
    of them (src/cascade/src/key_store.rs:386); src/cascade/SECURITY.md:51 says
    that the command reports the temporary name.
  - cascade's rollback removes keys by name. The directory is private to the
    user, and the model relies on nobody else removing or renaming keys in it.

## Not modelled

In general: ciphers, MACs, key derivation and encodings; sizes and capacity
checks; file permissions and ownership; paths beyond the identity of a name;
symbolic links; Windows variants except for ezcrypt; terminal dialogues;
durability in FrameStream, whose publication follows OutputTransaction's.

Parts left out or abstracted:

  - x5x's otp tool: an in-place XOR that looks only at the identity of the input
    before it replaces it and promises no more.
  - threefish1024: like tf1024, unless --force is given, which renames over
    whatever has the name.
  - versakey and OTP2/versakey: a pure function of a passphrase, fixed by test
    vectors.
  - seal, zenc and asmcrypt: single-process tools in Zig and assembly.
  - otp2-auth's keygen does not read its staged key back, so damage of it before
    the rename goes unnoticed; Sidecar's Valid says so.
  - x4x (src/x5x/src/x4x/crypto.rs:321) reports a directory that cannot be
    synchronised as an ordinary error, like be and x3x in StagedOutput;
    FrameStream answers "error" there and has no durability.
  - cascade's file commands during the rollback of a key generation
    (src/cascade/src/key_store.rs:296): one may use a key that is then removed.
    KeyInUseStays speaks of multicrypt and be, whose code rules it out.
  - cascade reads its whole input once (src/cascade/src/file_io.rs:72) and may
    seal a mixture of two states of a file that is edited meanwhile: therefore
    OneStateOfTheInput speaks of secure and best only.

The share of the code that is mapped to definitions is small for a simple
reason: more than half of the implementation is the 50 e-tools, whose stream and
file handling is the same text around 50 ciphers; it is modelled once, through
x1. Most of the rest is ciphers and tests.

## Plan

1. An abstract specification of a container that is read in parts, with its
   refinement by FrameStream proved.
2. x5x's otp tool and threefish1024's --force as further tools of XorReplace and
   StagedOutput, where their promises differ.

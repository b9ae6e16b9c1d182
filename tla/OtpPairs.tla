------------------------------ MODULE OtpPairs ------------------------------
(***************************************************************************)
(* pad create of the otp tool (create_pad_pair_with_rng, lib.rs:572).      *)
(*                                                                         *)
(* A command writes two temporary files with the same identifier and the   *)
(* same secrets, one per role, and publishes them one after the other:     *)
(* the receiver first, because a receiver pad cannot encrypt.  Commands    *)
(* race for the names; a step may fail, a process may be killed, and a     *)
(* power failure may lose every name whose directory was not synchronised. *)
(*                                                                         *)
(* A pad is abstracted to the command that made it (identifiers are random *)
(* and do not repeat) and its role.  The tool compares the two paths as    *)
(* text, so two spellings of one name get past it: both are allowed here.  *)
(***************************************************************************)
EXTENDS Naturals

CONSTANTS
    Proc,      \* invocations of pad create
    Path,      \* names for pad files
    Dir,       \* directories
    DirOf,     \* Path -> Dir
    MaxLoss    \* bound: power failures

ASSUME PairsAssumption == DirOf \in [Path -> Dir] /\ MaxLoss \in Nat

VARIABLES
    entry,     \* what each name stands for, as processes see it
    disk,      \* the same on disk
    pc,
    sender,    \* --sender of each command
    receiver,  \* --receiver of each command
    result,
    losses     \* number of power failures

vars == <<entry, disk, pc, sender, receiver, result, losses>>

Pad(p, role) == [by |-> {p}, role |-> role]
Free    == [by |-> {}, role |-> "none"]
Foreign == [by |-> {}, role |-> "foreign"]
\* by: the command that made the pad; empty for other files.
Entry == [by : SUBSET Proc, role : {"none", "foreign", "sender", "receiver"}]
Step == {"idle", "new", "write", "commit_receiver", "sync_receiver",
         "commit_sender", "sync_sender", "done"}
Result == {"none", "ok", "refused", "error", "receiver_not_durable", "partial",
           "partial_not_durable", "killed"}

TypeOK ==
    /\ entry \in [Path -> Entry] /\ disk \in [Path -> Entry]
    /\ pc \in [Proc -> Step]
    /\ sender \in [Proc -> Path] /\ receiver \in [Proc -> Path]
    /\ result \in [Proc -> Result]
    /\ losses \in 0..MaxLoss

Init ==
    /\ entry = [o \in Path |-> Free]
    /\ disk = entry
    /\ pc = [p \in Proc |-> "idle"]
    /\ sender \in [Proc -> Path] /\ receiver \in [Proc -> Path]
    /\ result = [p \in Proc |-> "none"]
    /\ losses = 0

-----------------------------------------------------------------------------
Taken(o) == entry[o] # Free

Goto(p, s) == pc' = [pc EXCEPT ![p] = s] /\ UNCHANGED result

Return(p, r) ==
    /\ pc' = [pc EXCEPT ![p] = "done"]
    /\ result' = [result EXCEPT ![p] = r]

Args == UNCHANGED <<sender, receiver, losses>>

Start(p) == pc[p] = "idle" /\ Goto(p, "new") /\ UNCHANGED <<entry, disk>> /\ Args

\* Equal texts are refused, and OutputTransaction::new refuses, for either
\* name, one that is in use.
New(p) ==
    /\ pc[p] = "new" /\ UNCHANGED <<entry, disk>> /\ Args
    /\ \/ /\ Taken(sender[p]) \/ Taken(receiver[p]) \/ sender[p] = receiver[p]
          /\ Return(p, "refused")
       \/ /\ ~Taken(sender[p]) /\ ~Taken(receiver[p])
          /\ Goto(p, "write")

\* Identifier, secrets and checksums go into both temporary files, which are
\* synchronised; nothing has a name yet.
Write(p) ==
    /\ pc[p] = "write" /\ Goto(p, "commit_receiver")
    /\ UNCHANGED <<entry, disk>> /\ Args

\* commit, first half: persist_noclobber.
Publish(p, o, role) == entry' = [entry EXCEPT ![o] = Pad(p, role)]

CommitReceiver(p) ==
    /\ pc[p] = "commit_receiver" /\ UNCHANGED disk /\ Args
    /\ IF Taken(receiver[p])
       THEN Return(p, "refused") /\ UNCHANGED entry
       ELSE Publish(p, receiver[p], "receiver") /\ Goto(p, "sync_receiver")

\* Second half: sync_parent puts every name of the directory on disk.
Unsynced(o) == disk                                     \* mutant of DirSynced
DirSynced(o) ==
    [q \in Path |-> IF DirOf[q] = DirOf[o] THEN entry[q] ELSE disk[q]]

SyncReceiver(p) ==
    /\ pc[p] = "sync_receiver" /\ UNCHANGED entry /\ Args
    /\ \/ disk' = DirSynced(receiver[p]) /\ Goto(p, "commit_sender")
       \/ disk' = disk /\ Return(p, "receiver_not_durable")

\* What is left after the receiver has its name fails as PartialPadPair.
PlainError == "error"                                   \* mutant of PartialPadPair
PartialPadPair == "partial"

CommitSender(p) ==
    /\ pc[p] = "commit_sender" /\ UNCHANGED disk /\ Args
    /\ IF Taken(sender[p])
       THEN Return(p, PartialPadPair) /\ UNCHANGED entry
       ELSE Publish(p, sender[p], "sender") /\ Goto(p, "sync_sender")

SyncSender(p) ==
    /\ pc[p] = "sync_sender" /\ UNCHANGED entry /\ Args
    /\ \/ disk' = DirSynced(sender[p]) /\ Return(p, "ok")
       \/ disk' = disk /\ Return(p, "partial_not_durable")

-----------------------------------------------------------------------------
\* Any other failure: no space, no randomness, a rename that fails.
Fail(p) ==
    /\ UNCHANGED <<entry, disk>> /\ Args
    /\ \/ pc[p] \in {"new", "write", "commit_receiver"} /\ Return(p, "error")
       \/ pc[p] = "commit_sender" /\ Return(p, PartialPadPair)

Kill(p) ==
    /\ pc[p] \notin {"idle", "done"} /\ Return(p, "killed")
    /\ UNCHANGED <<entry, disk>> /\ Args

PowerLoss ==
    /\ losses < MaxLoss /\ losses' = losses + 1
    /\ entry' \in {g \in [Path -> Entry] :
                     \A o \in Path : g[o] \in {entry[o], disk[o]}}
    /\ disk' = entry'
    /\ pc' = [p \in Proc |-> IF pc[p] = "idle" THEN "idle" ELSE "done"]
    /\ result' = [p \in Proc |-> IF pc[p] \in {"idle", "done"}
                                 THEN result[p] ELSE "killed"]
    /\ UNCHANGED <<sender, receiver>>

\* Another program creates a file at a free name.
Intrude ==
    /\ \E o \in Path : ~Taken(o) /\ entry' = [entry EXCEPT ![o] = Foreign]
    /\ UNCHANGED <<disk, pc, sender, receiver, result, losses>>

Run(p) ==
    \/ Start(p) \/ New(p) \/ Write(p) \/ CommitReceiver(p) \/ SyncReceiver(p)
    \/ CommitSender(p) \/ SyncSender(p) \/ Fail(p) \/ Kill(p)

Next == (\E p \in Proc : Run(p)) \/ PowerLoss \/ Intrude

Spec == Init /\ [][Next]_vars

-----------------------------------------------------------------------------
(* Properties                                                              *)

\* "The receiver copy is published first because it cannot encrypt": whoever
\* finds a sender pad can decrypt what it encrypts.  Whatever fails, whoever
\* races and however the power fails, a sender pad with a name has its
\* receiver pad under the name the command was given, on disk.
SenderHasReceiver ==
    \A p \in Proc, o \in Path :
        entry[o] = Pad(p, "sender") =>
            /\ entry[receiver[p]] = Pad(p, "receiver")
            /\ disk[receiver[p]] = Pad(p, "receiver")

\* The names an error shows to the user: PartialPadPair names the receiver,
\* and through its source the sender; PublishedButNotDurable names its output.
Named(p) ==
    CASE result[p] = "receiver_not_durable" -> {receiver[p]}
      [] result[p] = "partial"              -> {receiver[p]}
      [] result[p] = "partial_not_durable"  -> {receiver[p], sender[p]}
      [] result[p] \in {"refused", "error"} -> {}
      [] OTHER                              -> Path

\* "the error names the receiver copy and tells you to inspect both paths":
\* every pad that a failed command left behind is named by its error.
ErrorNamesOrphans ==
    \A p \in Proc, o \in Path : p \in entry[o].by => o \in Named(p)

\* Success means that both pads are the command's own and survive any crash,
\* also when the two paths are spellings of one name or another command uses
\* the same names.
SuccessIsAPair ==
    \A p \in Proc : result[p] = "ok" =>
        /\ entry[sender[p]] = Pad(p, "sender") /\ disk[sender[p]] = Pad(p, "sender")
        /\ entry[receiver[p]] = Pad(p, "receiver")
        /\ disk[receiver[p]] = Pad(p, "receiver")
=============================================================================

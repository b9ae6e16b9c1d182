------------------------------- MODULE KeySet -------------------------------
(***************************************************************************)
(* Generation and use of a set of key files with fixed names in one        *)
(* directory, never overwriting one:                                       *)
(*   cascade     checks all names, stages all keys, publishes one after    *)
(*               the other, removes what it published when that fails, and *)
(*               synchronises the directory at the end;                    *)
(*   multicrypt  goes from name to name: keeps a valid key, writes and     *)
(*               synchronises a missing one, and removes nothing;          *)
(*   otp1-auth   creates its only key under its final name and fills it;   *)
(*   tf1024      does that, too, but looks no further and removes nothing; *)
(*   be          works like cascade on its pair, key.pub (the first name)  *)
(*               before key.key (the second), but calls every failure an   *)
(*               error, whatever it leaves.                                *)
(* Every process below generates, or reads one key to use it.              *)
(*                                                                         *)
(* A name holds nothing or a file; a file is known by who made it: a       *)
(* process, another program's good key, or another program's junk.  The    *)
(* bytes of process p's key k are complete once k is in written[p].  The   *)
(* directory is private to the user: nobody else deletes or renames keys.  *)
(***************************************************************************)
EXTENDS Integers, FiniteSets

CONSTANTS
    Proc,       \* invocations
    Tools,      \* which of AllTools
    NKeys,      \* how many keys make a set (otp1-auth, tf1024: the first name)
    MaxForeign, \* bound: files another program puts under key names
    MaxLoss,    \* bound: power failures
    Good, Junk, \* another program's key, and anything else it may put there
    None        \* nobody

AllTools == {"cascade", "multicrypt", "otp1-auth", "tf1024", "be"}
KeyName == 1..NKeys                 \* in the order of Algorithm::ALL
Maker   == Proc \cup {Good, Junk}

ASSUME KeySetAssumption ==
    /\ Tools \subseteq AllTools
    /\ NKeys \in Nat \ {0} /\ ("be" \in Tools => NKeys = 2)
    /\ MaxForeign \in Nat /\ MaxLoss \in Nat
    /\ Good # Junk /\ {Good, Junk} \cap Proc = {}
    /\ None \notin Maker \cup (KeyName \X Maker)

VARIABLES
    tool,          \* the program every process of a behaviour runs
    fallback,      \* the file system lacks rename-without-replacement
    dir, dirDisk,  \* who made the file under each name; what is synchronised
    temp,          \* temporary names that exist, by process and key
    written,       \* keys whose bytes are complete, by process
    pc, at,        \* the step of each process and the key it is about
    created,       \* the keys it has published
    trouble,       \* what went wrong on the way: "exists", "error", ...
    result,
    got,           \* the key a reader accepted: <<name, maker>>
    foreign, losses

place == <<tool, fallback>>
vars == <<place, dir, dirDisk, temp, written, pc, at, created, trouble, result,
          got, foreign, losses>>

-----------------------------------------------------------------------------
Step == {"idle", "precheck", "stage", "publish", "unlinktemp", "rollback",
         "rollbacksync", "sync", "look", "load", "write", "persist",
         "dirsync", "fill", "flush", "identify", "done"}
Trouble == {"exists", "error", "cleanup", "rollback"}
Result == {"none", "ok", "exists", "error", "cleanup_failed",
           "rollback_incomplete", "temp_remains", "not_synced", "read",
           "killed"}

TypeOK ==
    /\ tool \in Tools /\ fallback \in BOOLEAN
    /\ dir \in [KeyName -> Maker \cup {None}]
    /\ dirDisk \in [KeyName -> Maker \cup {None}]
    /\ temp \in [Proc -> SUBSET KeyName]
    /\ written \in [Proc -> SUBSET KeyName]
    /\ pc \in [Proc -> Step] /\ at \in [Proc -> KeyName]
    /\ created \in [Proc -> SUBSET KeyName]
    /\ trouble \in [Proc -> SUBSET Trouble]
    /\ result \in [Proc -> Result]
    /\ got \in [Proc -> (KeyName \X Maker) \cup {None}]
    /\ foreign \in 0..MaxForeign /\ losses \in 0..MaxLoss

Init ==
    /\ tool \in Tools /\ fallback \in BOOLEAN
    /\ (tool # "cascade" => ~fallback)     \* where it makes no difference
    /\ dir = [k \in KeyName |-> None] /\ dirDisk = dir
    /\ temp = [p \in Proc |-> {}] /\ written = [p \in Proc |-> {}]
    /\ pc = [p \in Proc |-> "idle"] /\ at = [p \in Proc |-> 1]
    /\ created = [p \in Proc |-> {}] /\ trouble = [p \in Proc |-> {}]
    /\ result = [p \in Proc |-> "none"]
    /\ got = [p \in Proc |-> None]
    /\ foreign = 0 /\ losses = 0

-----------------------------------------------------------------------------
Goto(p, s, k) ==
    /\ pc' = [pc EXCEPT ![p] = s]
    /\ at' = [at EXCEPT ![p] = k]
    /\ UNCHANGED <<place, result>>

\* To the same step for the next key, or to step s after the last one.
NextKeyOr(p, again, s) ==
    IF at[p] < NKeys THEN Goto(p, again, at[p] + 1) ELSE Goto(p, s, 1)

Answer(p, r) ==
    /\ pc' = [pc EXCEPT ![p] = "done"]
    /\ result' = [result EXCEPT ![p] = r]
    /\ UNCHANGED <<place, at>>

\* Removing temporary names: some removals may fail (the message names the
\* first of those).
CleanUp(p, S) == \E left \in SUBSET S :
    /\ temp' = [temp EXCEPT ![p] = (@ \ S) \cup left]
    /\ trouble' = [trouble EXCEPT ![p] =
                     @ \cup (IF left = {} THEN {} ELSE {"cleanup"})]

Start(p) ==
    /\ pc[p] = "idle"
    /\ Goto(p, CASE tool \in {"cascade", "be"} -> "precheck"
                 [] tool = "multicrypt" -> "look"
                 [] tool \in {"otp1-auth", "tf1024"} -> "write", 1)
    /\ UNCHANGED <<dir, dirDisk, temp, written, created, trouble, got,
                   foreign, losses>>

\* A reader checks type, owner, mode and length (and, in multicrypt, the
\* header) of the file it has opened.
AnyFile(k) == dir[k] # None                             \* mutant of Readable
Readable(k) == \/ dir[k] = Good
               \/ dir[k] \in Proc /\ k \in written[dir[k]]

\* be takes a key.pub alone, but none that differs from the key.key there.
Matches(k) == tool = "be" /\ k = 1 => dir[2] \in {None, dir[1]}

Use(p) == \E k \in KeyName :
    /\ pc[p] = "idle"
    /\ IF Readable(k) /\ Matches(k)
       THEN /\ got' = [got EXCEPT ![p] = <<k, dir[k]>>]
            /\ Answer(p, "read")
       ELSE Answer(p, "error") /\ UNCHANGED got
    /\ UNCHANGED <<dir, dirDisk, temp, written, created, trouble,
                   foreign, losses>>

-----------------------------------------------------------------------------
(* cascade: KeyStore::generate_all_unix; be: keygen_in.                    *)

Precheck(p) ==
    /\ pc[p] = "precheck"
    /\ IF dir[at[p]] # None THEN Answer(p, "exists")
                            ELSE NextKeyOr(p, "precheck", "stage")
    /\ UNCHANGED <<dir, dirDisk, temp, written, created, trouble, got,
                   foreign, losses>>

\* How a failure is reported: what could not be removed comes first.
Report(t) ==
    IF tool = "be" THEN "error"
    ELSE IF "cleanup" \in t THEN "cleanup_failed"
    ELSE IF "rollback" \in t THEN "rollback_incomplete"
    ELSE IF "exists" \in t THEN "exists" ELSE "error"

\* Random bytes, a private temporary file, its content, sync_all.
Stage(p) ==
    /\ pc[p] = "stage"
    /\ \/ /\ temp' = [temp EXCEPT ![p] = @ \cup {at[p]}]
          /\ written' = [written EXCEPT ![p] = @ \cup {at[p]}]
          /\ NextKeyOr(p, "stage", "publish")
          /\ UNCHANGED trouble
       \/ /\ \E S \in {temp[p], temp[p] \cup {at[p]}} : CleanUp(p, S)
          /\ Answer(p, Report(trouble'[p]))
          /\ UNCHANGED written
    /\ UNCHANGED <<dir, dirDisk, created, got, foreign, losses>>

\* publish_noclobber succeeds at once, or (fallback) by a link whose
\* temporary name is still to be removed.
Install(p) ==
    /\ dir[at[p]] = None
    /\ dir' = [dir EXCEPT ![at[p]] = p]

PublishedByRename(p) ==
    /\ ~fallback
    /\ Install(p)
    /\ temp' = [temp EXCEPT ![p] = @ \ {at[p]}]
    /\ created' = [created EXCEPT ![p] = @ \cup {at[p]}]
    /\ NextKeyOr(p, "publish", "sync")
    /\ UNCHANGED trouble

PublishedByLink(p) ==
    /\ fallback
    /\ Install(p)
    /\ Goto(p, "unlinktemp", at[p])
    /\ UNCHANGED <<temp, created, trouble>>

\* BeforeInstall: the remaining temporaries go, then what was published.
NotPublished(p) ==
    /\ \E t \in (IF dir[at[p]] # None THEN {"exists"} ELSE {"error"}),
          left \in SUBSET temp[p] :
         /\ temp' = [temp EXCEPT ![p] = left]
         /\ trouble' = [trouble EXCEPT ![p] =
                          {t} \cup (IF left = {} THEN {} ELSE {"cleanup"})]
    /\ Goto(p, "rollback", 1)
    /\ UNCHANGED <<dir, created>>

Publish(p) ==
    /\ pc[p] = "publish"
    /\ PublishedByRename(p) \/ PublishedByLink(p) \/ NotPublished(p)
    /\ UNCHANGED <<dirDisk, written, got, foreign, losses>>

\* After a link: the temporary name is removed, or the key stays installed
\* with both names and generation stops without a rollback.
UnlinkTemp(p) ==
    /\ pc[p] = "unlinktemp"
    /\ \/ /\ temp' = [temp EXCEPT ![p] = @ \ {at[p]}]
          /\ created' = [created EXCEPT ![p] = @ \cup {at[p]}]
          /\ NextKeyOr(p, "publish", "sync")
          /\ UNCHANGED trouble
       \/ /\ \E left \in SUBSET (temp[p] \ {at[p]}) :
               /\ temp' = [temp EXCEPT ![p] = left \cup {at[p]}]
               /\ Answer(p, IF left = {} THEN "temp_remains"
                                         ELSE "cleanup_failed")
          /\ UNCHANGED <<created, trouble>>
    /\ UNCHANGED <<dir, dirDisk, written, got, foreign, losses>>

\* rollback_created: unlink by name, go on after an error.
EveryKey(p) == KeyName                                  \* mutant of ToRemove
ToRemove(p) == created[p]

Rollback(p) ==
    /\ pc[p] = "rollback"
    /\ \/ /\ at[p] \in ToRemove(p)
          /\ dir' = [dir EXCEPT ![at[p]] = None]
          /\ UNCHANGED trouble
       \/ /\ at[p] \in ToRemove(p)
          /\ trouble' = [trouble EXCEPT ![p] = @ \cup {"rollback"}]
          /\ UNCHANGED dir
       \/ at[p] \notin ToRemove(p) /\ UNCHANGED <<dir, trouble>>
    /\ NextKeyOr(p, "rollback", "rollbacksync")
    /\ UNCHANGED <<dirDisk, temp, written, created, got, foreign, losses>>

RemovalSynced(p) == dirDisk' = dir /\ UNCHANGED trouble

RollbackSync(p) ==
    /\ pc[p] = "rollbacksync"
    /\ IF created[p] = {} \/ (tool = "cascade" /\ "rollback" \in trouble[p])
       THEN UNCHANGED <<dirDisk, trouble>>
       ELSE \/ RemovalSynced(p)
            \/ /\ trouble' = [trouble EXCEPT ![p] = @ \cup {"rollback"}]
               /\ UNCHANGED dirDisk
    /\ Answer(p, Report(trouble'[p]))
    /\ UNCHANGED <<dir, temp, written, created, got, foreign, losses>>

EarlyAnswer(p) == dirDisk' = dirDisk                    \* mutant of SetSynced
SetSynced(p) == dirDisk' = dir

Sync(p) ==
    /\ pc[p] = "sync"
    /\ \/ SetSynced(p) /\ Answer(p, "ok")
       \/ UNCHANGED dirDisk /\ Answer(p, "not_synced")
    /\ UNCHANGED <<dir, temp, written, created, trouble, got, foreign,
                   losses>>

-----------------------------------------------------------------------------
(* multicrypt: keys::generate_all and atomic_io::write_noclobber.          *)

\* To the next name; after the last one generation has succeeded.
NextNameOrOk(p) ==
    IF at[p] < NKeys THEN Goto(p, "look", at[p] + 1) ELSE Answer(p, "ok")

Look(p) ==
    /\ pc[p] = "look"
    /\ Goto(p, IF dir[at[p]] = None THEN "write" ELSE "load", at[p])
    /\ UNCHANGED <<dir, dirDisk, temp, written, created, trouble, got,
                   foreign, losses>>

Loads(k) == Readable(k)

Load(p) ==
    /\ pc[p] = "load"
    /\ IF Loads(at[p]) THEN NextNameOrOk(p) ELSE Answer(p, "error")
    /\ UNCHANGED <<dir, dirDisk, temp, written, created, trouble, got,
                   foreign, losses>>

\* A temporary file, its content, sync_all.  multicrypt goes on to publish it;
\* otp1-auth and tf1024 start here with the final name instead.
Write(p) ==
    /\ pc[p] = "write" /\ tool = "multicrypt"
    /\ \/ /\ temp' = [temp EXCEPT ![p] = @ \cup {at[p]}]
          /\ written' = [written EXCEPT ![p] = @ \cup {at[p]}]
          /\ Goto(p, "persist", at[p])
       \/ /\ \E S \in {{}, {at[p]}} : temp' = [temp EXCEPT ![p] = @ \cup S]
          /\ Answer(p, "error")
          /\ UNCHANGED written
    /\ UNCHANGED <<dir, dirDisk, created, trouble, got, foreign, losses>>

Free(p) == dir[at[p]] = None

\* persist_noclobber; the temporary name goes (or its removal fails silently).
Persist(p) ==
    /\ pc[p] = "persist"
    /\ \/ /\ Free(p)
          /\ dir' = [dir EXCEPT ![at[p]] = p]
          /\ temp' = [temp EXCEPT ![p] = @ \ {at[p]}]
          /\ created' = [created EXCEPT ![p] = @ \cup {at[p]}]
          /\ Goto(p, "dirsync", at[p])
       \/ /\ \E S \in {{}, {at[p]}} : temp' = [temp EXCEPT ![p] = @ \ S]
          /\ Answer(p, IF Free(p) THEN "error" ELSE "exists")
          /\ UNCHANGED <<dir, created>>
    /\ UNCHANGED <<dirDisk, written, trouble, got, foreign, losses>>

RemoveAgain(p) == [dir EXCEPT ![at[p]] = None]          \* mutant of KeptAfter
KeptAfter(p) == dir

\* The directory after each key; otp1-auth ends here.
DirSync(p) ==
    /\ pc[p] = "dirsync"
    /\ \/ /\ dirDisk' = dir
          /\ IF tool = "multicrypt" THEN NextNameOrOk(p) ELSE Answer(p, "ok")
          /\ UNCHANGED dir
       \/ /\ dir' = KeptAfter(p)
          /\ Answer(p, "not_synced")
          /\ UNCHANGED dirDisk
    /\ UNCHANGED <<temp, written, created, trouble, got, foreign, losses>>

-----------------------------------------------------------------------------
(* otp1-auth: generate_key_next_to_current_exe; tf1024: keygen.            *)

Create(p) ==
    /\ pc[p] = "write" /\ tool \in {"otp1-auth", "tf1024"}
    /\ \/ /\ Free(p)
          /\ dir' = [dir EXCEPT ![at[p]] = p]
          /\ created' = [created EXCEPT ![p] = {at[p]}]
          /\ Goto(p, "fill", at[p])
       \/ Answer(p, "error") /\ UNCHANGED <<dir, created>>
    /\ UNCHANGED <<dirDisk, temp, written, trouble, got, foreign, losses>>

\* Writing or synchronising fails: remove_if_same_identity, which may fail.
Withdraw(p) ==
    /\ dir' \in {dir} \cup IF tool = "otp1-auth" /\ dir[at[p]] = p
                          THEN {[dir EXCEPT ![at[p]] = None]} ELSE {}
    /\ Answer(p, "error")

Fill(p) ==
    /\ pc[p] = "fill"
    /\ \/ /\ written' = [written EXCEPT ![p] = {at[p]}]
          /\ Goto(p, "flush", at[p])
          /\ UNCHANGED dir
       \/ Withdraw(p) /\ UNCHANGED written
    /\ UNCHANGED <<dirDisk, temp, created, trouble, got, foreign, losses>>

Flush(p) ==
    /\ pc[p] = "flush"
    /\ \/ /\ IF tool = "tf1024" THEN Answer(p, "ok")
                               ELSE Goto(p, "identify", at[p])
          /\ UNCHANGED dir
       \/ Withdraw(p)
    /\ UNCHANGED <<dirDisk, temp, written, created, trouble, got, foreign,
                   losses>>

Identify(p) ==
    /\ pc[p] = "identify"
    /\ IF dir[at[p]] = p THEN Goto(p, "dirsync", at[p]) ELSE Answer(p, "error")
    /\ UNCHANGED <<dir, dirDisk, temp, written, created, trouble, got,
                   foreign, losses>>

-----------------------------------------------------------------------------
(* The surroundings.                                                       *)

\* Another program puts a file of its own under a free name.
Intrude == \E k \in KeyName, m \in {Good, Junk} :
    /\ foreign < MaxForeign
    /\ foreign' = foreign + 1
    /\ dir[k] = None
    /\ dir' = [dir EXCEPT ![k] = m]
    /\ UNCHANGED <<place, dirDisk, temp, written, pc, at, created, trouble,
                   result, got, losses>>

Kill(p) ==
    /\ pc[p] \notin {"idle", "done"}
    /\ Answer(p, "killed")
    /\ UNCHANGED <<dir, dirDisk, temp, written, created, trouble, got,
                   foreign, losses>>

\* The file system writes a name to disk on its own account (which matters as
\* long as there can be a power failure).
WriteBack == \E k \in KeyName :
    /\ dirDisk[k] # dir[k] /\ losses < MaxLoss
    /\ dirDisk' = [dirDisk EXCEPT ![k] = dir[k]]
    /\ UNCHANGED <<place, dir, temp, written, pc, at, created, trouble, result,
                   got, foreign, losses>>

\* Every process stops and every name is what is on disk.  Bytes that were
\* not synchronised (or may not have been, when the process was killed) may be
\* missing: the file is then too short.
PowerLoss ==
    /\ losses < MaxLoss
    /\ losses' = losses + 1
    /\ dir' = dirDisk
    /\ \E lost \in SUBSET {p \in Proc : pc[p] = "flush" \/
              (tool \in {"otp1-auth", "tf1024"} /\ result[p] = "killed")} :
         written' = [p \in Proc |-> IF p \in lost THEN {} ELSE written[p]]
    /\ pc' = [p \in Proc |-> IF pc[p] = "idle" THEN "idle" ELSE "done"]
    /\ result' = [p \in Proc |-> IF pc[p] \in {"idle", "done"} THEN result[p]
                                 ELSE "killed"]
    /\ UNCHANGED <<place, dirDisk, temp, at, created, trouble, got, foreign>>

StepOf(p) ==
    \/ Start(p) \/ Use(p)
    \/ Precheck(p) \/ Stage(p) \/ Publish(p) \/ UnlinkTemp(p)
    \/ Rollback(p) \/ RollbackSync(p) \/ Sync(p)
    \/ Look(p) \/ Load(p) \/ Write(p) \/ Persist(p) \/ DirSync(p)
    \/ Create(p) \/ Fill(p) \/ Flush(p) \/ Identify(p)

Next ==
    \/ \E p \in Proc : StepOf(p) \/ Kill(p)
    \/ Intrude \/ WriteBack \/ PowerLoss

Spec == Init /\ [][Next]_vars

-----------------------------------------------------------------------------
(* Properties.                                                             *)

\* A cascade or be generation that reports success has left a set that is
\* entirely its own, and every later crash and every other generation keep it.
SuccessIsOwnSetOnDisk ==
    \A p \in Proc : tool \in {"cascade", "be"} /\ result[p] = "ok" =>
        \A k \in KeyName : dir[k] = p /\ dirDisk[k] = p

\* A cascade generation that reports a plain failure has left no key of its
\* own, and none comes back after a power failure (key_store.rs: rollback).
PlainFailureLeavesNothing ==
    \A p \in Proc : tool = "cascade" /\ result[p] \in {"exists", "error"} =>
        \A k \in KeyName : dir[k] # p /\ dirDisk[k] # p

\* A key file disappears or changes hands only when a power failure loses it
\* or its own maker withdraws it: no generation overwrites or removes the key
\* of another, however their checks, publications and rollbacks interleave.
OnlyTheMakerRemoves ==
    [][\A k \in KeyName : dir[k] # None /\ dir'[k] # dir[k] =>
          /\ dir'[k] = None \/ losses' # losses
          /\ losses' # losses \/ \E p \in Proc :
                dir[k] = p /\ pc[p] \in {"rollback", "fill", "flush"}]_vars

\* In multicrypt the keys a successful generation lists as created are on
\* disk for good, and until a power failure every name holds a usable key,
\* although other generations and programs fill names at the same time.
SuccessIsUsable ==
    \A p \in Proc : tool = "multicrypt" /\ result[p] = "ok" =>
        /\ \A k \in created[p] : dir[k] = p /\ dirDisk[k] = p
        /\ losses = 0 => \A k \in KeyName : Readable(k)

\* Generations of a set tell the truth: success is a whole set that can
\* be used and stays, and a plain failure leaves nothing behind.
Inv == /\ TypeOK
       /\ SuccessIsOwnSetOnDisk
       /\ PlainFailureLeavesNothing
       /\ SuccessIsUsable

\* In multicrypt a key somebody has read, and may have encrypted under, is
\* never taken away again by a generation that fails; in be neither is a
\* key.key, nor the key.pub that goes with it.
KeyInUseStays ==
    \A p \in Proc, k \in KeyName, m \in Maker :
        got[p] = <<k, m>> /\ losses = 0 =>
            /\ tool = "multicrypt" \/ (tool = "be" /\ k = 2) => dir[k] = m
            /\ tool = "be" /\ k = 2 /\ m \in Proc => dir[1] = m

\* A reader never accepts a key whose bytes are not all there, even while
\* otp1-auth fills the file under its final name or after it was killed.
ReaderGetsWholeKey ==
    [][\A p \in Proc, k \in KeyName, m \in Maker :
          got'[p] = <<k, m>> /\ got[p] # got'[p] =>
             m # Junk /\ (m \in Proc => k \in written[m])]_vars

-----------------------------------------------------------------------------
(* The abstract specification, with its state read off this one's.         *)

\* What a call that is over says.  Only cascade tells a failure that has left
\* nothing behind from one that may have left keys.
Says(p) ==
    CASE result[p] \in {"ok", "read", "killed"} -> result[p]
      [] result[p] \in {"exists", "error"} ->
            IF tool = "cascade" THEN "failed" ELSE "unclear"
      [] OTHER -> "unclear"

Status(p) == CASE pc[p] = "idle" -> "idle"
               [] pc[p] = "done" -> Says(p)
               [] OTHER -> "working"

Kind == CASE tool \in {"cascade", "be"} -> "set"
          [] tool = "multicrypt" -> "each"
          [] tool = "otp1-auth" -> "one"
          [] OTHER -> "loose"

K == INSTANCE KeyPromise WITH
        Client <- Proc, Foreign <- {Good, Junk}, Nobody <- None, Name <- KeyName,
        kind <- Kind, holder <- dir, safe <- dirDisk,
        status <- [p \in Proc |-> Status(p)]

\* Each of the five tools keeps the promise of KeyPromise: whoever else
\* generates, fails or crashes, keys appear where nothing is, a whole set is
\* never taken away again, and every answer is true when it is given.
KeepsThePromise == K!Spec
=============================================================================

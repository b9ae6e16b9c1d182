---------------------------- MODULE StagedOutput ----------------------------
(***************************************************************************)
(* One output, published whole or not at all: the file commands of secure, *)
(* best, filecrypt, cascade, multicrypt, x2, x3x, algos, be and tf1024.    *)
(* Each opens its input, refuses an existing destination, stages the       *)
(* output in the same file system, synchronises it, and gives it the       *)
(* destination's name in one step that never replaces anything.  The tools *)
(* differ in where they stage (an unnamed file, a named one, one in a      *)
(* private directory, memory first), in what they read or look at again,   *)
(* in which signals they hold back, and in what they say when something    *)
(* fails after the output is there.                                        *)
(*                                                                         *)
(* Several invocations share one destination with other programs that may  *)
(* create and remove it, with an editor of the input, with signals, kills  *)
(* and power failures.  The staged output of process p is the inode p, its *)
(* temporary name (if it has one) is p; 0 is the destination's name and,   *)
(* as an inode, any file of somebody else.  The input is read in parts so  *)
(* that an edit can fall between them; two states of it differ in content. *)
(***************************************************************************)
EXTENDS Integers, FiniteSets, Sequences

CONSTANTS
    Proc,        \* invocations, all with the same destination
    Tools,       \* whose code is modelled
    Late,        \* tools whose publication may take effect and report an error
    Exchanged,   \* tools whose temporary names somebody may take over
    MaxLoad,     \* bound: calls, edits, meddling, signals and power failures
    None         \* no inode

Dest  == 0
Other == 0
AllTools == {"secure", "best", "filecrypt", "cascade", "multicrypt",
             "x2", "x3x", "algos", "be", "tf1024"}
\* best, filecrypt and x3x also make a key that way, without an input.
Offers(t) == {"encrypt", "decrypt"}
             \cup IF t \in {"best", "filecrypt", "x3x"} THEN {"make"} ELSE {}
Name  == Proc \cup {Dest}
Inode == Proc \cup {Other}

ASSUME StagedAssumption ==
    /\ Tools \subseteq AllTools /\ Late \subseteq Tools /\ Exchanged \subseteq Tools
    /\ IsFiniteSet(Proc) /\ MaxLoad \in Nat
    /\ Proc \cap Int = {} /\ None \notin Inode

VARIABLES
    tool,          \* the tool of every call of a behaviour
    unnamed,       \* the file system has O_TMPFILE
    linkOnly,      \* it cannot rename without replacing: link, then unlink
    dir, dirDisk,  \* the inode behind each name: in memory, on disk
    content,       \* how much of each staged output is written
    synced,        \* staged outputs whose content is on disk
    input,         \* the states the input has been in, the last one is now
    pc, op, result,
    snap,          \* the input's state when each process opened it
    got,           \* the input's states that it read its parts from
    signal,        \* the step at which its first signal arrived
    removed,       \* history: outputs that somebody else unlinked
    lost,          \* history: there has been a power failure
    events         \* what the surroundings have done so far

place == <<tool, unnamed, linkOnly>>
files == <<dir, dirDisk, content, synced>>
jobs  == <<op, snap, got>>
world == <<place, input, signal, removed, lost, events>>
vars  == <<tool, unnamed, linkOnly, dir, dirDisk, content, synced, input, pc,
           op, result, snap, got, signal, removed, lost, events>>

-----------------------------------------------------------------------------
\* The steps of a call, in the order in which the tool takes them.  A step
\* "verify" authenticates the whole input before anything is staged; "header"
\* reads what says how long the rest must be.
Order(t, o) ==
    CASE t = "secure" /\ o = "encrypt" ->
            <<"open", "target", "create", "first", "rest", "interrupted",
              "compare", "sync", "lastcheck", "publish", "dirsync">>
      [] t = "secure" /\ o = "decrypt" ->
            <<"open", "target", "create", "first", "rest", "interrupted",
              "sync", "lastcheck", "publish", "dirsync">>
      [] t = "best" /\ o # "make" ->
            <<"open", "target", "create", "first", "rest", "compare",
              "lastcheck", "sync", "publish", "dirsync">>
      [] t \in {"best", "x3x"} /\ o = "make" ->
            <<"target", "create", "write", "sync", "publish", "dirsync">>
      [] t = "filecrypt" /\ o # "make" ->
            <<"target", "open", "create", "first", "rest", "sync",
              "identity", "publish", "confirm">>
      [] t = "filecrypt" /\ o = "make" ->
            <<"target", "create", "write", "sync", "identity", "publish",
              "confirm">>
      [] t = "cascade" ->
            <<"target", "open", "first", "rest", "create", "write", "sync",
              "publish", "dirsync">>
      [] t = "multicrypt" ->
            <<"open", "target", "first", "rest", "create", "write", "sync",
              "publish", "dirsync">>
      [] t \in {"x2", "x3x"} /\ o = "encrypt" ->
            <<"open", "target", "create", "first", "rest", "sync", "publish",
              "dirsync">>
      [] t = "x2" /\ o = "decrypt" ->
            <<"open", "target", "header", "create", "first", "rest", "sync",
              "publish", "dirsync">>
      [] t = "x3x" /\ o = "decrypt" ->
            <<"open", "header", "target", "create", "first", "rest", "sync",
              "publish", "dirsync">>
      [] t \in {"algos", "tf1024"} /\ o = "encrypt" ->
            <<"target", "open", "create", "first", "rest", "sync", "publish">>
      [] t = "algos" /\ o = "decrypt" ->
            <<"target", "open", "header", "create", "first", "rest", "sync",
              "publish">>
      [] t = "tf1024" /\ o = "decrypt" ->
            <<"target", "open", "verify", "create", "first", "rest", "sync",
              "publish">>
      [] t = "be" /\ o = "encrypt" ->
            <<"target", "open", "create", "first", "rest", "sync", "publish",
              "dirsync">>
      [] t = "be" /\ o = "decrypt" ->
            <<"target", "verify", "create", "first", "rest", "sync",
              "publish", "dirsync">>

Step   == {"open", "target", "create", "verify", "header", "first", "rest",
           "interrupted", "compare", "write", "sync", "lastcheck",
           "identity", "publish", "late", "unlink", "confirm", "dirsync"}
\* "unsynced": an error of the directory's synchronisation that does not say
\* that the output is there (be and x3x; the others' do, "uncertain").
\* "unseen": filecrypt's plain error or mismatch when, after its move, it could
\* not look at the destination; its caller cannot tell it from the other ones.
Result == {"none", "ok", "error", "leftover", "interrupted", "uncertain",
           "unsynced", "installed_leftover", "mismatch", "unseen", "killed"}
State  == [len : {0, 1}, mtime : 0..MaxLoad, genuine : BOOLEAN]

\* What follows each step: "done" after the last.
Successor == [t \in AllTools |-> [o \in Offers(t) |->
    LET steps == Order(t, o) IN
    [s \in {steps[i] : i \in DOMAIN steps} |->
        LET i == CHOOSE i \in DOMAIN steps : steps[i] = s IN
        IF i = Len(steps) THEN "done" ELSE steps[i + 1]]]]

NoLastCheck(o, s) ==                                    \* mutant of After
    LET next == Successor[tool][o] IN
    IF next[s] = "lastcheck" THEN next["lastcheck"] ELSE next[s]
After(o, s) == Successor[tool][o][s]

Handles == tool \in {"secure", "best"}    \* signals set a flag
InMemory == tool \in {"cascade", "multicrypt"}
Running(p) == pc[p] \notin {"idle", "done"}
Now == Len(input)
Load == Cardinality({p \in Proc : pc[p] # "idle"}) + events

TypeOK ==
    /\ tool \in Tools /\ unnamed \in BOOLEAN /\ linkOnly \in BOOLEAN
    /\ dir \in [Name -> Inode \cup {None}]
    /\ dirDisk \in [Name -> Inode \cup {None}]
    /\ content \in [Proc -> {"empty", "partial", "whole", "torn"}]
    /\ synced \in SUBSET Proc
    /\ input \in Seq(State) /\ Len(input) \in 1..MaxLoad + 1
    /\ pc \in [Proc -> Step \cup {"idle", "done"}]
    /\ op \in [Proc -> {"none"} \cup Offers(tool)]
    /\ result \in [Proc -> Result]
    /\ snap \in [Proc -> 0..MaxLoad + 1]
    /\ got \in [Proc -> Seq(1..MaxLoad + 1)]
    /\ signal \in [Proc -> Step \cup {"none"}]
    /\ removed \in SUBSET Proc
    /\ lost \in BOOLEAN /\ events \in 0..MaxLoad

Init ==
    /\ tool \in Tools /\ linkOnly \in BOOLEAN
    /\ unnamed \in BOOLEAN      \* only secure asks, and it never links a name
    /\ IF tool = "secure" THEN ~(linkOnly /\ unnamed) ELSE unnamed
    /\ dir \in {[n \in Name |-> IF n = Dest THEN i ELSE None] :
                i \in {Other, None}}
    /\ dirDisk = dir
    /\ content = [p \in Proc |-> "empty"]
    /\ synced = {}
    /\ input = <<[len |-> 0, mtime |-> 0, genuine |-> TRUE]>>
    /\ pc = [p \in Proc |-> "idle"]
    /\ op = [p \in Proc |-> "none"]
    /\ result = [p \in Proc |-> "none"]
    /\ snap = [p \in Proc |-> 0]
    /\ got = [p \in Proc |-> <<>>]
    /\ signal = [p \in Proc |-> "none"]
    /\ removed = {} /\ lost = FALSE /\ events = 0

-----------------------------------------------------------------------------
(* Answers.  Every return drops the temporary file, if it has a name.      *)

Goto(p, s) == pc' = [pc EXCEPT ![p] = s] /\ UNCHANGED result

Answer(p, r) ==
    /\ pc' = [pc EXCEPT ![p] = "done"]
    /\ result' = [result EXCEPT ![p] = r]

\* The last step of a call is its success.
Leave(p, s) == LET next == After(op[p], s) IN
               IF next = "done" THEN Answer(p, "ok") ELSE Goto(p, next)
Advance(p) == Leave(p, pc[p])

\* Removing the temporary name may fail; only cascade and x2 tell their caller.
Tells == tool \in {"cascade", "x2"}
Abandon(p, r) ==
    \/ /\ dir' = [dir EXCEPT ![p] = None]
       /\ Answer(p, r)
    \/ /\ dir[p] # None
       /\ Answer(p, IF Tells THEN "leftover" ELSE r)
       /\ UNCHANGED dir

\* A flag that was set turns an error of secure's copy into an interruption.
Seen(p) == signal[p] # "none"
Fail(p) ==
    Abandon(p, IF tool = "secure" /\ pc[p] \in {"first", "rest"} /\ Seen(p)
               THEN "interrupted" ELSE "error")

-----------------------------------------------------------------------------
(* Before anything has a name.                                             *)

Begin(p, o) ==
    /\ pc[p] = "idle" /\ Load < MaxLoad /\ o \in Offers(tool)
    /\ op' = [op EXCEPT ![p] = o]
    /\ Goto(p, Order(tool, o)[1])
    /\ UNCHANGED <<files, snap, got, world>>

Open(p) ==
    /\ pc[p] = "open"
    /\ IF Handles /\ Seen(p) THEN Answer(p, "interrupted") /\ UNCHANGED snap
       ELSE Advance(p) /\ snap' = [snap EXCEPT ![p] = Now]
    /\ UNCHANGED <<files, op, got, world>>

LookForTarget(p) ==
    /\ pc[p] = "target"
    /\ IF dir[Dest] = None THEN Advance(p) ELSE Answer(p, "error")
    /\ UNCHANGED <<files, jobs, world>>

FallsBack(o) == tool # "secure" \/ ~unnamed             \* mutant of NamedStage
\* Does the stage of operation o have a name?  secure refuses to stage
\* plaintext under one.
NamedStage(o) == tool # "secure" \/ (~unnamed /\ o = "encrypt")

Create(p) ==
    /\ pc[p] = "create"
    /\ IF NamedStage(op[p])
       THEN dir' = [dir EXCEPT ![p] = p] /\ Advance(p)
       ELSE /\ UNCHANGED dir
            /\ IF unnamed THEN Advance(p) ELSE Answer(p, "error")
    /\ UNCHANGED <<dirDisk, content, synced, jobs, world>>

\* The file is there but cannot be made private; removing it may fail, too.
CreateFails(p) ==
    /\ pc[p] = "create" /\ NamedStage(op[p])
    /\ dir' = [dir EXCEPT ![p] = p]
    /\ Answer(p, IF Tells THEN "leftover" ELSE "error")
    /\ UNCHANGED <<dirDisk, content, synced, jobs, world>>

-----------------------------------------------------------------------------
(* Reading, transforming and staging.                                      *)

\* What the tool compares when it looks at the input again.
SameModified(i, j) ==                                   \* mutant of SameInput
    input[i].len = input[j].len /\ input[i].mtime = input[j].mtime
SameInput(i, j) ==
    CASE tool = "secure" -> i = j                          \* ctime and all
      [] tool = "best" -> /\ input[i].len = input[j].len
                          /\ input[i].mtime = input[j].mtime
      [] OTHER -> input[i].len = input[j].len

\* The header's length is the one the file had when it was opened.
ReadHeader(p) ==
    /\ pc[p] = "header"
    /\ got' = [got EXCEPT ![p] = <<Now>>]
    /\ IF SameInput(snap[p], Now) THEN Advance(p) /\ UNCHANGED dir ELSE Fail(p)
    /\ UNCHANGED <<dirDisk, content, synced, op, snap, world>>

\* A pass over all of it (be opens it anew for each of its two).
Verify(p) ==
    /\ pc[p] = "verify"
    /\ got' = [got EXCEPT ![p] = <<Now>>]
    /\ IF input[Now].genuine /\ (tool = "tf1024" => SameInput(snap[p], Now))
       THEN Advance(p) /\ UNCHANGED dir ELSE Fail(p)
    /\ UNCHANGED <<dirDisk, content, synced, op, snap, world>>

ReadFirst(p) ==
    /\ pc[p] = "first"
    /\ ~ (Handles /\ Seen(p))
    /\ got' = [got EXCEPT ![p] = Append(@, Now)]
    /\ content' = [content EXCEPT ![p] = IF InMemory THEN @ ELSE "partial"]
    /\ Advance(p)
    /\ UNCHANGED <<dir, dirDisk, synced, op, snap, world>>

\* The last part completes the output of the first part's state: for a
\* decryption the tags of all parts verify under one header (and be compares
\* the digests of its passes), for an encryption anything is plaintext, though
\* some tools insist on the length they announced.
Authentic(parts) ==
    /\ Len(parts) >= 2 /\ \A i \in DOMAIN parts : parts[i] = parts[1]
    /\ input[parts[1]].genuine
Announces == tool \in {"filecrypt", "x2", "x3x", "algos", "tf1024"}
Completes(p, parts) ==
    IF op[p] = "decrypt" THEN Authentic(parts)
    ELSE Announces => SameInput(snap[p], Now)

ReadRest(p) ==
    /\ pc[p] = "rest"
    /\ ~ (Handles /\ Seen(p))
    /\ got' = [got EXCEPT ![p] = Append(@, Now)]
    /\ IF Completes(p, got'[p])
       THEN /\ content' = [content EXCEPT ![p] =
                               IF InMemory THEN @ ELSE "whole"]
            /\ Advance(p)
            /\ UNCHANGED dir
       ELSE Fail(p) /\ UNCHANGED content
    /\ UNCHANGED <<dirDisk, synced, op, snap, world>>

\* The reader of secure and the copy loop of best see the flag.
ReadCancelled(p) ==
    /\ pc[p] \in {"first", "rest"} /\ Handles /\ Seen(p)
    /\ Abandon(p, "interrupted")
    /\ UNCHANGED <<dirDisk, content, synced, jobs, world>>

Write(p) ==
    /\ pc[p] = "write"
    /\ content' = [content EXCEPT ![p] = "whole"]
    /\ Advance(p)
    /\ UNCHANGED <<dir, dirDisk, synced, jobs, world>>

CheckSignal(p) ==
    /\ pc[p] \in {"interrupted", "lastcheck"}
    /\ IF Seen(p) THEN Abandon(p, "interrupted")
                  ELSE Advance(p) /\ UNCHANGED dir
    /\ UNCHANGED <<dirDisk, content, synced, jobs, world>>

CompareInput(p) ==
    /\ pc[p] = "compare"
    /\ IF SameInput(snap[p], Now) THEN Advance(p) /\ UNCHANGED dir
                                  ELSE Fail(p)
    /\ UNCHANGED <<dirDisk, content, synced, jobs, world>>

SyncedFile(p) == p         \* through the open handle, not through the name
SyncStage(p) ==
    /\ pc[p] = "sync"
    /\ synced' = synced \cup {SyncedFile(p)}
    /\ Advance(p)
    /\ UNCHANGED <<dir, dirDisk, content, jobs, world>>

CheckIdentity(p) ==
    /\ pc[p] = "identity"
    /\ IF dir[p] = p THEN Advance(p) /\ UNCHANGED dir ELSE Fail(p)
    /\ UNCHANGED <<dirDisk, content, synced, jobs, world>>

\* An I/O error in any step before the publication.
StepFails(p) ==
    /\ pc[p] \in Step \ {"publish", "late", "unlink", "confirm", "dirsync",
                         "interrupted", "lastcheck"}
    /\ \/ /\ pc[p] = "write" \/ (pc[p] \in {"first", "rest"} /\ ~InMemory)
          /\ content' = [content EXCEPT ![p] = "partial"]
       \/ UNCHANGED content
    /\ Fail(p)
    /\ UNCHANGED <<dirDisk, synced, jobs, world>>

-----------------------------------------------------------------------------
(* Publication: one step that gives the output the destination's name.     *)

Whatever == TRUE                                        \* mutant of Vacant
Vacant == dir[Dest] = None
Source(p) == IF NamedStage(op[p]) THEN dir[p] ELSE p

\* A stage that has a name loses it, unless it is published as a link.
Linked(p) == NamedStage(op[p]) /\ linkOnly /\ tool # "secure"
Install(p) ==
    dir' = [dir EXCEPT ![Dest] = Source(p),
                       ![p] = IF Linked(p) THEN @ ELSE None]

\* secure renames only; without renameat2 it reports an error.
CanPublish(p) == tool = "secure" /\ linkOnly => ~NamedStage(op[p])

\* move_atomic is durable when it returns: it synchronises the directories.
Published(p) ==
    IF Linked(p) THEN Goto(p, "unlink") /\ UNCHANGED dirDisk
    ELSE /\ Advance(p)
         /\ IF tool = "filecrypt" THEN dirDisk' = dir' ELSE UNCHANGED dirDisk

Publish(p) ==
    /\ pc[p] = "publish"
    /\ CanPublish(p) /\ Vacant /\ Source(p) # None
    /\ Install(p)
    /\ Published(p)
    /\ UNCHANGED <<content, synced, jobs, world>>

\* EEXIST, no such file, an I/O error, or no suitable rename.
PublishRefused(p) ==
    /\ pc[p] = "publish"
    /\ Fail(p)
    /\ UNCHANGED <<dirDisk, content, synced, jobs, world>>

\* The move took effect and then something failed.
PublishLate(p) ==
    /\ pc[p] = "publish" /\ tool \in Late
    /\ CanPublish(p) /\ Vacant /\ Source(p) # None
    /\ Install(p)
    /\ Goto(p, "late")
    /\ UNCHANGED <<dirDisk, content, synced, jobs, world>>

TrustTheError(p) ==                                     \* mutant of DecideLate
    /\ pc[p] = "late"
    /\ Fail(p)
    /\ UNCHANGED <<dirDisk, content, synced, jobs, world>>
\* filecrypt looks at the destination before it believes the error, but
\* believes it when it cannot look.
DecideLate(p) ==
    /\ pc[p] = "late"
    /\ \/ IF tool = "filecrypt" /\ dir[Dest] = p THEN Abandon(p, "uncertain")
                                                 ELSE Fail(p)
       \/ tool = "filecrypt" /\ Abandon(p, "unseen")
    /\ UNCHANGED <<dirDisk, content, synced, jobs, world>>

\* The link is there; the temporary name goes.  atomicwrites then reports a
\* failure as an error (see DecideLate), tempfile ignores it.
Unlink(p) ==
    /\ pc[p] = "unlink"
    /\ \/ /\ dir' = [dir EXCEPT ![p] = None]
          /\ Leave(p, "publish")
          /\ IF tool = "filecrypt" THEN dirDisk' = dir' ELSE UNCHANGED dirDisk
       \/ /\ UNCHANGED <<dir, dirDisk>>
          /\ CASE Tells -> Answer(p, "installed_leftover")
               [] tool = "filecrypt" -> Goto(p, "late")
               [] OTHER -> Leave(p, "publish")
    /\ UNCHANGED <<content, synced, jobs, world>>

\* A destination that cannot be looked at counts as another file.
Confirm(p) ==
    /\ pc[p] = "confirm"
    /\ \/ Abandon(p, IF dir[Dest] = p THEN "ok" ELSE "mismatch")
       \/ Abandon(p, "unseen")
    /\ UNCHANGED <<dirDisk, content, synced, jobs, world>>

SyncDirectory(p) ==
    /\ pc[p] = "dirsync"
    /\ \/ dirDisk' = dir /\ Answer(p, "ok")
       \/ /\ UNCHANGED dirDisk
          /\ Answer(p, IF tool \in {"be", "x3x"} THEN "unsynced"
                                                 ELSE "uncertain")
    /\ UNCHANGED <<dir, content, synced, jobs, world>>

-----------------------------------------------------------------------------
(* The rest of the system.                                                 *)

Happens == Load < MaxLoad /\ events' = events + 1 /\ UNCHANGED place

\* An edit; the old modification time may be put back (where anybody looks).
EditInput(l, t, g) ==
    /\ Happens
    /\ t \in {Now} \cup IF tool \in {"best", "secure"}
                       THEN {input[i].mtime : i \in 1..Now} ELSE {}
    /\ input' = Append(input, [len |-> l, mtime |-> t, genuine |-> g])
    /\ UNCHANGED <<files, pc, result, jobs, signal, removed, lost>>

Meddle ==
    /\ Happens
    /\ \/ dir[Dest] = None /\ dir' = [dir EXCEPT ![Dest] = Other]
          /\ UNCHANGED removed
       \/ dir[Dest] # None /\ dir' = [dir EXCEPT ![Dest] = None]
          /\ removed' = removed \cup ({dir[Dest]} \cap Proc)
       \/ /\ tool \in Exchanged
          /\ \E p \in Proc : dir[p] = p /\ dir' = [dir EXCEPT ![p] = Other]
          /\ UNCHANGED removed
    /\ UNCHANGED <<dirDisk, content, synced, input, pc, result, jobs, signal,
                   lost>>

\* A handler only notes the first signal; a later one has the same effect.
Signal(p) ==
    /\ Happens
    /\ Handles /\ Running(p) /\ signal[p] = "none"
    /\ signal' = [signal EXCEPT ![p] = pc[p]]
    /\ UNCHANGED <<files, pc, result, jobs, input, removed, lost>>

\* SIGKILL, or any signal that the tool does not handle.
Kill(p) ==
    /\ Running(p)
    /\ Answer(p, "killed")
    /\ UNCHANGED <<files, jobs, world>>

\* The system writes the directory back when it likes, which matters as long
\* as there can be a power failure, and for the destination's name: no tool
\* looks at what a power failure has left of its temporary names.
WriteBack ==
    /\ dirDisk[Dest] # dir[Dest] /\ Load < MaxLoad
    /\ dirDisk' = dir
    /\ UNCHANGED <<dir, content, synced, pc, result, jobs, world>>

PowerLoss ==
    /\ Happens
    /\ lost' = TRUE
    /\ dir' = dirDisk
    /\ content' = [p \in Proc |-> IF p \in synced \/ content[p] = "empty"
                                  THEN content[p] ELSE "torn"]
    /\ pc' = [p \in Proc |-> IF Running(p) THEN "done" ELSE pc[p]]
    /\ result' = [p \in Proc |-> IF Running(p) THEN "killed" ELSE result[p]]
    /\ UNCHANGED <<dirDisk, synced, jobs, input, signal, removed>>

Stage(p) ==
    \/ \E o \in {"encrypt", "decrypt", "make"} : Begin(p, o)
    \/ Open(p) \/ LookForTarget(p) \/ Create(p) \/ CreateFails(p)
    \/ ReadHeader(p) \/ Verify(p) \/ ReadFirst(p) \/ ReadRest(p) \/ ReadCancelled(p) \/ Write(p)
    \/ CheckSignal(p) \/ CompareInput(p)
    \/ SyncStage(p) \/ CheckIdentity(p) \/ StepFails(p)

Commit(p) ==
    \/ Publish(p) \/ PublishRefused(p) \/ PublishLate(p) \/ DecideLate(p)
    \/ Unlink(p) \/ Confirm(p) \/ SyncDirectory(p)

Environment ==
    \/ \E l \in {0, 1}, t \in 0..MaxLoad, g \in BOOLEAN : EditInput(l, t, g)
    \/ Meddle \/ WriteBack \/ PowerLoss
    \/ \E p \in Proc : Signal(p) \/ Kill(p)

Next == (\E p \in Proc : Stage(p) \/ Commit(p)) \/ Environment

Spec == Init /\ [][Next]_vars

-----------------------------------------------------------------------------
(* Properties.                                                             *)

\* Whatever has the destination's name, also after a power failure, is a
\* complete output, and a decryption of a container that was authenticated
\* to its end ("no plaintext is published ... until the authenticated footer
\* and physical end-of-file have both been verified").
DestinationIsWhole ==
    \A p \in Proc : dir[Dest] = p =>
        /\ content[p] = "whole"
        /\ op[p] = "decrypt" => Authentic(got[p])

\* Plaintext has a name, temporary or not, only when the whole container has
\* been authenticated: secure stages it in an unnamed file, cascade and
\* multicrypt in memory, so that no kill and no power failure exposes it.
NamedPlaintextIsAuthentic ==
    tool \in {"secure", "cascade", "multicrypt"} => \A p \in Proc, n \in Name :
        dir[n] = p /\ op[p] = "decrypt" /\ content[p] # "empty"
            => Authentic(got[p])

\* A published encryption is one of a state the input was in, not of a
\* mixture of two (secure and, as long as nobody backdates it, best).
OneStateOfTheInput ==
    \/ tool = "secure"
    \/ tool = "best" /\ \A i \in 1..Now : input[i].mtime = i - 1
    => \A p \in Proc :
          dir[Dest] = p /\ op[p] = "encrypt" => got[p][1] = got[p][2]

\* A signal stops the publication unless it arrived after the last check
\* (best's keygen has none: it holds every signal back).
SignalStops ==
    \A p \in Proc : dir[Dest] = p /\ op[p] # "make" =>
        signal[p] \in {"none", "publish", "late", "unlink", "dirsync"}
                      \cup IF tool = "best" THEN {"sync"} ELSE {}

\* No error, and no interruption, is reported for an output that is there;
\* where the message says that it is there, it is.  The exception is filecrypt
\* when it cannot look at the destination after its move ("unseen"): its error
\* or mismatch may then stand for an output that is there, and no other tool's.
AnswersAreTrue ==
    \A p \in Proc :
        /\ result[p] = "unseen" => tool = "filecrypt"
        /\ result[p] \in {"error", "leftover", "interrupted", "mismatch"}
            => dir[Dest] # p \/ p \in removed
        /\ result[p] \in {"uncertain", "unsynced", "installed_leftover"} /\ ~lost
            => dir[Dest] = p \/ p \in removed

\* A reported success is this call's own output under the destination's name
\* on disk, until somebody else removes it (algos and tf1024 do not synchronise
\* the directory: theirs is there until a power failure).
SuccessIsDurable ==
    \A p \in Proc : result[p] = "ok" =>
        \/ p \in removed
        \/ IF tool \in {"algos", "tf1024"} THEN lost \/ dir[Dest] = p
                                          ELSE dirDisk[Dest] = p

\* cascade and x2 never leave a temporary file without naming it in their answer.
LeftoverIsReported ==
    Tells /\ ~lost => \A p \in Proc :
        pc[p] = "done" /\ dir[p] # None
            => result[p] \in {"leftover", "installed_leftover", "killed"}

\* No call replaces what has the destination's name, even when it appeared
\* after the call had found the name free.
NeverReplaced ==
    [][dir[Dest] # None /\ events' = events => dir'[Dest] = dir[Dest]]_vars

\* Every answer is true: an error or an interruption has published nothing
\* (except filecrypt's after a look at the destination that failed), success
\* and uncertainty stand for an output that is there, and cascade and x2 name
\* the temporary file they could not remove.
Inv == TypeOK /\ AnswersAreTrue /\ SuccessIsDurable /\ LeftoverIsReported

\* No name, the destination's or a temporary one, ever stands for a part of
\* an output or for plaintext that was not authenticated to its end.
NamesAreWhole == DestinationIsWhole /\ NamedPlaintextIsAuthentic

-----------------------------------------------------------------------------
(* The abstract specification, with its state read off this one's.         *)

\* What a call that is over says of its output.
Says(p) ==
    CASE result[p] \in {"error", "leftover", "interrupted", "mismatch"} -> "failed"
      [] result[p] \in {"uncertain", "unsynced", "installed_leftover"} -> "there"
      [] result[p] = "unseen" -> "unclear"
      [] result[p] = "ok" -> IF tool \in {"algos", "tf1024"} THEN "there" ELSE "durable"
      [] OTHER -> "killed"

\* A call past its publication has published, unless somebody exchanged its
\* stage before.
Status(p) ==
    CASE pc[p] = "idle" -> "idle"
      [] pc[p] = "done" -> Says(p)
      [] pc[p] \in {"late", "unlink", "confirm", "dirsync"} ->
            IF dir[Dest] = p \/ p \in removed THEN "published" ELSE "displaced"
      [] OTHER -> "working"

O == INSTANCE OutputPromise WITH
        Client <- Proc, Vacant <- None, Foreign <- Other,
        holder <- dir[Dest], safe <- dirDisk[Dest],
        status <- [p \in Proc |-> Status(p)], turns <- events

\* Each of the ten tools keeps the promise of OutputPromise: publication is
\* one step between a free name and a whole output, however many the tool takes,
\* and a call says that it failed only when its output is not there, or (only
\* filecrypt) has to answer without having seen whether it is.
KeepsThePromise == O!Spec
=============================================================================

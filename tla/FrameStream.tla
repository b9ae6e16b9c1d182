---------------------------- MODULE FrameStream ----------------------------
(***************************************************************************)
(* The chunked container shared by x4x (src/x5x/src/x4x) and the 50        *)
(* e-tools: a file is read one chunk ahead, each chunk is sealed as one    *)
(* frame, and the frame after which the input ends is marked final.        *)
(*                                                                         *)
(* The input file may grow or shrink while it is read.  Containers lie in  *)
(* storage that may lose, repeat, reorder or mix their frames and change   *)
(* their headers.  Commands race for output names, fail and are killed.    *)
(*                                                                         *)
(* A chunk of plaintext is the offset it was read at and its length.  The  *)
(* AEAD is perfect: a frame opens iff the header, the frame number and the *)
(* frame header are those it was sealed under.  The key and nonce prefix   *)
(* of an encryption are random, so they are named by the process.          *)
(***************************************************************************)
EXTENDS Naturals, Sequences

CONSTANTS
    Proc,        \* commands; an encryption is also the name of its header
    OpOf,        \* Proc -> Op
    Path,        \* names for containers and plaintexts
    Chunk,       \* chunk size, in units of data
    Tools,       \* "x4x", "e-tool" or both
    MaxLen,      \* bound: length of the input
    MaxFrames,   \* bound: frames in a damaged container
    MaxEvents,   \* bound: length changes, damages, names taken by others
    None         \* no process, no name

Op == {"encrypt", "decrypt"}

ASSUME StreamAssumption ==
    /\ OpOf \in [Proc -> Op]
    /\ Chunk \in Nat \ {0}
    /\ Tools \subseteq {"x4x", "e-tool"}
    /\ MaxLen \in Nat /\ MaxFrames \in Nat /\ MaxEvents \in Nat
    /\ None \notin Proc \cup Path

VARIABLES
    tool,     \* the program all commands of a behaviour are of
    length,   \* current length of the input file
    store,    \* what each name stands for
    pc,
    job,      \* input and output name of each command
    read,     \* chunks an encryption has read
    temp,     \* frames in an encryption's temporary container
    header,   \* whose header a decryption has read
    got,      \* chunks in a decryption's temporary plaintext
    result,
    damaged,  \* history: names whose container was ever damaged
    edited,   \* history: the input has changed its length
    events    \* what the surroundings have done so far

vars == <<tool, length, store, pc, job, read, temp, header, got, result,
          damaged, edited, events>>

Piece == [from : Nat, len : 0..Chunk]
Seal  == [by : Proc, at : Nat, final : BOOLEAN, piece : Piece]
Frame == [len : 0..Chunk + 1, final : BOOLEAN, seal : Seal]

Nothing == [kind |-> "nothing"]
Foreign == [kind |-> "foreign"]
Container(p, frames) ==
    [kind |-> "container", by |-> p, frames |-> frames, torn |-> FALSE]
Plaintext(p, pieces) == [kind |-> "plaintext", by |-> p, pieces |-> pieces]

\* torn: bytes follow that are not a whole frame.
Content ==
    {Nothing, Foreign}
    \cup [kind : {"container"}, by : Proc \cup {None}, frames : Seq(Frame),
          torn : BOOLEAN]
    \cup [kind : {"plaintext"}, by : Proc, pieces : Seq(Piece)]

Step == {"idle", "first", "ahead", "header", "frame", "eof", "commit",
         "dirsync", "done"}
Result == {"none", "ok", "exists", "rejected", "error", "killed"}

TypeOK ==
    /\ tool \in Tools
    /\ length \in 0..MaxLen
    /\ store \in [Path -> Content]
    /\ pc \in [Proc -> Step]
    /\ job \in [Proc -> [in : Path \cup {None}, out : Path \cup {None}]]
    /\ read \in [Proc -> Seq(Piece)]
    /\ temp \in [Proc -> Seq(Frame)]
    /\ header \in [Proc -> Proc \cup {None}]
    /\ got \in [Proc -> Seq(Piece)]
    /\ result \in [Proc -> Result]
    /\ damaged \subseteq Path
    /\ edited \in BOOLEAN /\ events \in 0..MaxEvents

Init ==
    /\ tool \in Tools
    /\ length \in 0..MaxLen
    /\ store = [o \in Path |-> Nothing]
    /\ pc = [p \in Proc |-> "idle"]
    /\ job = [p \in Proc |-> [in |-> None, out |-> None]]
    /\ read = [p \in Proc |-> <<>>]
    /\ temp = [p \in Proc |-> <<>>]
    /\ header = [p \in Proc |-> None]
    /\ got = [p \in Proc |-> <<>>]
    /\ result = [p \in Proc |-> "none"]
    /\ damaged = {} /\ edited = FALSE /\ events = 0

-----------------------------------------------------------------------------
Goto(p, s) == pc' = [pc EXCEPT ![p] = s] /\ UNCHANGED result

Return(p, r) ==
    /\ pc' = [pc EXCEPT ![p] = "done"]
    /\ result' = [result EXCEPT ![p] = r]

World == UNCHANGED <<tool, length, store, damaged, edited, events>>
Work  == UNCHANGED <<read, temp, header, got>>

NameTaken(o) == store[o] # Nothing

\* open_input_and_validate_output
Begin(p) ==
    /\ pc[p] = "idle" /\ World /\ Work
    /\ \E i \in Path \cup {None}, o \in Path :
          /\ i # o
          /\ IF OpOf[p] = "encrypt" THEN i = None ELSE i # None /\ store[i] # Nothing
          /\ job' = [job EXCEPT ![p] = [in |-> i, out |-> o]]
          /\ \/ NameTaken(o) /\ Return(p, "exists")
             \/ /\ ~NameTaken(o)
                /\ Goto(p, IF OpOf[p] = "encrypt" THEN "first" ELSE "header")

-----------------------------------------------------------------------------
(* Encryption.                                                             *)

\* read_chunk: fills the chunk, or stops at the end the file has now.
PieceAt(pos) ==
    [from |-> pos,
     len  |-> IF pos + Chunk <= length THEN Chunk
              ELSE IF pos < length THEN length - pos ELSE 0]

\* The chunk to be sealed next.
Current(p) == read[p][Len(read[p])]

\* What the loop reads before it seals that chunk: x4x reads in any case,
\* e-tools take a short chunk for the end of the input.
AheadInAnyCase(p) == TRUE                               \* mutant of ReadsAhead
ReadsAhead(p) == tool = "x4x" \/ Current(p).len = Chunk

Nonempty(p, next) == ReadsAhead(p) /\ next.len > 0

FrameOf(p, final) ==
    [len |-> Current(p).len, final |-> final,
     seal |-> [by |-> p, at |-> Len(temp[p]), final |-> final,
               piece |-> Current(p)]]

First(p) ==
    /\ pc[p] = "first" /\ Goto(p, "ahead")
    /\ read' = [read EXCEPT ![p] = <<PieceAt(0)>>]
    /\ UNCHANGED <<job, temp, header, got>> /\ World

\* One turn of the loop: read ahead, seal, write.
Ahead(p) ==
    LET next == PieceAt(Current(p).from + Current(p).len) IN
    /\ pc[p] = "ahead"
    /\ temp' = [temp EXCEPT ![p] = Append(@, FrameOf(p, ~Nonempty(p, next)))]
    /\ IF Nonempty(p, next)
       THEN read' = [read EXCEPT ![p] = Append(@, next)] /\ Goto(p, "ahead")
       ELSE read' = read /\ Goto(p, "commit")
    /\ UNCHANGED <<job, header, got>> /\ World

-----------------------------------------------------------------------------
(* Decryption.                                                             *)

\* Header::parse
Header(p) ==
    LET c == store[job[p].in] IN
    /\ pc[p] = "header" /\ World /\ UNCHANGED <<job, read, temp, got>>
    /\ \/ c.kind # "container" /\ Return(p, "rejected") /\ header' = header
       \/ /\ c.kind = "container" /\ Goto(p, "frame")
          /\ header' = [header EXCEPT ![p] = c.by]

\* FrameHeader::parse
WellFormed(f) == f.len <= Chunk /\ (f.final \/ f.len = Chunk)

\* Opening a frame, with header, frame number and frame header as AAD.
AuthenticAnywhere(f, p) ==                              \* mutant of Authentic
    f.seal.by = header[p] /\ f.final = f.seal.final /\ f.len = f.seal.piece.len
Authentic(f, p) ==
    /\ f.seal.by = header[p] /\ f.seal.at = Len(got[p])
    /\ f.final = f.seal.final /\ f.len = f.seal.piece.len

\* All frames before the last are of one size, so that the position of the
\* reader is a frame number.
NextFrame(p) ==
    LET frames == store[job[p].in].frames
        n == Len(got[p]) + 1 IN
    /\ pc[p] = "frame" /\ World /\ UNCHANGED <<job, read, temp, header>>
    /\ \/ n > Len(frames) /\ Return(p, "rejected") /\ got' = got
       \/ /\ n <= Len(frames) /\ ~(WellFormed(frames[n]) /\ Authentic(frames[n], p))
          /\ Return(p, "rejected") /\ got' = got
       \/ /\ n <= Len(frames) /\ WellFormed(frames[n]) /\ Authentic(frames[n], p)
          /\ got' = [got EXCEPT ![p] = Append(@, frames[n].seal.piece)]
          /\ Goto(p, IF frames[n].final THEN "eof" ELSE "frame")

\* ensure_eof
Eof(p) ==
    LET c == store[job[p].in] IN
    /\ pc[p] = "eof" /\ World /\ Work /\ UNCHANGED job
    /\ IF Len(c.frames) > Len(got[p]) \/ c.torn
       THEN Return(p, "rejected") ELSE Goto(p, "commit")

-----------------------------------------------------------------------------
(* Publication.                                                            *)

Output(p) == IF OpOf[p] = "encrypt" THEN Container(p, temp[p])
                                    ELSE Plaintext(header[p], got[p])

\* AtomicOutput::commit: synchronise, then persist_noclobber.
Commit(p) ==
    LET o == job[p].out IN
    /\ pc[p] = "commit" /\ Work /\ UNCHANGED <<tool, job, length, damaged, edited, events>>
    /\ IF NameTaken(o)
       THEN Return(p, "exists") /\ UNCHANGED store
       ELSE store' = [store EXCEPT ![o] = Output(p)] /\ Goto(p, "dirsync")

\* A directory that cannot be synchronised is an ordinary error.
DirSync(p) ==
    /\ pc[p] = "dirsync" /\ World /\ Work /\ UNCHANGED job
    /\ Return(p, "ok") \/ Return(p, "error")

-----------------------------------------------------------------------------
\* Any I/O error; the temporary file is dropped.
Fail(p) ==
    /\ pc[p] \notin {"idle", "dirsync", "done"} /\ Return(p, "error")
    /\ World /\ Work /\ UNCHANGED job

Kill(p) ==
    /\ pc[p] \notin {"idle", "done"} /\ Return(p, "killed")
    /\ World /\ Work /\ UNCHANGED job

Happens == events < MaxEvents /\ events' = events + 1

\* Another program changes the input.
Edit ==
    /\ Happens /\ edited' = TRUE
    /\ length' \in (0..MaxLen) \ {length}
    /\ UNCHANGED <<tool, store, pc, job, read, temp, header, got, result, damaged>>

IsContainer(o) == store[o].kind = "container"

\* Every whole frame in storage.
Pool == UNION {{store[o].frames[i] : i \in 1..Len(store[o].frames)} :
                  o \in {o \in Path : IsContainer(o)}}

\* Frames are lost, repeated, reordered or taken from other containers; a
\* frame header, the header or the end of the file changes.
Rearranged(c) ==
    UNION {{[c EXCEPT !.frames = f] : f \in [1..n -> Pool]} : n \in 0..MaxFrames}
Flipped(c) == {[c EXCEPT !.frames[i].final = ~@] : i \in 1..Len(c.frames)}
Resized(c) ==
    {[c EXCEPT !.frames[i].len = n] : i \in 1..Len(c.frames), n \in 0..Chunk + 1}
Reheaded(c) == {[c EXCEPT !.by = p] : p \in Proc \cup {None}}
Extended(c) == {[c EXCEPT !.torn = TRUE]}

Harm(c) ==
    Rearranged(c) \cup Flipped(c) \cup Resized(c) \cup Reheaded(c) \cup Extended(c)

Damage ==
    /\ Happens
    /\ \E o \in Path :
          /\ IsContainer(o) /\ damaged' = damaged \cup {o}
          /\ \E c \in Harm(store[o]) : store' = [store EXCEPT ![o] = c]
    /\ UNCHANGED <<tool, length, pc, job, read, temp, header, got, result, edited>>

\* Another program creates a file at a free name.
Intrude ==
    /\ Happens
    /\ \E o \in Path : ~NameTaken(o) /\ store' = [store EXCEPT ![o] = Foreign]
    /\ UNCHANGED <<tool, length, pc, job, read, temp, header, got, result, damaged,
                   edited>>

-----------------------------------------------------------------------------
Run(p) ==
    \/ Begin(p) \/ First(p) \/ Ahead(p) \/ Header(p) \/ NextFrame(p) \/ Eof(p)
    \/ Commit(p) \/ DirSync(p) \/ Fail(p) \/ Kill(p)

Next == (\E p \in Proc : Run(p)) \/ Edit \/ Damage \/ Intrude

Spec == Init /\ [][Next]_vars

-----------------------------------------------------------------------------
(* Properties                                                              *)

\* x5x README: x4x "only publishes decrypted output after the complete file
\* verifies".  Whatever happened to the container, before or while it was
\* read, a plaintext with a name is all that one encryption read, in order,
\* and that encryption had sealed its final frame.
OnlyWholePlaintext ==
    \A o \in Path :
        store[o].kind = "plaintext" =>
            LET e == store[o].by IN
            /\ store[o].pieces = read[e]
            /\ Len(temp[e]) = Len(read[e]) /\ temp[e][Len(temp[e])].final

\* What the writer publishes the reader opens: a decryption rejects its input
\* only if it is no container or was damaged, and with the e-tools' way of
\* reading ahead also when the plaintext changed its length meanwhile.
IntactOpens ==
    \A p \in Proc :
        result[p] = "rejected" =>
            \/ ~IsContainer(job[p].in) \/ job[p].in \in damaged
            \/ tool = "x4x" /\ edited

\* X4X_SECURITY.md: "Non-final frames must be exactly the declared chunk size."
NonFinalFramesAreFull ==
    \A o \in Path \ damaged :
        IsContainer(o) =>
            \A i \in 1..Len(store[o].frames) :
                store[o].frames[i].final \/ store[o].frames[i].len = Chunk
=============================================================================

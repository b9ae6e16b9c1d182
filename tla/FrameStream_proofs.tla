------------------------- MODULE FrameStream_proofs -------------------------
(* Proofs about FrameStream, for any chunk size, number of commands, names, *)
(* lengths and damages, and for both ways of reading ahead.                *)
EXTENDS FrameStream, TLAPS

-----------------------------------------------------------------------------
(* Types.                                                                  *)

LEMMA Basics ==
    /\ Chunk \in Nat \ {0} /\ MaxLen \in Nat /\ None \notin Proc /\ None \notin Path
    /\ Tools \subseteq {"x4x", "e-tool"}
    /\ MaxEvents \in Nat /\ OpOf \in [Proc -> {"encrypt", "decrypt"}]
BY StreamAssumption DEF Op

LEMMA PieceType ==
    ASSUME TypeOK, NEW pos \in Nat PROVE PieceAt(pos) \in Piece
BY Basics DEF TypeOK, PieceAt, Piece

\* The encryption loop keeps one chunk that is read and not yet sealed.
LoopAt(p) ==
    /\ pc[p] \in {"idle", "first"} => read[p] = <<>> /\ temp[p] = <<>>
    /\ pc[p] = "ahead" => Len(read[p]) = Len(temp[p]) + 1
    /\ pc[p] \in {"idle", "header"} => got[p] = <<>>
    /\ pc[p] \in {"header", "frame", "eof"} =>
          job[p].in \in Path /\ store[job[p].in] # Nothing
    /\ pc[p] \in {"frame", "eof"} => IsContainer(job[p].in)
    /\ pc[p] \notin {"idle", "done"} => job[p].out \in Path
    /\ pc[p] \in {"eof", "commit"} /\ OpOf[p] = "decrypt" => header[p] \in Proc
    /\ pc[p] \in {"first", "ahead"} => OpOf[p] = "encrypt"
    /\ pc[p] \in {"header", "frame", "eof"} => OpOf[p] = "decrypt"

Loop == \A p \in Proc : LoopAt(p)

TInv == TypeOK /\ Loop

LEMMA ContentFacts ==
    /\ Nothing \in Content /\ Foreign \in Content
    /\ Nothing.kind = "nothing" /\ Foreign.kind = "foreign" /\ Nothing # Foreign
    /\ \A p \in Proc, f \in Seq(Frame) :
          /\ Container(p, f) \in Content /\ Container(p, f) # Nothing
          /\ Container(p, f).kind = "container" /\ Container(p, f).by = p
          /\ Container(p, f).frames = f /\ Container(p, f).torn = FALSE
    /\ \A p \in Proc, q \in Seq(Piece) :
          /\ Plaintext(p, q) \in Content /\ Plaintext(p, q) # Nothing
          /\ Plaintext(p, q).kind = "plaintext" /\ Plaintext(p, q).by = p
          /\ Plaintext(p, q).pieces = q
    /\ \A c \in Content : c.kind = "container" =>
          /\ c.by \in Proc \cup {None} /\ c.frames \in Seq(Frame)
          /\ c.torn \in BOOLEAN /\ c # Nothing
    /\ \A c \in Content : c.kind = "plaintext" =>
          c.by \in Proc /\ c.pieces \in Seq(Piece) /\ c # Nothing
BY DEF Content, Nothing, Foreign, Container, Plaintext

LEMMA PoolType == TypeOK => Pool \subseteq Frame
<1> SUFFICES ASSUME TypeOK, NEW o \in Path, IsContainer(o),
                    NEW i \in 1..Len(store[o].frames)
             PROVE  store[o].frames[i] \in Frame
  BY DEF Pool
<1>1. store[o].frames \in Seq(Frame)
  BY ContentFacts DEF TypeOK, IsContainer
<1> QED
  BY <1>1

\* A damaged container is a container, and its seals are seals of the pool.
LEMMA HarmFacts ==
    ASSUME TypeOK, NEW o \in Path, IsContainer(o), NEW c \in Harm(store[o])
    PROVE  /\ c \in Content /\ c.kind = "container"
           /\ \A i \in 1..Len(c.frames) : \E f \in Pool : c.frames[i].seal = f.seal
<1> DEFINE b == store[o]
<1>1. /\ b \in [kind : {"container"}, by : Proc \cup {None}, frames : Seq(Frame),
                torn : BOOLEAN]
  BY DEF TypeOK, IsContainer, Content, Nothing, Foreign
<1>2. \A i \in 1..Len(b.frames) : b.frames[i] \in Pool
  BY DEF Pool
<1>3. Pool \subseteq Frame
  BY PoolType
<1>4. CASE \E n \in 0..MaxFrames : \E f \in [1..n -> Pool] : c = [b EXCEPT !.frames = f]
  <2>0. PICK n \in 0..MaxFrames : \E f \in [1..n -> Pool] : c = [b EXCEPT !.frames = f]
    BY <1>4
  <2>1. PICK f \in [1..n -> Pool] : c = [b EXCEPT !.frames = f]
    BY <2>0
  <2>2. n \in Nat
    BY StreamAssumption
  <2>3. f \in Seq(Frame) /\ Len(f) = n
    BY <1>3, <2>2
  <2> QED
    BY <1>1, <2>1, <2>2, <2>3 DEF Content
<1>5. CASE \E i \in 1..Len(b.frames) : c = [b EXCEPT !.frames[i].final = ~@]
  <2>1. PICK i \in 1..Len(b.frames) : c = [b EXCEPT !.frames[i].final = ~@]
    BY <1>5
  <2> DEFINE x == b.frames[i]
  <2> DEFINE g == [x EXCEPT !.final = ~@]
  <2>0. x \in [len : 0..Chunk + 1, final : BOOLEAN, seal : Seal]
    <3>1. x \in Frame
      BY <1>1
    <3> QED
      BY <3>1 DEF Frame
  <2>2. c = [b EXCEPT !.frames = [b.frames EXCEPT ![i] = g]]
    BY <1>1, <2>1
  <2>3. g \in Frame /\ g.seal = b.frames[i].seal
    BY <2>0 DEF Frame
  <2>6. [b.frames EXCEPT ![i] = g] \in Seq(Frame)
    BY <1>1, <2>3
  <2>4. c \in Content /\ c.kind = "container"
    BY <1>1, <2>2, <2>6 DEF Content
  <2>5. \A j \in 1..Len(c.frames) :
           /\ j \in 1..Len(b.frames)
           /\ c.frames[j] = IF j = i THEN g ELSE b.frames[j]
    BY <1>1, <2>2
  <2> QED
    BY <1>2, <2>3, <2>4, <2>5
<1>6. CASE \E i \in 1..Len(b.frames), n \in 0..Chunk + 1 :
              c = [b EXCEPT !.frames[i].len = n]
  <2>1. PICK i \in 1..Len(b.frames), n \in 0..Chunk + 1 :
              c = [b EXCEPT !.frames[i].len = n]
    BY <1>6
  <2> DEFINE x == b.frames[i]
  <2> DEFINE g == [x EXCEPT !.len = n]
  <2>0. x \in [len : 0..Chunk + 1, final : BOOLEAN, seal : Seal]
    <3>1. x \in Frame
      BY <1>1
    <3> QED
      BY <3>1 DEF Frame
  <2>2. c = [b EXCEPT !.frames = [b.frames EXCEPT ![i] = g]]
    BY <1>1, <2>1
  <2>3. g \in Frame /\ g.seal = b.frames[i].seal
    BY <2>0 DEF Frame
  <2>6. [b.frames EXCEPT ![i] = g] \in Seq(Frame)
    BY <1>1, <2>3
  <2>4. c \in Content /\ c.kind = "container"
    BY <1>1, <2>2, <2>6 DEF Content
  <2>5. \A j \in 1..Len(c.frames) :
           /\ j \in 1..Len(b.frames)
           /\ c.frames[j] = IF j = i THEN g ELSE b.frames[j]
    BY <1>1, <2>2
  <2> QED
    BY <1>2, <2>3, <2>4, <2>5
<1>7. CASE \/ \E p \in Proc \cup {None} : c = [b EXCEPT !.by = p]
           \/ c = [b EXCEPT !.torn = TRUE]
  BY <1>1, <1>2, <1>7 DEF Content
<1>8. \/ \E n \in 0..MaxFrames : \E f \in [1..n -> Pool] : c = [b EXCEPT !.frames = f]
      \/ \E i \in 1..Len(b.frames) : c = [b EXCEPT !.frames[i].final = ~@]
      \/ \E i \in 1..Len(b.frames), n \in 0..Chunk + 1 :
              c = [b EXCEPT !.frames[i].len = n]
      \/ \E p \in Proc \cup {None} : c = [b EXCEPT !.by = p]
      \/ c = [b EXCEPT !.torn = TRUE]
  <2>1. \/ c \in Rearranged(b) \/ c \in Flipped(b) \/ c \in Resized(b)
        \/ c \in Reheaded(b) \/ c \in Extended(b)
    BY Zenon DEF Harm
  <2>2. c \in Rearranged(b) => \E n \in 0..MaxFrames : \E f \in [1..n -> Pool] :
                      c = [b EXCEPT !.frames = f]
    BY DEF Rearranged
  <2>3. c \in Flipped(b) =>
          \E i \in 1..Len(b.frames) : c = [b EXCEPT !.frames[i].final = ~@]
    BY DEF Flipped
  <2>4. c \in Resized(b) => \E i \in 1..Len(b.frames), n \in 0..Chunk + 1 :
                      c = [b EXCEPT !.frames[i].len = n]
    BY DEF Resized
  <2>5. c \in Reheaded(b) => \E p \in Proc \cup {None} : c = [b EXCEPT !.by = p]
    BY DEF Reheaded
  <2>6. c \in Extended(b) => c = [b EXCEPT !.torn = TRUE]
    BY Zenon DEF Extended
  <2> QED
    BY <2>1, <2>2, <2>3, <2>4, <2>5, <2>6
<1> QED
  BY <1>4, <1>5, <1>6, <1>7, <1>8

\* No step frees a name, and a container stays one.
Kept ==
    \A o \in Path : /\ store[o] # Nothing => store'[o] # Nothing
                    /\ IsContainer(o) => IsContainer(o)'

LEMMA InitType == Init => TInv
<1> SUFFICES ASSUME Init PROVE TInv
  OBVIOUS
<1>1. TypeOK
  <2>1. store \in [Path -> Content]
    BY ContentFacts DEF Init
  <2>2. /\ read \in [Proc -> Seq(Piece)] /\ temp \in [Proc -> Seq(Frame)]
        /\ got \in [Proc -> Seq(Piece)]
    BY DEF Init
  <2>3. job \in [Proc -> [in : Path \cup {None}, out : Path \cup {None}]]
    BY DEF Init
  <2>4. events \in 0..MaxEvents /\ edited \in BOOLEAN /\ damaged \subseteq Path
    <3>1. events = 0 /\ edited = FALSE /\ damaged = {}
      BY DEF Init
    <3>2. 0 \in 0..MaxEvents
      BY Basics
    <3> QED
      BY <3>1, <3>2
  <2>5. pc \in [Proc -> Step] /\ result \in [Proc -> Result]
    BY DEF Init, Step, Result
  <2>6. header \in [Proc -> Proc \cup {None}]
    BY DEF Init
  <2> QED
    BY <2>1, <2>2, <2>3, <2>4, <2>5, <2>6 DEF Init, TypeOK
<1>2. Loop
  BY DEF Init, Loop, LoopAt
<1> QED
  BY <1>1, <1>2 DEF TInv

LEMMA OthersLoop ==
    ASSUME TInv, Kept, NEW p \in Proc, LoopAt(p)',
           \A q \in Proc \ {p} :
              /\ pc'[q] = pc[q] /\ job'[q] = job[q] /\ read'[q] = read[q]
              /\ temp'[q] = temp[q] /\ header'[q] = header[q] /\ got'[q] = got[q]
    PROVE  Loop'
<1> SUFFICES ASSUME NEW q \in Proc, q # p PROVE LoopAt(q)'
  BY DEF Loop
<1>1. LoopAt(q)
  BY DEF TInv, Loop
<1> QED
  BY <1>1 DEF LoopAt, Kept, IsContainer

LEMMA SameStore == store' = store => Kept
BY DEF Kept, IsContainer

LEMMA TypeStep == TInv /\ [Next]_vars => TInv' /\ Kept
<1> SUFFICES ASSUME TInv, [Next]_vars PROVE TInv' /\ Kept
  OBVIOUS
<1> USE DEF TInv
<1>1. CASE UNCHANGED vars
  BY <1>1, SameStore DEF vars, TypeOK, Loop, LoopAt, IsContainer
<1>2. ASSUME NEW p \in Proc, Begin(p) PROVE TInv' /\ Kept
  <2>5. PICK i \in Path \cup {None}, o \in Path :
          /\ IF OpOf[p] = "encrypt" THEN i = None ELSE i # None /\ store[i] # Nothing
          /\ job' = [job EXCEPT ![p] = [in |-> i, out |-> o]]
          /\ \/ Return(p, "exists")
             \/ Goto(p, IF OpOf[p] = "encrypt" THEN "first" ELSE "header")
    BY <1>2 DEF Begin
  <2>6. pc[p] = "idle" /\ World /\ Work
    BY <1>2 DEF Begin
  <2>1. TypeOK'
    <3>1. job' \in [Proc -> [in : Path \cup {None}, out : Path \cup {None}]]
      BY <2>5 DEF TypeOK
    <3> QED
      BY <2>5, <2>6, <3>1 DEF World, Work, TypeOK, Return, Goto, Step, Result
  <2>2. Kept
    BY <1>2, SameStore DEF Begin, World
  <2>3. LoopAt(p)
    BY DEF Loop
  <2>4. LoopAt(p)'
    <3>1. job'[p].in = i /\ job'[p].out = o
      BY <2>5 DEF TypeOK
    <3> QED
      BY <2>3, <2>5, <2>6, <3>1, Basics DEF World, Work, LoopAt, TypeOK, Return, Goto
  <2> QED
    BY <2>1, <2>2, <2>4, <2>5, <2>6, OthersLoop
       DEF World, Work, Return, Goto, TypeOK
<1>3. ASSUME NEW p \in Proc, First(p) PROVE TInv' /\ Kept
  <2>1. PieceAt(0) \in Piece
    BY PieceType
  <2>2. TypeOK'
    BY <1>3, <2>1 DEF First, World, TypeOK, Goto, Step
  <2>3. Kept
    BY <1>3, SameStore DEF First, World
  <2>4. LoopAt(p)
    BY DEF Loop
  <2>5. LoopAt(p)'
    BY <1>3, <2>4 DEF First, World, LoopAt, TypeOK, Goto
  <2> QED
    BY <1>3, <2>2, <2>3, <2>5, OthersLoop DEF First, World, Goto, TypeOK
<1>4. ASSUME NEW p \in Proc, Ahead(p) PROVE TInv' /\ Kept
  <2>1. LoopAt(p)
    BY DEF Loop
  <2>2. /\ Len(read[p]) = Len(temp[p]) + 1
        /\ read[p] \in Seq(Piece) /\ temp[p] \in Seq(Frame) /\ Current(p) \in Piece
    BY <1>4, <2>1 DEF Ahead, LoopAt, TypeOK, Current
  <2>3. /\ Current(p).from \in Nat /\ Current(p).len \in 0..Chunk
        /\ Current(p).len \in Nat
    BY <2>2, Basics DEF Piece
  <2> DEFINE next == PieceAt(Current(p).from + Current(p).len)
  <2>4. next \in Piece
    BY <2>3, PieceType
  <2>5. \A fin \in BOOLEAN : FrameOf(p, fin) \in Frame
    BY <2>2, <2>3, Basics DEF FrameOf, Frame, Seal
  <2>6. Nonempty(p, next) \in BOOLEAN
    BY DEF Nonempty, ReadsAhead
  <2> HIDE DEF next
  <2>7. /\ temp' = [temp EXCEPT ![p] = Append(@, FrameOf(p, ~Nonempty(p, next)))]
        /\ IF Nonempty(p, next)
           THEN read' = [read EXCEPT ![p] = Append(@, next)] /\ Goto(p, "ahead")
           ELSE read' = read /\ Goto(p, "commit")
        /\ UNCHANGED <<job, header, got>> /\ World
        /\ pc[p] = "ahead"
    BY <1>4 DEF Ahead, next
  <2>8. FrameOf(p, ~Nonempty(p, next)) \in Frame
    BY <2>5, <2>6
  <2> DEFINE fr == FrameOf(p, ~Nonempty(p, next))
  <2>9. /\ temp' \in [Proc -> Seq(Frame)] /\ read' \in [Proc -> Seq(Piece)]
        /\ Len(temp'[p]) = Len(temp[p]) + 1
    <3> HIDE DEF fr
    <3>1. temp' = [temp EXCEPT ![p] = Append(temp[p], fr)] /\ fr \in Frame
      BY <2>7, <2>8 DEF fr
    <3>2. Append(temp[p], fr) \in Seq(Frame) /\ Len(Append(temp[p], fr)) = Len(temp[p]) + 1
      BY <2>2, <3>1
    <3>3. Append(read[p], next) \in Seq(Piece)
      BY <2>2, <2>4
    <3>4. read' = read \/ read' = [read EXCEPT ![p] = Append(read[p], next)]
      BY <2>7
    <3> QED
      BY <3>1, <3>2, <3>3, <3>4 DEF TypeOK
  <2>10. TypeOK'
    BY <2>7, <2>9 DEF World, TypeOK, Goto, Step
  <2>11. Kept
    BY <2>7, SameStore DEF World
  <2>12. LoopAt(p)'
    <3>1. Nonempty(p, next) => Len(read'[p]) = Len(temp'[p]) + 1
      BY <2>2, <2>4, <2>7, <2>9 DEF TypeOK
    <3> QED
      BY <2>1, <2>7, <3>1 DEF World, LoopAt, TypeOK, Goto
  <2> QED
    BY <2>7, <2>10, <2>11, <2>12, OthersLoop DEF World, Goto, TypeOK
<1>5. ASSUME NEW p \in Proc, Header(p) PROVE TInv' /\ Kept
  <2>1. LoopAt(p)
    BY DEF Loop
  <2>2. /\ job[p].in \in Path /\ store[job[p].in] \in Content
    BY <1>5, <2>1 DEF Header, LoopAt, TypeOK
  <2>3. TypeOK'
    <3>1. /\ World /\ UNCHANGED <<job, read, temp, got>>
          /\ \/ Return(p, "rejected") /\ header' = header
             \/ /\ store[job[p].in].kind = "container" /\ Goto(p, "frame")
                /\ header' = [header EXCEPT ![p] = store[job[p].in].by]
      BY <1>5 DEF Header
    <3>2. store[job[p].in].kind = "container" => store[job[p].in].by \in Proc \cup {None}
      BY <2>2, ContentFacts
    <3>3. header' \in [Proc -> Proc \cup {None}]
      BY <3>1, <3>2 DEF TypeOK
    <3> QED
      BY <3>1, <3>3 DEF World, TypeOK, Goto, Return, Step, Result
  <2>4. Kept
    BY <1>5, SameStore DEF Header, World
  <2>5. LoopAt(p)'
    BY <1>5, <2>1, <2>2
       DEF Header, World, LoopAt, TypeOK, Goto, Return, IsContainer
  <2> QED
    BY <1>5, <2>3, <2>4, <2>5, OthersLoop DEF Header, World, Goto, Return, TypeOK
<1>6. ASSUME NEW p \in Proc, NextFrame(p) PROVE TInv' /\ Kept
  <2>1. LoopAt(p)
    BY DEF Loop
  <2> DEFINE frames == store[job[p].in].frames
             n == Len(got[p]) + 1
  <2>2. /\ job[p].in \in Path /\ IsContainer(job[p].in) /\ pc[p] = "frame"
        /\ got[p] \in Seq(Piece) /\ OpOf[p] = "decrypt"
    BY <1>6, <2>1 DEF NextFrame, LoopAt, TypeOK
  <2>3. frames \in Seq(Frame)
    BY <2>2, ContentFacts DEF TypeOK, IsContainer
  <2>4. /\ World /\ UNCHANGED <<job, read, temp, header>>
        /\ \/ Return(p, "rejected") /\ got' = got
           \/ /\ n <= Len(frames) /\ Authentic(frames[n], p)
              /\ got' = [got EXCEPT ![p] = Append(@, frames[n].seal.piece)]
              /\ Goto(p, IF frames[n].final THEN "eof" ELSE "frame")
    BY <1>6 DEF NextFrame
  <2>5. CASE Return(p, "rejected") /\ got' = got
    <3>1. TypeOK'
      BY <2>4, <2>5 DEF World, TypeOK, Return, Step, Result
    <3>2. LoopAt(p)'
      BY <2>1, <2>2, <2>4, <2>5 DEF World, LoopAt, TypeOK, Return, IsContainer
    <3> QED
      BY <2>4, <2>5, <3>1, <3>2, OthersLoop, SameStore DEF World, Return, TypeOK
  <2>6. CASE /\ n <= Len(frames) /\ Authentic(frames[n], p)
             /\ got' = [got EXCEPT ![p] = Append(@, frames[n].seal.piece)]
             /\ Goto(p, IF frames[n].final THEN "eof" ELSE "frame")
    <3>1. frames[n] \in Frame
      <4>1. Len(got[p]) \in Nat
        BY <2>2
      <4>2. n \in 1..Len(frames)
        BY <2>3, <2>6, <4>1
      <4> HIDE DEF frames, n
      <4> QED
        BY <2>3, <4>2
    <3>2. frames[n].seal.piece \in Piece /\ frames[n].seal.by \in Proc
      BY <3>1 DEF Frame, Seal
    <3>3. header[p] \in Proc
      BY <2>6, <3>2 DEF Authentic
    <3>4. got' \in [Proc -> Seq(Piece)]
      <4> DEFINE piece == frames[n].seal.piece
      <4>1. got' = [got EXCEPT ![p] = Append(got[p], piece)]
        BY <2>6
      <4>2. piece \in Piece
        BY <3>2
      <4> HIDE DEF piece
      <4>3. Append(got[p], piece) \in Seq(Piece)
        BY <2>2, <4>2
      <4> QED
        BY <4>1, <4>3 DEF TypeOK
    <3>5. TypeOK'
      BY <2>4, <2>6, <3>4 DEF World, TypeOK, Goto, Step
    <3>6. LoopAt(p)'
      BY <2>1, <2>2, <2>4, <2>6, <3>3 DEF World, LoopAt, TypeOK, Goto, IsContainer
    <3> QED
      BY <2>4, <2>6, <3>5, <3>6, OthersLoop, SameStore DEF World, Goto, TypeOK
  <2> QED
    BY <2>4, <2>5, <2>6
<1>7. ASSUME NEW p \in Proc, Eof(p) PROVE TInv' /\ Kept
  <2>1. LoopAt(p)
    BY DEF Loop
  <2>2. TypeOK'
    BY <1>7 DEF Eof, World, Work, TypeOK, Goto, Return, Step, Result
  <2>3. LoopAt(p)'
    BY <1>7, <2>1 DEF Eof, World, Work, TypeOK, Goto, Return, LoopAt, IsContainer
  <2> QED
    BY <1>7, <2>2, <2>3, OthersLoop, SameStore
       DEF Eof, World, Work, TypeOK, Goto, Return
<1>8. ASSUME NEW p \in Proc, Commit(p) PROVE TInv' /\ Kept
  <2>1. LoopAt(p) /\ pc[p] = "commit"
    BY <1>8 DEF Loop, Commit
  <2>2. job[p].out \in Path
    BY <2>1 DEF LoopAt
  <2>3. Output(p) \in Content /\ Output(p) # Nothing
    BY <2>1, Basics, ContentFacts DEF TypeOK, LoopAt, Output
  <2>4. Kept
    <3>1. CASE NameTaken(job[p].out)
      BY <1>8, <3>1, SameStore DEF Commit
    <3>2. CASE ~NameTaken(job[p].out)
      <4>1. store' = [store EXCEPT ![job[p].out] = Output(p)]
        BY <1>8, <3>2 DEF Commit
      <4>2. store[job[p].out].kind # "container"
        BY <3>2, ContentFacts DEF NameTaken
      <4> QED
        BY <2>3, <4>1, <4>2 DEF Kept, TypeOK, IsContainer
    <3> QED
      BY <3>1, <3>2
  <2>5. TypeOK'
    BY <1>8, <2>2, <2>3 DEF Commit, Work, TypeOK, Goto, Return, Step, Result
  <2>6. LoopAt(p)'
    BY <1>8, <2>1 DEF Commit, Work, TypeOK, Goto, Return, LoopAt, IsContainer
  <2> QED
    BY <1>8, <2>4, <2>5, <2>6, OthersLoop DEF Commit, Work, TypeOK, Goto, Return
<1>9. ASSUME NEW p \in Proc, DirSync(p) \/ Fail(p) \/ Kill(p) PROVE TInv' /\ Kept
  <2>1. /\ World /\ Work /\ UNCHANGED job /\ pc[p] # "idle"
        /\ \E r \in Result : Return(p, r)
    BY <1>9 DEF DirSync, Fail, Kill, Result
  <2>2. LoopAt(p)
    BY DEF Loop
  <2>3. TypeOK'
    BY <2>1 DEF World, Work, TypeOK, Return, Step
  <2>4. LoopAt(p)'
    BY <2>1, <2>2 DEF World, Work, TypeOK, Return, LoopAt
  <2> QED
    BY <2>1, <2>3, <2>4, OthersLoop, SameStore DEF World, Work, TypeOK, Return
<1>10. CASE Edit
  BY <1>10, Basics, SameStore DEF Edit, Happens, TypeOK, Loop, LoopAt, IsContainer
<1>11. CASE Damage
  <2>1. PICK o \in Path :
          /\ IsContainer(o) /\ damaged' = damaged \cup {o}
          /\ \E c \in Harm(store[o]) : store' = [store EXCEPT ![o] = c]
    BY <1>11 DEF Damage
  <2>2. PICK c \in Harm(store[o]) : store' = [store EXCEPT ![o] = c]
    BY <2>1
  <2>3. c \in Content /\ c.kind = "container"
    BY <2>1, HarmFacts
  <2>4. /\ events' \in 0..MaxEvents
        /\ UNCHANGED <<tool, length, pc, job, read, temp, header, got, result, edited>>
    BY <1>11, Basics DEF Damage, Happens, TypeOK
  <2>5. TypeOK'
    BY <2>1, <2>2, <2>3, <2>4 DEF TypeOK
  <2>6. Kept
    BY <2>2, <2>3, ContentFacts DEF Kept, IsContainer, TypeOK
  <2> QED
    BY <2>4, <2>5, <2>6 DEF Loop, LoopAt, Kept
<1>12. CASE Intrude
  <2>1. PICK o \in Path : ~NameTaken(o) /\ store' = [store EXCEPT ![o] = Foreign]
    BY <1>12 DEF Intrude
  <2>2. /\ events' \in 0..MaxEvents
        /\ UNCHANGED <<tool, length, pc, job, read, temp, header, got, result,
                       damaged, edited>>
    BY <1>12, Basics DEF Intrude, Happens, TypeOK
  <2>3. TypeOK'
    BY <2>1, <2>2, ContentFacts DEF TypeOK
  <2>4. Kept
    BY <2>1, ContentFacts DEF Kept, IsContainer, TypeOK, NameTaken
  <2> QED
    BY <2>2, <2>3, <2>4 DEF Loop, LoopAt, Kept
<1> QED
  BY <1>1, <1>2, <1>3, <1>4, <1>5, <1>6, <1>7, <1>8, <1>9, <1>10, <1>11, <1>12
     DEF Next, Run

\* Every variable keeps its type, however the containers are damaged.
THEOREM TypeCorrect == Spec => []TypeOK
BY InitType, TypeStep, PTL DEF Spec, TInv
-----------------------------------------------------------------------------
(* What is sealed, what is stored and what a decryption has collected.     *)

\* Frame j of an encryption is sealed as frame j of the chunk it read j-th,
\* and nothing is read or sealed after the final one.
SealedAt(e) ==
    /\ Len(temp[e]) <= Len(read[e])
    /\ \A j \in 1..Len(temp[e]) :
          /\ temp[e][j].seal = [by |-> e, at |-> j - 1, final |-> temp[e][j].final,
                                piece |-> read[e][j]]
          /\ temp[e][j].final =>
                j = Len(read[e]) /\ pc[e] \notin {"idle", "first", "ahead"}

Sealed == \A e \in Proc : SealedAt(e)

\* A seal some encryption has made.
Genuine(s) ==
    /\ s.by \in Proc /\ s.at \in Nat
    /\ s.at + 1 \in 1..Len(temp[s.by])
    /\ temp[s.by][s.at + 1].seal = s

Stored ==
    \A o \in Path : IsContainer(o) =>
        \A i \in 1..Len(store[o].frames) : Genuine(store[o].frames[i].seal)

\* The pieces are the first of those an encryption read and sealed.
Begins(pieces, e) ==
    \A j \in 1..Len(pieces) : j \in 1..Len(temp[e]) /\ pieces[j] = read[e][j]

\* ... and the last of them was its last.
IsAll(pieces, e) ==
    /\ e \in Proc /\ pieces \in Seq(Piece) /\ pieces # <<>>
    /\ Begins(pieces, e) /\ temp[e][Len(pieces)].final

FollowsAt(p) ==
    /\ OpOf[p] = "decrypt" /\ got[p] # <<>> =>
          header[p] \in Proc /\ Begins(got[p], header[p])
    /\ OpOf[p] = "decrypt" /\ pc[p] \in {"eof", "commit"} => IsAll(got[p], header[p])

Follows == \A p \in Proc : FollowsAt(p)

Published ==
    \A o \in Path : store[o].kind = "plaintext" =>
        IsAll(store[o].pieces, store[o].by)

SInv == TInv /\ Sealed /\ Stored /\ Follows /\ Published

\* What was sealed stays sealed.
Lasting ==
    \A e \in Proc : \A j \in 1..Len(temp[e]) :
        j \in 1..Len(temp'[e]) /\ temp'[e][j] = temp[e][j] /\ read'[e][j] = read[e][j]

LEMMA InitSealed == Init => Sealed /\ Stored /\ Follows /\ Published
BY DEF Init, Sealed, SealedAt, Stored, Follows, FollowsAt, Published, IsAll,
       IsContainer, Nothing

LEMMA SealStep == TInv /\ Sealed /\ [Next]_vars => Sealed' /\ Lasting
<1> SUFFICES ASSUME TInv, Sealed, [Next]_vars PROVE Sealed' /\ Lasting
  OBVIOUS
<1>1. CASE /\ UNCHANGED <<read, temp>>
           /\ \A e \in Proc : pc'[e] \in {"idle", "first", "ahead"} =>
                              pc[e] \in {"idle", "first", "ahead"}
  <2>1. Sealed'
    BY <1>1 DEF Sealed, SealedAt
  <2> QED
    BY <1>1, <2>1 DEF Lasting
<1>2. ASSUME NEW p \in Proc, First(p) PROVE Sealed' /\ Lasting
  <2>1. temp[p] = <<>> /\ temp' = temp /\ pc' = [pc EXCEPT ![p] = "ahead"]
    BY <1>2 DEF First, TInv, Loop, LoopAt, Goto
  <2>2. \A e \in Proc \ {p} : read'[e] = read[e] /\ pc'[e] = pc[e]
    BY <1>2 DEF First, TInv, TypeOK, Goto
  <2>3. /\ Len(temp[p]) = 0
        /\ Len(read'[p]) = 1
    BY <1>2, <2>1 DEF First, TInv, TypeOK
  <2>4. SealedAt(p)'
    BY <2>1, <2>3 DEF SealedAt
  <2>5. \A e \in Proc \ {p} : SealedAt(e)'
    BY <2>1, <2>2 DEF Sealed, SealedAt
  <2> QED
    BY <2>1, <2>2, <2>3, <2>4, <2>5 DEF Sealed, Lasting
<1>3. ASSUME NEW p \in Proc, Ahead(p) PROVE Sealed' /\ Lasting
  <2>1. /\ pc[p] = "ahead" /\ Len(read[p]) = Len(temp[p]) + 1
        /\ read[p] \in Seq(Piece) /\ temp[p] \in Seq(Frame)
    BY <1>3 DEF Ahead, TInv, Loop, LoopAt, TypeOK
  <2>0. PieceAt(Current(p).from + Current(p).len) \in Piece
    <3>1. Current(p) \in Piece
      BY <2>1 DEF Current
    <3>2. Current(p).from + Current(p).len \in Nat
      BY <3>1, Basics DEF Piece
    <3> QED
      BY <3>2, PieceType DEF TInv
  <2>2. PICK more \in BOOLEAN, next \in Piece :
           /\ temp' = [temp EXCEPT ![p] = Append(@, FrameOf(p, ~more))]
           /\ IF more
              THEN read' = [read EXCEPT ![p] = Append(@, next)] /\ Goto(p, "ahead")
              ELSE read' = read /\ Goto(p, "commit")
    BY <1>3, <2>0 DEF Ahead, Nonempty, ReadsAhead
  <2> DEFINE f == FrameOf(p, ~more)
             n == Len(temp[p])
  <2>3. /\ f.seal = [by |-> p, at |-> n, final |-> ~more, piece |-> read[p][n + 1]]
        /\ f.final = ~more
    BY <2>1 DEF FrameOf, Current
  <2> HIDE DEF f
  <2>4. temp'[p] = Append(temp[p], f) /\ n \in Nat
    BY <2>1, <2>2 DEF TInv, TypeOK, f
  <2>5. /\ Len(temp'[p]) = n + 1 /\ temp'[p][n + 1] = f
        /\ \A j \in 1..n : temp'[p][j] = temp[p][j]
    BY <2>1, <2>4
  <2>6. /\ \A j \in 1..n + 1 : read'[p][j] = read[p][j]
        /\ Len(read'[p]) = IF more THEN n + 2 ELSE n + 1
    <3>1. CASE more
      <4>1. read'[p] = Append(read[p], next)
        BY <2>2, <3>1 DEF TInv, TypeOK
      <4> QED
        BY <2>1, <3>1, <4>1
    <3>2. CASE ~more
      BY <2>1, <2>2, <3>2
    <3> QED
      BY <3>1, <3>2
  <2>7. \A e \in Proc \ {p} : read'[e] = read[e] /\ pc'[e] = pc[e] /\ temp'[e] = temp[e]
    BY <2>2 DEF TInv, TypeOK, Goto
  <2>8. more \/ pc'[p] = "commit"
    BY <2>2 DEF TInv, TypeOK, Goto
  <2>9. SealedAt(p)
    BY DEF Sealed
  <2>10. \A j \in 1..n : ~temp[p][j].final
    BY <2>1, <2>9 DEF SealedAt
  <2>11. SealedAt(p)'
    <3>1. Len(temp'[p]) <= Len(read'[p])
      BY <2>4, <2>5, <2>6
    <3>2. ASSUME NEW j \in 1..Len(temp'[p])
          PROVE  /\ temp'[p][j].seal = [by |-> p, at |-> j - 1,
                          final |-> temp'[p][j].final, piece |-> read'[p][j]]
                 /\ temp'[p][j].final =>
                      j = Len(read'[p]) /\ pc'[p] \notin {"idle", "first", "ahead"}
      <4>1. CASE j = n + 1
        <5>1. temp'[p][j] = f /\ read'[p][j] = read[p][n + 1] /\ j - 1 = n
          BY <2>4, <2>5, <2>6, <4>1
        <5>2. temp'[p][j].seal = [by |-> p, at |-> j - 1,
                  final |-> temp'[p][j].final, piece |-> read'[p][j]]
          BY <2>3, <5>1
        <5>3. f.final => j = Len(read'[p]) /\ pc'[p] = "commit"
          BY <2>2, <2>3, <2>6, <2>8, <4>1
        <5> QED
          BY <5>1, <5>2, <5>3
      <4>2. CASE j \in 1..n
        BY <2>5, <2>6, <2>9, <2>10, <4>2 DEF SealedAt
      <4> QED
        BY <2>4, <2>5, <4>1, <4>2
    <3> QED
      BY <3>1, <3>2 DEF SealedAt
  <2>12. \A e \in Proc \ {p} : SealedAt(e)'
    BY <2>7 DEF Sealed, SealedAt
  <2>13. Lasting
    BY <2>4, <2>5, <2>6, <2>7 DEF Lasting
  <2> QED
    BY <2>11, <2>12, <2>13 DEF Sealed
<1>4. ASSUME NEW p \in Proc,
             \/ Begin(p) \/ Header(p) \/ NextFrame(p) \/ Eof(p) \/ Commit(p)
             \/ DirSync(p) \/ Fail(p) \/ Kill(p)
      PROVE  Sealed' /\ Lasting
  <2>1. UNCHANGED <<read, temp>>
    BY <1>4 DEF Begin, Header, NextFrame, Eof, Commit, DirSync, Fail, Kill, Work
  <2>2. \A e \in Proc \ {p} : pc'[e] = pc[e]
    BY <1>4 DEF Begin, Header, NextFrame, Eof, Commit, DirSync, Fail, Kill,
                Return, Goto, TInv, TypeOK
  <2>3. pc'[p] \in {"idle", "first", "ahead"} => pc[p] \in {"idle", "first", "ahead"}
    BY <1>4 DEF Begin, Header, NextFrame, Eof, Commit, DirSync, Fail, Kill,
                Return, Goto, TInv, TypeOK
  <2> QED
    BY <1>1, <2>1, <2>2, <2>3
<1>5. CASE UNCHANGED vars \/ Edit \/ Damage \/ Intrude
  BY <1>1, <1>5 DEF vars, Edit, Damage, Intrude
<1> QED
  BY <1>2, <1>3, <1>4, <1>5 DEF Next, Run

LEMMA StaysGenuine ==
    ASSUME Lasting, NEW s, Genuine(s) PROVE Genuine(s)'
BY DEF Lasting, Genuine

LEMMA StaysAll ==
    ASSUME Lasting, NEW pieces \in Seq(Piece), NEW e \in Proc
    PROVE  /\ Begins(pieces, e) => Begins(pieces, e)'
           /\ IsAll(pieces, e) => IsAll(pieces, e)'
<1>1. pieces # <<>> => Len(pieces) \in 1..Len(pieces)
  OBVIOUS
<1> QED
  BY <1>1 DEF Lasting, Begins, IsAll

\* The frames in storage are genuine, wherever a damage puts them.
LEMMA StoredStep ==
    TInv /\ Sealed /\ Stored /\ [Next]_vars /\ Lasting => Stored'
<1> SUFFICES ASSUME TInv, Sealed, Stored, [Next]_vars, Lasting PROVE Stored'
  OBVIOUS
<1>1. CASE store' = store
  BY <1>1, StaysGenuine DEF Stored, IsContainer
<1>2. ASSUME NEW p \in Proc, Commit(p), store' # store PROVE Stored'
  <2> DEFINE o == job[p].out
  <2>1. /\ o \in Path /\ store' = [store EXCEPT ![o] = Output(p)]
        /\ temp' = temp /\ pc[p] = "commit"
    BY <1>2 DEF Commit, Work, TInv, Loop, LoopAt
  <2>2. CASE OpOf[p] = "encrypt"
    <3>1. /\ Output(p).kind = "container" /\ Output(p).frames = temp[p]
          /\ temp[p] \in Seq(Frame)
      BY <2>2, ContentFacts DEF Output, TInv, TypeOK
    <3>2. \A j \in 1..Len(temp[p]) : Genuine(temp[p][j].seal)
      <4> TAKE j \in 1..Len(temp[p])
      <4>1. j \in Nat /\ j - 1 \in Nat /\ (j - 1) + 1 = j
        BY <3>1
      <4>2. temp[p][j].seal.by = p /\ temp[p][j].seal.at = j - 1
        <5>1. temp[p][j].seal = [by |-> p, at |-> j - 1,
                  final |-> temp[p][j].final, piece |-> read[p][j]]
          BY DEF Sealed, SealedAt
        <5> QED
          BY <5>1
      <4> QED
        BY <4>1, <4>2 DEF Genuine
    <3>3. \A q \in Path : store'[q] = IF q = o THEN Output(p) ELSE store[q]
      BY <2>1 DEF TInv, TypeOK
    <3> QED
      BY <3>1, <3>2, <3>3, StaysGenuine DEF Stored, IsContainer
  <2>3. CASE OpOf[p] # "encrypt"
    <3>1. Output(p).kind # "container"
      BY <2>1, <2>3, Basics, ContentFacts DEF Output, TInv, Loop, LoopAt, TypeOK
    <3>2. \A q \in Path : store'[q] = IF q = o THEN Output(p) ELSE store[q]
      BY <2>1 DEF TInv, TypeOK
    <3> QED
      BY <3>1, <3>2, StaysGenuine DEF Stored, IsContainer
  <2> QED
    BY <2>2, <2>3
<1>3. CASE Damage
  <2>1. PICK o \in Path : IsContainer(o) /\
          (\E c \in Harm(store[o]) : store' = [store EXCEPT ![o] = c])
    BY <1>3 DEF Damage
  <2>2. PICK c \in Harm(store[o]) : store' = [store EXCEPT ![o] = c]
    BY <2>1
  <2>3. \A i \in 1..Len(c.frames) : \E f \in Pool : c.frames[i].seal = f.seal
    BY <2>1, HarmFacts DEF TInv
  <2>4. \A f \in Pool : Genuine(f.seal)
    BY DEF Stored, Pool
  <2>5. \A i \in 1..Len(c.frames) : Genuine(c.frames[i].seal)'
    <3>1. ASSUME NEW i \in 1..Len(c.frames) PROVE Genuine(c.frames[i].seal)
      BY <2>3, <2>4
    <3> QED
      BY <3>1, StaysGenuine
  <2>6. \A q \in Path : store'[q] = IF q = o THEN c ELSE store[q]
    BY <2>2 DEF TInv, TypeOK
  <2> QED
    BY <2>5, <2>6, StaysGenuine DEF Stored, IsContainer
<1>4. CASE Intrude
  <2>1. PICK o \in Path : store' = [store EXCEPT ![o] = Foreign]
    BY <1>4 DEF Intrude
  <2>2. \A q \in Path : store'[q] = IF q = o THEN Foreign ELSE store[q]
    BY <2>1 DEF TInv, TypeOK
  <2> QED
    BY <2>2, ContentFacts, StaysGenuine DEF Stored, IsContainer
<1>5. ASSUME NEW p \in Proc, Run(p), ~Commit(p) PROVE store' = store
  BY <1>5 DEF Run, Begin, First, Ahead, Header, NextFrame, Eof, DirSync, Fail,
              Kill, World
<1>6. CASE UNCHANGED vars \/ Edit
  BY <1>1, <1>6 DEF vars, Edit
<1> QED
  BY <1>1, <1>2, <1>3, <1>4, <1>5, <1>6 DEF Next

\* A decryption collects the chunks of one encryption, in order, whatever
\* happens to the container between two of its reads.
LEMMA FollowStep ==
    TInv /\ Sealed /\ Stored /\ Follows /\ [Next]_vars /\ TInv' /\ Lasting => Follows'
<1> SUFFICES ASSUME TInv, Sealed, Stored, Follows, [Next]_vars, TInv', Lasting
             PROVE  Follows'
  OBVIOUS
<1>1. ASSUME NEW q \in Proc, got'[q] = got[q], header'[q] = header[q],
             pc'[q] = pc[q] \/ pc'[q] \notin {"eof", "commit"}
      PROVE  FollowsAt(q)'
  <2>1. got[q] \in Seq(Piece) /\ header[q] \in Proc \cup {None} /\ FollowsAt(q)
    BY DEF TInv, TypeOK, Follows
  <2>2. CASE header[q] \in Proc
    BY <1>1, <2>1, <2>2, StaysAll DEF FollowsAt
  <2>3. CASE header[q] \notin Proc
    BY <1>1, <2>1, <2>3 DEF FollowsAt, IsAll
  <2> QED
    BY <2>2, <2>3
<1>2. ASSUME NEW p \in Proc,
             \/ First(p) \/ Ahead(p) \/ Commit(p) \/ Begin(p)
             \/ DirSync(p) \/ Fail(p) \/ Kill(p)
      PROVE  Follows'
  <2>1. got' = got /\ header' = header
    BY <1>2 DEF First, Ahead, Commit, Begin, DirSync, Fail, Kill, Work
  <2>2. \A q \in Proc \ {p} : pc'[q] = pc[q]
    BY <1>2 DEF First, Ahead, Commit, Begin, DirSync, Fail, Kill, Return, Goto,
                TInv, TypeOK
  <2>3. pc'[p] \notin {"eof", "commit"} \/ OpOf[p] = "encrypt"
    <3>1. CASE Ahead(p)
      BY <3>1 DEF Ahead, TInv, Loop, LoopAt
    <3>2. CASE First(p) \/ Begin(p)
      <4>1. PICK s \in {"ahead", "first", "header", "done"} :
               pc' = [pc EXCEPT ![p] = s]
        BY <3>2, Zenon DEF First, Begin, Return, Goto
      <4> QED
        BY <4>1 DEF TInv, TypeOK
    <3>3. CASE Commit(p) \/ DirSync(p) \/ Fail(p) \/ Kill(p)
      <4>1. PICK s \in {"dirsync", "done"} : pc' = [pc EXCEPT ![p] = s]
        BY <3>3 DEF Commit, DirSync, Fail, Kill, Return, Goto
      <4> QED
        BY <4>1 DEF TInv, TypeOK
    <3> QED
      BY <1>2, <3>1, <3>2, <3>3
  <2>4. CASE OpOf[p] = "encrypt"
    BY <1>1, <2>1, <2>2, <2>4 DEF Follows, FollowsAt
  <2> QED
    BY <1>1, <2>1, <2>2, <2>3, <2>4 DEF Follows
<1>3. ASSUME NEW p \in Proc, Header(p) PROVE Follows'
  <2>1. /\ got' = got /\ got[p] = <<>> /\ pc'[p] \notin {"eof", "commit"}
        /\ \A q \in Proc \ {p} : pc'[q] = pc[q] /\ header'[q] = header[q]
    BY <1>3 DEF Header, TInv, TypeOK, Loop, LoopAt, Goto, Return
  <2>2. FollowsAt(p)'
    BY <2>1 DEF FollowsAt
  <2> QED
    BY <1>1, <2>1, <2>2 DEF Follows
<1>4. ASSUME NEW p \in Proc, Eof(p) PROVE Follows'
  <2>1. /\ got' = got /\ header' = header /\ pc[p] = "eof"
        /\ \A q \in Proc \ {p} : pc'[q] = pc[q]
    BY <1>4 DEF Eof, Work, TInv, TypeOK, Goto, Return
  <2>2. /\ OpOf[p] = "decrypt" /\ IsAll(got[p], header[p])
        /\ header[p] \in Proc /\ got[p] \in Seq(Piece)
    BY <2>1, Basics DEF TInv, TypeOK, Loop, LoopAt, Follows, FollowsAt
  <2>3. FollowsAt(p)'
    BY <2>1, <2>2, StaysAll DEF FollowsAt, IsAll
  <2> QED
    BY <1>1, <2>1, <2>3 DEF Follows
<1>5. ASSUME NEW p \in Proc, NextFrame(p) PROVE Follows'
  <2>1. /\ header' = header /\ pc[p] = "frame" /\ OpOf[p] = "decrypt"
        /\ got[p] \in Seq(Piece) /\ job[p].in \in Path /\ IsContainer(job[p].in)
        /\ \A q \in Proc \ {p} : pc'[q] = pc[q] /\ got'[q] = got[q]
    BY <1>5 DEF NextFrame, TInv, TypeOK, Loop, LoopAt, Goto, Return
  <2> DEFINE frames == store[job[p].in].frames
             n == Len(got[p]) + 1
             fr == frames[n]
  <2>2. CASE got' = got /\ Return(p, "rejected")
    BY <1>1, <2>1, <2>2 DEF Follows, TInv, TypeOK, Return
  <2>3. CASE /\ n <= Len(frames) /\ WellFormed(fr) /\ Authentic(fr, p)
             /\ got' = [got EXCEPT ![p] = Append(@, fr.seal.piece)]
             /\ Goto(p, IF fr.final THEN "eof" ELSE "frame")
    <3>1. frames \in Seq(Frame) /\ n \in 1..Len(frames)
      <4>1. frames \in Seq(Frame)
        BY <2>1, ContentFacts DEF TInv, TypeOK, IsContainer
      <4>2. Len(got[p]) \in Nat
        BY <2>1
      <4> HIDE DEF frames
      <4> QED
        BY <2>3, <4>1, <4>2
    <3>2. Genuine(fr.seal) /\ fr \in Frame
      <4>1. \A i \in 1..Len(frames) : Genuine(frames[i].seal)
        BY <2>1 DEF Stored
      <4> HIDE DEF frames, n
      <4> QED
        BY <3>1, <4>1
    <3> DEFINE e == header[p]
    <3>3. /\ fr.seal.by = e /\ fr.seal.at = Len(got[p]) /\ fr.final = fr.seal.final
      BY <2>3 DEF Authentic
    <3>4. e \in Proc /\ n \in 1..Len(temp[e]) /\ temp[e][n].seal = fr.seal
      BY <3>2, <3>3 DEF Genuine
    <3>5. fr.seal.piece = read[e][n] /\ fr.seal.final = temp[e][n].final
      <4>1. temp[e][n].seal = [by |-> e, at |-> n - 1, final |-> temp[e][n].final,
                                piece |-> read[e][n]]
        BY <3>4 DEF Sealed, SealedAt
      <4> QED
        BY <3>4, <4>1
    <3>6. /\ got'[p] \in Seq(Piece) /\ Len(got'[p]) = n
          /\ got'[p][n] = read[e][n]
          /\ \A j \in 1..n - 1 : got'[p][j] = got[p][j]
      <4> DEFINE piece == fr.seal.piece
      <4>1. got'[p] = Append(got[p], piece)
        BY <2>3 DEF TInv, TypeOK
      <4>2. piece \in Piece
        BY <3>2 DEF Frame, Seal
      <4>3. piece = read[e][n]
        BY <3>5
      <4> HIDE DEF piece
      <4> QED
        BY <2>1, <4>1, <4>2, <4>3
    <3>7. Begins(got[p], e)
      BY <2>1 DEF Follows, FollowsAt, Begins
    <3>8. Begins(got'[p], e)
      <4> SUFFICES ASSUME NEW j \in 1..n
                   PROVE  j \in 1..Len(temp[e]) /\ got'[p][j] = read[e][j]
        BY <3>6 DEF Begins
      <4>1. CASE j = n
        BY <3>4, <3>6, <4>1
      <4>2. CASE j # n
        <5>1. j \in 1..Len(got[p]) /\ j \in 1..n - 1
          BY <2>1, <4>2
        <5> QED
          BY <3>6, <3>7, <5>1 DEF Begins
      <4> QED
        BY <4>1, <4>2
    <3>9. fr.final => IsAll(got'[p], e)
      <4>1. got'[p] # <<>>
        BY <2>1, <3>6
      <4> QED
        BY <3>3, <3>4, <3>5, <3>6, <3>8, <4>1 DEF IsAll
    <3>10. pc'[p] \in {"eof", "commit"} => fr.final
      BY <2>3 DEF TInv, TypeOK, Goto
    <3>11. FollowsAt(p)'
      <4>1. /\ (Begins(got'[p], e) => Begins(got[p], header[p])')
            /\ (IsAll(got'[p], e) => IsAll(got[p], header[p])')
        BY <2>1, <3>4, <3>6, StaysAll DEF Lasting, Begins, IsAll
      <4> HIDE DEF e
      <4> QED
        BY <2>1, <3>4, <3>8, <3>9, <3>10, <4>1 DEF FollowsAt, e
    <3> QED
      BY <1>1, <2>1, <3>11 DEF Follows
  <2> QED
    BY <1>5, <2>2, <2>3 DEF NextFrame
<1>6. CASE UNCHANGED vars \/ Edit \/ Damage \/ Intrude
  BY <1>1, <1>6 DEF vars, Edit, Damage, Intrude, Follows
<1> QED
  BY <1>2, <1>3, <1>4, <1>5, <1>6 DEF Next, Run

\* A plaintext that has a name came from a decryption that saw the end.
LEMMA PublishedStep ==
    TInv /\ Follows /\ Published /\ [Next]_vars /\ Lasting => Published'
<1> SUFFICES ASSUME TInv, Follows, Published, [Next]_vars, Lasting PROVE Published'
  OBVIOUS
<1>1. ASSUME NEW o \in Path, store'[o].kind = "plaintext", store'[o] = store[o]
      PROVE  IsAll(store[o].pieces, store[o].by)'
  <2>1. IsAll(store[o].pieces, store[o].by)
    BY <1>1 DEF Published
  <2>2. /\ store[o].pieces \in Seq(Piece) /\ store[o].by \in Proc
    BY <2>1 DEF IsAll
  <2> DEFINE q == store[o].pieces
             e == store[o].by
  <2>3. IsAll(q, e) /\ q' = q /\ e' = e /\ q \in Seq(Piece) /\ e \in Proc
    BY <1>1, <2>1, <2>2
  <2> QED
    BY <2>3, StaysAll DEF IsAll, Begins
<1>2. CASE store' = store
  BY <1>1, <1>2 DEF Published
<1>3. ASSUME NEW p \in Proc, Commit(p), store' # store PROVE Published'
  <2> DEFINE o == job[p].out
  <2>1. /\ o \in Path /\ store' = [store EXCEPT ![o] = Output(p)]
        /\ temp' = temp /\ read' = read /\ pc[p] = "commit"
    BY <1>3 DEF Commit, Work, TInv, Loop, LoopAt
  <2>2. \A q \in Path : store'[q] = IF q = o THEN Output(p) ELSE store[q]
    BY <2>1 DEF TInv, TypeOK
  <2>3. Output(p).kind = "plaintext" =>
          IsAll(Output(p).pieces, Output(p).by)
    <3>1. CASE OpOf[p] = "encrypt"
      BY <3>1, ContentFacts DEF Output, TInv, TypeOK
    <3>2. CASE OpOf[p] # "encrypt"
      <4>1. header[p] \in Proc /\ got[p] \in Seq(Piece) /\ IsAll(got[p], header[p])
        BY <2>1, <3>2, Basics DEF TInv, TypeOK, Loop, LoopAt, Follows, FollowsAt
      <4>2. Output(p) = Plaintext(header[p], got[p])
        BY <3>2 DEF Output
      <4> QED
        BY <4>1, <4>2, ContentFacts
    <3> QED
      BY <3>1, <3>2
  <2>4. ASSUME NEW x \in Path, store'[x].kind = "plaintext"
        PROVE  IsAll(store[x].pieces, store[x].by)'
    <3>1. CASE x = o
      <4>1. PICK q, e : q = Output(p).pieces /\ e = Output(p).by
        OBVIOUS
      <4>2. store'[x].pieces = q /\ store'[x].by = e
        BY <2>2, <3>1, <4>1
      <4>3. IsAll(q, e)
        BY <2>2, <2>3, <2>4, <3>1, <4>1
      <4>4. IsAll(q, e)'
        BY <4>3, StaysAll DEF IsAll
      <4> QED
        BY <4>2, <4>4 DEF IsAll, Begins
    <3>2. CASE x # o
      BY <1>1, <2>2, <2>4, <3>2
    <3> QED
      BY <3>1, <3>2
  <2> QED
    BY <2>4 DEF Published
<1>4. CASE Damage
  <2>1. PICK o \in Path : IsContainer(o) /\
          (\E c \in Harm(store[o]) : store' = [store EXCEPT ![o] = c])
    BY <1>4 DEF Damage
  <2>2. PICK c \in Harm(store[o]) : store' = [store EXCEPT ![o] = c]
    BY <2>1
  <2>3. c.kind = "container"
    BY <2>1, HarmFacts DEF TInv
  <2>4. \A q \in Path : store'[q] = IF q = o THEN c ELSE store[q]
    BY <2>2 DEF TInv, TypeOK
  <2> QED
    BY <1>1, <2>3, <2>4 DEF Published
<1>5. CASE Intrude
  <2>1. PICK o \in Path : store' = [store EXCEPT ![o] = Foreign]
    BY <1>5 DEF Intrude
  <2>2. \A q \in Path : store'[q] = IF q = o THEN Foreign ELSE store[q]
    BY <2>1 DEF TInv, TypeOK
  <2> QED
    BY <1>1, <2>2, ContentFacts DEF Published
<1>6. ASSUME NEW p \in Proc, Run(p), ~Commit(p) PROVE store' = store
  BY <1>6 DEF Run, Begin, First, Ahead, Header, NextFrame, Eof, DirSync, Fail,
              Kill, World
<1>7. CASE UNCHANGED vars \/ Edit
  BY <1>2, <1>7 DEF vars, Edit
<1> QED
  BY <1>2, <1>3, <1>4, <1>5, <1>6, <1>7 DEF Next

LEMMA Invariant == Spec => []SInv
<1>1. Init => SInv
  BY InitType, InitSealed DEF SInv
<1>2. SInv /\ [Next]_vars => SInv'
  BY TypeStep, SealStep, StoredStep, FollowStep, PublishedStep DEF SInv
<1> QED
  BY <1>1, <1>2, PTL DEF Spec

\* A plaintext that has a name is all that one encryption read, in order,
\* whatever was done to containers before or while they were read.
THEOREM WholeOrNothing == Spec => []OnlyWholePlaintext
<1>1. SInv => OnlyWholePlaintext
  <2> SUFFICES ASSUME SInv, NEW o \in Path, store[o].kind = "plaintext"
               PROVE  LET e == store[o].by IN
                      /\ store[o].pieces = read[e]
                      /\ Len(temp[e]) = Len(read[e]) /\ temp[e][Len(temp[e])].final
    BY DEF OnlyWholePlaintext
  <2> DEFINE e == store[o].by
             q == store[o].pieces
  <2>1. /\ e \in Proc /\ q \in Seq(Piece) /\ q # <<>>
        /\ Begins(q, e) /\ temp[e][Len(q)].final
    BY DEF SInv, Published, IsAll
  <2>2. read[e] \in Seq(Piece) /\ temp[e] \in Seq(Frame) /\ SealedAt(e)
    BY <2>1 DEF SInv, TInv, TypeOK, Sealed
  <2> HIDE DEF e, q
  <2>3. Len(q) \in 1..Len(q)
    BY <2>1
  <2>4. Len(q) \in 1..Len(temp[e])
    BY <2>1, <2>3 DEF Begins
  <2>5. Len(q) = Len(read[e]) /\ Len(temp[e]) = Len(read[e])
    <3>1. Len(q) = Len(read[e]) /\ Len(temp[e]) <= Len(read[e])
      BY <2>1, <2>2, <2>4, Zenon DEF SealedAt
    <3>2. Len(temp[e]) \in Nat /\ Len(read[e]) \in Nat
      BY <2>2
    <3> QED
      BY <2>4, <3>1, <3>2
  <2>6. \A j \in 1..Len(q) : q[j] = read[e][j]
    BY <2>1 DEF Begins
  <2>7. q = read[e]
    BY <2>1, <2>2, <2>5, <2>6
  <2> QED
    BY <2>1, <2>5, <2>7 DEF e, q
<1> QED
  BY <1>1, Invariant, PTL
-----------------------------------------------------------------------------
(* What the writer publishes the reader opens.                             *)

\* What a damage or another program cannot have touched stays as it is.
Untouched ==
    /\ tool' = tool /\ damaged \subseteq damaged' /\ (edited => edited')
    /\ \A o \in Path : store[o] # Nothing =>
          store'[o] = store[o] \/ (IsContainer(o) /\ IsContainer(o)' /\ o \in damaged')

LEMMA UntouchedStep == TInv /\ [Next]_vars => Untouched
<1> SUFFICES ASSUME TInv, [Next]_vars PROVE Untouched
  OBVIOUS
<1>1. ASSUME NEW p \in Proc, Run(p), ~Commit(p) PROVE Untouched
  <2>1. World
    BY <1>1 DEF Run, Begin, First, Ahead, Header, NextFrame, Eof, DirSync, Fail, Kill
  <2> QED
    BY <2>1 DEF World, Untouched
<1>2. ASSUME NEW p \in Proc, Commit(p) PROVE Untouched
  <2>1. UNCHANGED <<tool, damaged, edited>>
    BY <1>2 DEF Commit
  <2>2. CASE NameTaken(job[p].out)
    BY <1>2, <2>1, <2>2 DEF Commit, Untouched
  <2>3. CASE ~NameTaken(job[p].out)
    <3>1. store' = [store EXCEPT ![job[p].out] = Output(p)] /\ store[job[p].out] = Nothing
      BY <1>2, <2>3 DEF Commit, NameTaken
    <3> QED
      BY <2>1, <3>1 DEF Untouched, TInv, TypeOK
  <2> QED
    BY <2>2, <2>3
<1>3. CASE Damage
  <2>1. PICK o \in Path :
          /\ IsContainer(o) /\ damaged' = damaged \cup {o}
          /\ \E c \in Harm(store[o]) : store' = [store EXCEPT ![o] = c]
    BY <1>3 DEF Damage
  <2>2. PICK c \in Harm(store[o]) : store' = [store EXCEPT ![o] = c]
    BY <2>1
  <2>3. c.kind = "container"
    BY <2>1, HarmFacts DEF TInv
  <2>4. tool' = tool /\ edited' = edited
    BY <1>3 DEF Damage
  <2>5. \A q \in Path : store'[q] = IF q = o THEN c ELSE store[q]
    BY <2>2 DEF TInv, TypeOK
  <2> QED
    BY <2>1, <2>3, <2>4, <2>5 DEF Untouched, IsContainer
<1>4. CASE Intrude
  <2>1. PICK o \in Path : ~NameTaken(o) /\ store' = [store EXCEPT ![o] = Foreign]
    BY <1>4 DEF Intrude
  <2>2. UNCHANGED <<tool, damaged, edited>>
    BY <1>4 DEF Intrude
  <2> QED
    BY <2>1, <2>2 DEF Untouched, NameTaken, TInv, TypeOK
<1>5. CASE Edit
  BY <1>5 DEF Edit, Untouched
<1>6. CASE UNCHANGED vars
  BY <1>6 DEF vars, Untouched
<1> QED
  BY <1>1, <1>2, <1>3, <1>4, <1>5, <1>6 DEF Next

\* A short frame that is not final needs an input that changed its length
\* and a program that reads on after a short chunk.
Full(f) == f.final \/ f.len = Chunk \/ (tool = "x4x" /\ edited)

WrittenAt(e) ==
    /\ \A j \in 1..Len(temp[e]) :
          temp[e][j].len = read[e][j].len /\ Full(temp[e][j])
    /\ pc[e] = "commit" /\ OpOf[e] = "encrypt" =>
          temp[e] # <<>> /\ temp[e][Len(temp[e])].final
    /\ pc[e] = "ahead" /\ ~edited =>
          Current(e).len = Chunk \/ Current(e).from + Current(e).len >= length

Written == \A e \in Proc : WrittenAt(e)

LEMMA InitWritten == Init => Written
BY DEF Init, Written, WrittenAt

LEMMA PieceFacts ==
    ASSUME TypeOK, NEW pos \in Nat
    PROVE  /\ PieceAt(pos).from = pos
           /\ PieceAt(pos).len = Chunk \/ pos + PieceAt(pos).len >= length
           /\ pos >= length => PieceAt(pos).len = 0
BY Basics DEF TypeOK, PieceAt

LEMMA WrittenStep ==
    TInv /\ Sealed /\ Written /\ [Next]_vars /\ Lasting /\ Untouched => Written'
<1> SUFFICES ASSUME TInv, Sealed, Written, [Next]_vars, Lasting, Untouched
             PROVE  Written'
  OBVIOUS
<1>1. ASSUME NEW e \in Proc, temp'[e] = temp[e], read'[e] = read[e],
             length' = length \/ edited',
             pc'[e] = pc[e] \/ pc'[e] \notin {"commit", "ahead"}
                            \/ (pc'[e] = "commit" /\ OpOf[e] = "decrypt")
      PROVE  WrittenAt(e)'
  BY <1>1 DEF Written, WrittenAt, Full, Untouched, Current
<1>2. ASSUME NEW p \in Proc,
             \/ Begin(p) \/ Header(p) \/ NextFrame(p) \/ Eof(p) \/ Commit(p)
             \/ DirSync(p) \/ Fail(p) \/ Kill(p)
      PROVE  Written'
  <2>1. UNCHANGED <<read, temp, length>>
    BY <1>2 DEF Begin, Header, NextFrame, Eof, Commit, DirSync, Fail, Kill,
                Work, World
  <2>2. \A e \in Proc \ {p} : pc'[e] = pc[e]
    BY <1>2 DEF Begin, Header, NextFrame, Eof, Commit, DirSync, Fail, Kill,
                Return, Goto, TInv, TypeOK
  <2>3. CASE Eof(p)
    <3>1. OpOf[p] = "decrypt" /\ pc'[p] \in {"done", "commit"}
      BY <2>3 DEF Eof, TInv, Loop, LoopAt, Return, Goto, TypeOK
    <3> QED
      BY <1>1, <2>1, <2>2, <3>1 DEF Written
  <2>4. CASE ~Eof(p)
    <3>1. PICK s \in {"first", "header", "frame", "eof", "dirsync", "done"} :
             pc' = [pc EXCEPT ![p] = s]
      BY <1>2, <2>4, Zenon DEF Begin, Header, NextFrame, Commit, DirSync, Fail,
                               Kill, Return, Goto
    <3>2. pc'[p] \notin {"commit", "ahead"}
      BY <3>1 DEF TInv, TypeOK
    <3> QED
      BY <1>1, <2>1, <2>2, <3>2 DEF Written
  <2> QED
    BY <2>3, <2>4
<1>3. ASSUME NEW p \in Proc, First(p) PROVE Written'
  <2>1. /\ temp[p] = <<>> /\ temp' = temp /\ length' = length
        /\ read' = [read EXCEPT ![p] = <<PieceAt(0)>>]
        /\ pc' = [pc EXCEPT ![p] = "ahead"]
    BY <1>3 DEF First, TInv, Loop, LoopAt, Goto, World
  <2>2. \A e \in Proc \ {p} : WrittenAt(e)'
    BY <1>1, <2>1 DEF TInv, TypeOK
  <2>3. Current(p)' = PieceAt(0) /\ pc'[p] = "ahead"
    BY <2>1 DEF Current, TInv, TypeOK
  <2>4. WrittenAt(p)'
    BY <2>1, <2>3, PieceFacts DEF WrittenAt, TInv
  <2> QED
    BY <2>2, <2>4 DEF Written
<1>4. ASSUME NEW p \in Proc, Ahead(p) PROVE Written'
  <2>1. /\ pc[p] = "ahead" /\ Len(read[p]) = Len(temp[p]) + 1
        /\ read[p] \in Seq(Piece) /\ temp[p] \in Seq(Frame)
        /\ UNCHANGED <<tool, length, edited>> /\ tool \in {"x4x", "e-tool"}
    BY <1>4, Basics DEF Ahead, TInv, Loop, LoopAt, TypeOK, World
  <2> DEFINE pos == Current(p).from + Current(p).len
             next == PieceAt(pos)
             more == Nonempty(p, next)
             f == FrameOf(p, ~more)
             n == Len(temp[p])
  <2>2. Current(p) \in Piece /\ Current(p) = read[p][n + 1]
    BY <2>1 DEF Current
  <2>3. pos \in Nat /\ Current(p).len \in Nat
    BY <2>2, Basics DEF Piece
  <2>4. /\ next \in Piece /\ next.from = pos
        /\ next.len = Chunk \/ pos + next.len >= length
        /\ pos >= length => next.len = 0
    BY <2>3, PieceType, PieceFacts DEF TInv
  <2>5. more = (ReadsAhead(p) /\ next.len > 0) /\ more \in BOOLEAN
    BY DEF Nonempty
  <2>6. f.len = Current(p).len /\ f.final = ~more
    BY DEF FrameOf
  <2>7. /\ temp' = [temp EXCEPT ![p] = Append(temp[p], f)]
        /\ read' = IF more THEN [read EXCEPT ![p] = Append(read[p], next)] ELSE read
        /\ pc' = [pc EXCEPT ![p] = IF more THEN "ahead" ELSE "commit"]
    BY <1>4 DEF Ahead, Goto
  <2>8. f.final \/ f.len = Chunk \/ (tool = "x4x" /\ edited)
    <3>1. CASE tool = "x4x" /\ ~edited
      <4>1. Current(p).len = Chunk \/ pos >= length
        BY <2>1, <3>1 DEF Written, WrittenAt
      <4>2. more => ~(pos >= length)
        BY <2>4, <2>5
      <4>3. f.final \/ more
        BY <2>6
      <4> QED
        BY <2>6, <4>1, <4>2, <4>3
    <3>2. CASE tool = "e-tool"
      <4>1. more => Current(p).len = Chunk
        BY <2>5, <3>2 DEF ReadsAhead
      <4> QED
        BY <2>5, <2>6, <4>1
    <3>3. CASE tool = "x4x" /\ edited
      BY <3>3
    <3> QED
      BY <2>1, <3>1, <3>2, <3>3
  <2> HIDE DEF f, next, more, pos
  <2>9. /\ temp'[p] = Append(temp[p], f) /\ n \in Nat
        /\ Len(temp'[p]) = n + 1 /\ temp'[p][n + 1] = f
        /\ \A j \in 1..n : temp'[p][j] = temp[p][j]
    BY <2>1, <2>7 DEF TInv, TypeOK
  <2>10. /\ \A j \in 1..n + 1 : read'[p][j] = read[p][j]
         /\ more => Len(read'[p]) = n + 2 /\ read'[p][n + 2] = next
    <3>1. CASE more
      <4>1. read'[p] = Append(read[p], next)
        BY <2>7, <3>1 DEF TInv, TypeOK
      <4> QED
        BY <2>1, <2>4, <4>1
    <3> QED
      BY <2>7, <3>1
  <2>11. WrittenAt(p)'
    <3>1. ASSUME NEW j \in 1..Len(temp'[p])
          PROVE  temp'[p][j].len = read'[p][j].len /\ Full(temp[p][j])'
      <4>1. CASE j = n + 1
        <5>1. temp'[p][j] = f /\ read'[p][j] = read[p][n + 1]
          BY <2>9, <2>10, <4>1
        <5>2. f.len = read[p][n + 1].len
          BY <2>2, <2>6
        <5> QED
          BY <2>1, <2>8, <5>1, <5>2 DEF Full
      <4>2. CASE j \in 1..n
        <5>1. temp[p][j].len = read[p][j].len /\ Full(temp[p][j])
          BY <4>2 DEF Written, WrittenAt
        <5> QED
          BY <2>1, <2>9, <2>10, <4>2, <5>1 DEF Full
      <4> QED
        BY <2>9, <4>1, <4>2
    <3>2. more => pc'[p] = "ahead"
      BY <2>7 DEF TInv, TypeOK
    <3>3. ~more => pc'[p] = "commit"
      BY <2>7 DEF TInv, TypeOK
    <3>4. pc'[p] = "commit" => temp'[p] # <<>> /\ temp'[p][Len(temp'[p])].final
      <4>1. ~more => f.final
        BY <2>6
      <4>2. pc'[p] = "commit" => ~more
        BY <3>2
      <4>3. temp'[p] # <<>>
        BY <2>9
      <4> QED
        BY <2>9, <4>1, <4>2, <4>3
    <3>5. pc'[p] = "ahead" =>
            Current(p)'.len = Chunk \/ Current(p)'.from + Current(p)'.len >= length'
      <4>1. pc'[p] = "ahead" => more
        BY <2>5, <3>3
      <4>2. more => Current(p)' = next
        BY <2>10 DEF Current
      <4> QED
        BY <2>1, <2>4, <4>1, <4>2
    <3> QED
      BY <3>1, <3>4, <3>5 DEF WrittenAt
  <2>12. \A e \in Proc \ {p} : WrittenAt(e)'
    <3>1. \A e \in Proc \ {p} : temp'[e] = temp[e] /\ read'[e] = read[e] /\ pc'[e] = pc[e]
      BY <2>7 DEF TInv, TypeOK
    <3> QED
      BY <1>1, <2>1, <3>1
  <2> QED
    BY <2>11, <2>12 DEF Written
<1>5. CASE UNCHANGED vars \/ Edit \/ Damage \/ Intrude
  BY <1>1, <1>5 DEF vars, Edit, Damage, Intrude, Written
<1> QED
  BY <1>2, <1>3, <1>4, <1>5 DEF Next, Run

\* A container nothing has damaged is all that one encryption sealed.
IntactAt(o) ==
    IsContainer(o) /\ o \notin damaged =>
        /\ store[o].by \in Proc /\ store[o].frames = temp[store[o].by]
        /\ ~store[o].torn
        /\ temp[store[o].by] # <<>>
        /\ temp[store[o].by][Len(temp[store[o].by])].final

Intact == \A o \in Path : IntactAt(o)

\* How far a decryption of such a container has come.
ReadsAt(p) ==
    /\ pc[p] \in {"frame", "eof"} /\ job[p].in \notin damaged =>
          /\ header[p] = store[job[p].in].by
          /\ pc[p] = "frame" => Len(got[p]) < Len(store[job[p].in].frames)
          /\ pc[p] = "eof"   => Len(got[p]) = Len(store[job[p].in].frames)
    /\ pc[p] = "idle" => result[p] = "none"
    /\ result[p] = "rejected" =>
          /\ pc[p] = "done" /\ job[p].in \in Path /\ store[job[p].in] # Nothing
          /\ \/ ~IsContainer(job[p].in) \/ job[p].in \in damaged
             \/ tool = "x4x" /\ edited

Reads == \A p \in Proc : ReadsAt(p)

LEMMA InitReads == Init => Intact /\ Reads
BY DEF Init, Intact, IntactAt, IsContainer, Nothing, Reads, ReadsAt

\* Nothing is added to what ends with a final frame.
LEMMA EndedStays ==
    ASSUME TInv, Sealed, [Next]_vars, Lasting, NEW e \in Proc,
           temp[e] # <<>>, temp[e][Len(temp[e])].final
    PROVE  temp'[e] = temp[e]
<1>1. temp[e] \in Seq(Frame) /\ Len(temp[e]) \in 1..Len(temp[e])
  BY DEF TInv, TypeOK
<1>2. pc[e] \notin {"first", "ahead"}
  BY <1>1 DEF Sealed, SealedAt
<1>3. ASSUME NEW p \in Proc, Run(p) PROVE temp'[e] = temp[e]
  <2>1. CASE Ahead(p)
    <3>1. p # e /\ \E x : temp' = [temp EXCEPT ![p] = x]
      BY <1>2, <2>1 DEF Ahead
    <3> QED
      BY <3>1 DEF TInv, TypeOK
  <2>2. CASE ~Ahead(p)
    BY <1>3, <2>2 DEF Run, Begin, First, Header, NextFrame, Eof, Commit, DirSync,
                      Fail, Kill, Work
  <2> QED
    BY <2>1, <2>2
<1> QED
  BY <1>3 DEF Next, Edit, Damage, Intrude, vars

LEMMA IntactStep ==
    /\ TInv /\ Sealed /\ Written /\ Intact /\ [Next]_vars
    /\ Lasting /\ Untouched
    => Intact'
<1> SUFFICES ASSUME TInv, Sealed, Written, Intact, [Next]_vars, Lasting, Untouched,
                    NEW o \in Path, IsContainer(o)', o \notin damaged'
             PROVE  IntactAt(o)'
  BY DEF Intact, IntactAt
<1>1. CASE store'[o] = store[o]
  <2>1. IsContainer(o) /\ o \notin damaged
    BY <1>1 DEF IsContainer, Untouched
  <2>2. IntactAt(o)
    BY DEF Intact
  <2>3. temp'[store[o].by] = temp[store[o].by]
    BY <2>1, <2>2, EndedStays DEF IntactAt
  <2> QED
    BY <1>1, <2>1, <2>2, <2>3 DEF IntactAt
<1>2. CASE store'[o] # store[o]
  <2>1. store[o] = Nothing
    BY <1>2 DEF Untouched
  <2>2. PICK p \in Proc : Commit(p)
    <3>1. CASE Damage
      BY <1>2, <2>1, <3>1, ContentFacts DEF Damage, IsContainer, TInv, TypeOK
    <3>2. CASE Intrude
      <4>1. store'[o] = Foreign
        BY <1>2, <3>2 DEF Intrude, TInv, TypeOK
      <4> QED
        BY <4>1, ContentFacts DEF IsContainer
    <3>3. ASSUME NEW p \in Proc, Run(p), ~Commit(p) PROVE store' = store
      BY <3>3 DEF Run, Begin, First, Ahead, Header, NextFrame, Eof, DirSync, Fail,
                  Kill, World
    <3> QED
      BY <1>2, <3>1, <3>2, <3>3 DEF Next, Edit, vars, Run
  <2>3. /\ pc[p] = "commit" /\ job[p].out = o /\ temp' = temp
        /\ store' = [store EXCEPT ![o] = Output(p)]
    BY <1>2, <2>2 DEF Commit, Work, TInv, TypeOK
  <2>4. store'[o] = Output(p)
    BY <2>3 DEF TInv, TypeOK
  <2>5. OpOf[p] = "encrypt"
    <3>1. ASSUME OpOf[p] # "encrypt" PROVE Output(p).kind = "plaintext"
      BY <2>3, <3>1, Basics, ContentFacts DEF Output, TInv, Loop, LoopAt, TypeOK
    <3> QED
      BY <2>4, <3>1 DEF IsContainer
  <2>6. temp[p] # <<>> /\ temp[p][Len(temp[p])].final
    BY <2>3, <2>5 DEF Written, WrittenAt
  <2>7. /\ store'[o].by = p /\ store'[o].frames = temp[p] /\ ~store'[o].torn
    BY <2>4, <2>5, ContentFacts DEF Output, TInv, TypeOK
  <2> QED
    BY <2>3, <2>6, <2>7 DEF IntactAt
<1> QED
  BY <1>1, <1>2

\* Every frame of a container that nothing has damaged opens, in its place,
\* and only the last one is final.
LEMMA FramesOpen ==
    ASSUME TInv, Sealed, Written, Intact, NEW o \in Path,
           IsContainer(o), o \notin damaged, NEW n \in 1..Len(store[o].frames)
    PROVE  LET f == store[o].frames[n] IN
           /\ f.seal.by = store[o].by /\ f.seal.at = n - 1
           /\ f.final = f.seal.final /\ f.len = f.seal.piece.len
           /\ f.final <=> n = Len(store[o].frames)
           /\ WellFormed(f) \/ (tool = "x4x" /\ edited)
<1> DEFINE e == store[o].by
           f == temp[e][n]
<1>1. /\ e \in Proc /\ store[o].frames = temp[e] /\ temp[e] # <<>>
      /\ temp[e][Len(temp[e])].final
  BY DEF Intact, IntactAt
<1>2. SealedAt(e) /\ WrittenAt(e) /\ temp[e] \in Seq(Frame) /\ read[e] \in Seq(Piece)
  BY <1>1 DEF Sealed, Written, TInv, TypeOK
<1> HIDE DEF e
<1>3. n \in 1..Len(temp[e]) /\ Len(temp[e]) \in 1..Len(temp[e])
  BY <1>1, <1>2
<1>4. /\ f.seal = [by |-> e, at |-> n - 1, final |-> f.final, piece |-> read[e][n]]
      /\ f.final => n = Len(read[e])
  BY <1>2, <1>3 DEF SealedAt
<1>5. f.len = read[e][n].len /\ Full(f)
  BY <1>2, <1>3 DEF WrittenAt
<1>6. Len(temp[e]) = Len(read[e])
  BY <1>1, <1>2, <1>3 DEF SealedAt
<1>7. f.final <=> n = Len(temp[e])
  BY <1>1, <1>4, <1>6
<1>8. f.len <= Chunk
  <2>1. read[e][n] \in Piece
    BY <1>2, <1>3, <1>6
  <2> QED
    BY <1>5, <2>1, Basics DEF Piece
<1>9. WellFormed(f) \/ (tool = "x4x" /\ edited)
  BY <1>5, <1>8 DEF Full, WellFormed
<1>10. store[o].frames[n] = f /\ Len(store[o].frames) = Len(temp[e])
  BY <1>1
<1>11. f.seal.by = e /\ f.seal.at = n - 1 /\ f.final = f.seal.final
       /\ f.len = f.seal.piece.len
  BY <1>4, <1>5
<1> QED
  BY <1>7, <1>9, <1>10, <1>11 DEF e

LEMMA ReadsStep ==
    /\ TInv /\ Sealed /\ Written /\ Intact /\ Reads /\ [Next]_vars
    /\ Untouched /\ Kept
    => Reads'
<1> SUFFICES ASSUME TInv, Sealed, Written, Intact, Reads, [Next]_vars, Untouched, Kept
             PROVE  Reads'
  OBVIOUS
\* (Processes that do not move.)
<1>1. ASSUME NEW q \in Proc, pc'[q] = pc[q], job'[q] = job[q], header'[q] = header[q],
             got'[q] = got[q], result'[q] = result[q]
      PROVE  ReadsAt(q)'
  <2>1. ReadsAt(q) /\ LoopAt(q)
    BY DEF Reads, TInv, Loop
  <2>2. CASE pc[q] \in {"frame", "eof"}
    <3>1. job[q].in \in Path /\ store[job[q].in] # Nothing /\ result[q] # "rejected"
      BY <2>1, <2>2 DEF LoopAt, ReadsAt
    <3>2. job[q].in \notin damaged' =>
             job[q].in \notin damaged /\ store'[job[q].in] = store[job[q].in]
      BY <3>1 DEF Untouched
    <3> QED
      BY <1>1, <2>1, <2>2, <3>1, <3>2 DEF ReadsAt, IsContainer
  <2>3. CASE pc[q] \notin {"frame", "eof"}
    <3>1. CASE result[q] = "rejected"
      <4>1. /\ pc[q] = "done" /\ job[q].in \in Path /\ store[job[q].in] # Nothing
            /\ \/ ~IsContainer(job[q].in) \/ job[q].in \in damaged
               \/ tool = "x4x" /\ edited
        BY <2>1, <3>1 DEF ReadsAt, IsContainer
      <4>2. store'[job[q].in] # Nothing
        BY <4>1 DEF Kept
      <4>3. ~IsContainer(job[q].in) => ~IsContainer(job[q].in)' \/ job[q].in \in damaged'
        BY <1>1, <4>1 DEF Untouched, IsContainer
      <4> QED
        BY <1>1, <2>3, <4>1, <4>2, <4>3 DEF ReadsAt, Untouched
    <3>2. CASE result[q] # "rejected"
      BY <1>1, <2>1, <2>3, <3>2 DEF ReadsAt, IsContainer
    <3> QED
      BY <3>1, <3>2
  <2> QED
    BY <2>2, <2>3
\* (Steps after which nothing is being read and nothing was rejected.)
<1>2. ASSUME NEW p \in Proc,
             \/ Begin(p) \/ First(p) \/ Ahead(p) \/ Commit(p) \/ DirSync(p)
             \/ Fail(p) \/ Kill(p)
      PROVE  Reads'
  <2>1. \A q \in Proc \ {p} :
           /\ pc'[q] = pc[q] /\ job'[q] = job[q] /\ header'[q] = header[q]
           /\ got'[q] = got[q] /\ result'[q] = result[q]
    BY <1>2 DEF Begin, First, Ahead, Commit, DirSync, Fail, Kill, Return, Goto,
                Work, TInv, TypeOK
  <2>2. result[p] # "rejected"
    <3>1. pc[p] # "done"
      BY <1>2 DEF Begin, First, Ahead, Commit, DirSync, Fail, Kill
    <3> QED
      BY <3>1 DEF Reads, ReadsAt
  <2>3. /\ pc'[p] \notin {"idle", "frame", "eof"} /\ result'[p] # "rejected"
    BY <1>2, <2>2 DEF Begin, First, Ahead, Commit, DirSync, Fail, Kill, Return,
                Goto, TInv, TypeOK
  <2>4. ReadsAt(p)'
    BY <2>3 DEF ReadsAt
  <2> QED
    BY <1>1, <2>1, <2>4 DEF Reads
<1>3. ASSUME NEW p \in Proc, Header(p) PROVE Reads'
  <2> DEFINE o == job[p].in
  <2>1. /\ pc[p] = "header" /\ o \in Path /\ store[o] # Nothing /\ got[p] = <<>>
        /\ UNCHANGED <<store, job, damaged, got, tool, edited>> /\ result[p] # "rejected"
    BY <1>3 DEF Header, TInv, Loop, LoopAt, World, Reads, ReadsAt
  <2>2. \A q \in Proc \ {p} :
           pc'[q] = pc[q] /\ header'[q] = header[q] /\ result'[q] = result[q]
    BY <1>3 DEF Header, Return, Goto, TInv, TypeOK
  <2>3. ASSUME store[o].kind # "container", Return(p, "rejected")
        PROVE  ReadsAt(p)'
    <3>1. pc'[p] = "done" /\ result'[p] = "rejected"
      BY <2>3 DEF Return, TInv, TypeOK
    <3> QED
      BY <2>1, <2>3, <3>1 DEF ReadsAt, IsContainer
  <2>4. ASSUME store[o].kind = "container", Goto(p, "frame"),
               header' = [header EXCEPT ![p] = store[o].by]
        PROVE  ReadsAt(p)'
    <3>1. IsContainer(o) /\ pc'[p] = "frame" /\ header'[p] = store[o].by
          /\ result'[p] = result[p]
      BY <2>4 DEF IsContainer, Goto, TInv, TypeOK
    <3>2. o \notin damaged => Len(store[o].frames) > 0
      <4>1. ASSUME o \notin damaged
            PROVE  store[o].frames \in Seq(Frame) /\ store[o].frames # <<>>
        BY <2>1, <3>1, <4>1, ContentFacts
           DEF Intact, IntactAt, IsContainer, TInv, TypeOK
      <4> QED
        BY <4>1
    <3>3. Len(got[p]) = 0
      BY <2>1
    <3> QED
      BY <2>1, <3>1, <3>2, <3>3 DEF ReadsAt, IsContainer
  <2>5. ReadsAt(p)'
    BY <1>3, <2>3, <2>4, Zenon DEF Header
  <2> QED
    BY <1>1, <2>1, <2>2, <2>5 DEF Reads
<1>4. ASSUME NEW p \in Proc, NextFrame(p) PROVE Reads'
  <2> DEFINE o == job[p].in
             frames == store[o].frames
             n == Len(got[p]) + 1
  <2>1. /\ pc[p] = "frame" /\ o \in Path /\ IsContainer(o) /\ got[p] \in Seq(Piece)
        /\ UNCHANGED <<store, job, damaged, header, tool, edited>>
        /\ result[p] # "rejected" /\ store[o] # Nothing
    BY <1>4 DEF NextFrame, TInv, Loop, LoopAt, World, Reads, ReadsAt, TypeOK
  <2>2. \A q \in Proc \ {p} :
           pc'[q] = pc[q] /\ got'[q] = got[q] /\ result'[q] = result[q]
    BY <1>4 DEF NextFrame, Return, Goto, TInv, TypeOK
  <2>3. frames \in Seq(Frame) /\ Len(frames) \in Nat /\ Len(got[p]) \in Nat /\ n \in Nat
    BY <2>1, ContentFacts DEF IsContainer, TInv, TypeOK
  <2>4. o \notin damaged => n \in 1..Len(frames) /\ header[p] = store[o].by
    BY <2>1, <2>3 DEF Reads, ReadsAt
  <2>5. o \notin damaged => /\ Authentic(frames[n], p)
                            /\ frames[n].final <=> n = Len(frames)
                            /\ WellFormed(frames[n]) \/ (tool = "x4x" /\ edited)
    <3> SUFFICES ASSUME o \notin damaged
                 PROVE  /\ Authentic(frames[n], p)
                        /\ frames[n].final <=> n = Len(frames)
                        /\ WellFormed(frames[n]) \/ (tool = "x4x" /\ edited)
      OBVIOUS
    <3>1. n - 1 = Len(got[p])
      BY <2>3
    <3> QED
      BY <2>1, <2>4, <3>1, FramesOpen DEF Authentic
  <2>6. ASSUME Return(p, "rejected"),
               n > Len(frames) \/ ~(WellFormed(frames[n]) /\ Authentic(frames[n], p))
        PROVE  ReadsAt(p)'
    <3>1. pc'[p] = "done" /\ result'[p] = "rejected"
      BY <2>6 DEF Return, TInv, TypeOK
    <3>2. o \in damaged \/ (tool = "x4x" /\ edited)
      BY <2>3, <2>4, <2>5, <2>6
    <3> QED
      BY <2>1, <3>1, <3>2 DEF ReadsAt, IsContainer
  <2>7. ASSUME got' = [got EXCEPT ![p] = Append(@, frames[n].seal.piece)],
               Goto(p, IF frames[n].final THEN "eof" ELSE "frame"),
               n <= Len(frames)
        PROVE  ReadsAt(p)'
    <3>1. /\ pc'[p] = IF frames[n].final THEN "eof" ELSE "frame"
          /\ result'[p] = result[p]
          /\ got'[p] = Append(got[p], frames[n].seal.piece)
      BY <2>7 DEF Goto, TInv, TypeOK
    <3>2. Len(got'[p]) = n
      <4>1. frames[n].seal.piece \in Piece
        <5>1. frames[n] \in Frame
          BY <2>3, <2>7
        <5> QED
          BY <5>1 DEF Frame, Seal
      <4> HIDE DEF frames
      <4> QED
        BY <2>1, <3>1, <4>1
    <3>3. o \notin damaged => (IF frames[n].final THEN n = Len(frames)
                                                  ELSE n < Len(frames))
      <4> HIDE DEF frames
      <4> QED
        BY <2>3, <2>5, <2>7
    <3> HIDE DEF n
    <3> QED
      BY <2>1, <2>4, <3>1, <3>2, <3>3 DEF ReadsAt, IsContainer
  <2>8. ReadsAt(p)'
    BY <1>4, <2>6, <2>7, Zenon DEF NextFrame
  <2> QED
    BY <1>1, <2>1, <2>2, <2>8 DEF Reads
<1>5. ASSUME NEW p \in Proc, Eof(p) PROVE Reads'
  <2> DEFINE o == job[p].in
  <2>1. /\ pc[p] = "eof" /\ o \in Path /\ IsContainer(o) /\ got[p] \in Seq(Piece)
        /\ UNCHANGED <<store, job, damaged, header, got, tool, edited>>
        /\ result[p] # "rejected" /\ store[o] # Nothing
    BY <1>5 DEF Eof, TInv, Loop, LoopAt, World, Work, Reads, ReadsAt, TypeOK
  <2>2. \A q \in Proc \ {p} : pc'[q] = pc[q] /\ result'[q] = result[q]
    BY <1>5 DEF Eof, Return, Goto, TInv, TypeOK
  <2>3. o \notin damaged =>
           ~(Len(store[o].frames) > Len(got[p])) /\ ~store[o].torn
    <3>1. Len(got[p]) \in Nat
      BY <2>1
    <3> QED
      BY <2>1, <3>1 DEF Reads, ReadsAt, Intact, IntactAt
  <2>4. ASSUME Len(store[o].frames) > Len(got[p]) \/ store[o].torn
        PROVE  ReadsAt(p)'
    <3>1. pc'[p] = "done" /\ result'[p] = "rejected"
      BY <1>5, <2>4 DEF Eof, Return, TInv, TypeOK
    <3> QED
      BY <2>1, <2>3, <2>4, <3>1 DEF ReadsAt, IsContainer
  <2>5. ASSUME ~(Len(store[o].frames) > Len(got[p]) \/ store[o].torn)
        PROVE  ReadsAt(p)'
    <3>1. pc'[p] = "commit" /\ result'[p] = result[p]
      BY <1>5, <2>5 DEF Eof, Goto, TInv, TypeOK
    <3> QED
      BY <2>1, <3>1 DEF ReadsAt, IsContainer
  <2> QED
    BY <1>1, <2>1, <2>2, <2>4, <2>5 DEF Reads
<1>6. CASE UNCHANGED vars \/ Edit \/ Damage \/ Intrude
  BY <1>1, <1>6 DEF vars, Edit, Damage, Intrude, Reads
<1> QED
  BY <1>2, <1>3, <1>4, <1>5, <1>6 DEF Next, Run

\* A container is rejected only if it was damaged or was none, or if x4x read
\* on after a short chunk of an input that changed its length.
THEOREM WrittenOpens == Spec => []IntactOpens
<1> DEFINE I == SInv /\ Written /\ Intact /\ Reads
<1>1. Init => I
  BY InitType, InitSealed, InitWritten, InitReads DEF SInv
<1>2. I /\ [Next]_vars => I'
  BY TypeStep, SealStep, StoredStep, FollowStep, PublishedStep, UntouchedStep,
     WrittenStep, IntactStep, ReadsStep DEF SInv
<1>3. I => IntactOpens
  BY DEF Reads, ReadsAt, IntactOpens
<1> QED
  BY <1>1, <1>2, <1>3, PTL DEF Spec
=============================================================================

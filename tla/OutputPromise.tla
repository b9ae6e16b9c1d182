--------------------------- MODULE OutputPromise ---------------------------
(***************************************************************************)
(* What a command that makes one new file promises its caller, without     *)
(* temporary names, steps or synchronisation: the abstract specification   *)
(* that StagedOutput implements for every tool.                            *)
(*                                                                         *)
(* The output appears under the name in one step, and only where nothing   *)
(* had the name.  "failed" is said by a call whose output is not there,    *)
(* "there" by one whose output has been put there, and "durable" when it   *)
(* is also what a power failure leaves.  "unclear" is an error of a call   *)
(* that has published and could not look at what has the name: it promises *)
(* nothing, the output may be there.  Everybody else may take the name     *)
(* when it is free and free it when it is taken; whenever they do          *)
(* anything, turns grows.                                                  *)
(***************************************************************************)
EXTENDS Integers

CONSTANTS
    Client,     \* calls that make the same file
    Vacant,     \* nothing has the name
    Foreign     \* a file of somebody else has it

VARIABLES
    holder,     \* whose output has the name
    safe,       \* whose output has it after a power failure
    status,     \* how far each call is, and its answer once it is over
    turns       \* how often the others have acted

vars == <<holder, safe, status, turns>>

Going == {"working", "published", "displaced"}

Init ==
    /\ holder \in {Vacant, Foreign}
    /\ safe = holder
    /\ status = [c \in Client |-> "idle"]
    /\ turns = 0

Become(c, s) == status' = [status EXCEPT ![c] = s]

Ask(c) ==
    /\ status[c] = "idle" /\ Become(c, "working")
    /\ UNCHANGED <<holder, safe, turns>>

\* The one step that gives the name away.  A call may say so with the same
\* step, or have a stage published that somebody has exchanged.
Publish(c) ==
    /\ status[c] = "working" /\ holder = Vacant
    /\ \/ holder' = c /\ \E s \in {"published", "there"} : Become(c, s)
       \/ holder' = Foreign /\ Become(c, "displaced")
    /\ safe' \in {safe, holder'}
    /\ UNCHANGED turns

Answer(c) ==
    /\ status[c] \in Going
    /\ \/ (status[c] = "published" => holder # c) /\ Become(c, "failed")
       \/ status[c] = "published" /\ Become(c, "there")
       \/ status[c] = "published" /\ safe' = holder /\ Become(c, "durable")
       \/ status[c] \in {"published", "displaced"} /\ Become(c, "unclear")
       \/ Become(c, "killed")
    /\ safe' \in {safe, holder}
    /\ UNCHANGED <<holder, turns>>

\* The system writes the name back.
Settle ==
    /\ safe' = holder
    /\ UNCHANGED <<holder, status, turns>>

Disturb ==
    /\ turns' = turns + 1
    /\ holder' \in {holder, IF holder = Vacant THEN Foreign ELSE Vacant}
    /\ UNCHANGED <<safe, status>>

Lose ==
    /\ turns' = turns + 1
    /\ holder' = safe
    /\ status' = [c \in Client |-> IF status[c] \in Going THEN "killed" ELSE status[c]]
    /\ UNCHANGED safe

Next == Settle \/ Disturb \/ Lose \/ \E c \in Client : Ask(c) \/ Publish(c) \/ Answer(c)

Spec == Init /\ [][Next]_vars
=============================================================================

---------------------------- MODULE MovePromise ----------------------------
(***************************************************************************)
(* What a command that turns a file into another one beside it promises:   *)
(* the abstract specification that EzTransaction implements.               *)
(*                                                                         *)
(* At most two of its steps change names, in this order: its output takes  *)
(* the free name beside the source's, and the source loses its name.  The  *)
(* second comes only when the output is under its name and would be after  *)
(* a power failure, too.  Every answer is true of both names when it is    *)
(* given.  Others take and free names, but leave alone what a command has  *)
(* in hand; whenever they do anything, turns grows.                        *)
(***************************************************************************)
EXTENDS Integers

CONSTANTS
    Client,     \* commands, and the files they make
    Foreign,    \* files of others
    Nobody,     \* nothing has the name
    Name,
    Beside      \* the name of the output, for each name of a source

VARIABLES
    holder,     \* the file under each name
    safe,       \* the same after a power failure
    status,     \* how far each command is, and its answer once it is over
    from,       \* the name it was given
    source,     \* the file it found there
    turns       \* how often the others have acted

vars == <<holder, safe, status, from, source, turns>>

Going == {"working", "published", "settled", "moved"}

Init ==
    /\ holder \in [Name -> Foreign \cup {Nobody}] /\ safe = holder
    /\ status = [c \in Client |-> "idle"]
    /\ from \in [Client -> Name] /\ source = [c \in Client |-> Nobody]
    /\ turns = 0

To(c) == Beside[from[c]]
Become(c, s) == status' = [status EXCEPT ![c] = s]

\* A file that a command works on, or has made and not let go.
InHand(f) == \E c \in Client :
    \/ source[c] = f /\ status[c] \in {"working", "published", "settled"}
    \/ c = f /\ status[c] \in {"published", "settled", "moved"}

Here(c) == holder[from[c]] = source[c]
There(c) == holder[To(c)] = c /\ safe[To(c)] = c

Ask(c) ==
    /\ status[c] = "idle" /\ \E s \in {"working", "failed"} : Become(c, s)
    /\ \E n \in Name : from' = [from EXCEPT ![c] = n]
    /\ UNCHANGED <<holder, safe, source, turns>>

Take(c) == LET f == holder[from[c]] IN
    /\ status[c] = "working" /\ source[c] = Nobody
    /\ f # Nobody /\ ~InHand(f)
    /\ source' = [source EXCEPT ![c] = f]
    /\ UNCHANGED <<holder, safe, status, from, turns>>

Publish(c) ==
    /\ status[c] = "working" /\ source[c] # Nobody
    /\ holder[To(c)] = Nobody /\ holder' = [holder EXCEPT ![To(c)] = c]
    /\ Become(c, "published")
    /\ UNCHANGED <<safe, from, source, turns>>

Settle(c) ==
    /\ status[c] = "published"
    /\ holder[To(c)] = c /\ safe' = [safe EXCEPT ![To(c)] = c]
    /\ Become(c, "settled")
    /\ UNCHANGED <<holder, from, source, turns>>

Remove(c) ==
    /\ status[c] = "settled" /\ There(c)
    /\ holder' = [n \in Name |-> IF holder[n] = source[c] THEN Nobody ELSE holder[n]]
    /\ \E s \in {"moved", "unconfirmed", "killed"} : Become(c, s)
    /\ UNCHANGED <<safe, from, source, turns>>

Answer(c) ==
    /\ \/ /\ status[c] = "working" /\ Become(c, "failed")
          /\ \A n \in Name : holder[n] # c
          /\ source[c] # Nobody => Here(c)
       \/ /\ status[c] = "published" /\ Become(c, "published_retained")
          /\ holder[To(c)] = c /\ Here(c)
       \/ status[c] = "settled" /\ Become(c, "committed_retained") /\ There(c) /\ Here(c)
       \/ status[c] = "settled" /\ Become(c, "unconfirmed") /\ There(c)
       \/ /\ status[c] = "moved" /\ Become(c, "ok")
          /\ There(c) /\ \A n \in Name : holder[n] # source[c]
       \/ status[c] \in Going /\ Become(c, "killed")
    /\ UNCHANGED <<holder, safe, from, source, turns>>

WriteBack ==
    /\ \E n \in Name : safe' = [safe EXCEPT ![n] = holder[n]]
    /\ UNCHANGED <<holder, status, from, source, turns>>

Disturb ==
    /\ turns' = turns + 1
    /\ \/ UNCHANGED holder
       \/ \E n \in Name : \/ holder[n] = Nobody /\ \E f \in Foreign : holder' = [holder EXCEPT ![n] = f]
                          \/ ~InHand(holder[n]) /\ holder' = [holder EXCEPT ![n] = Nobody]
    /\ UNCHANGED <<safe, status, from, source>>

Lose ==
    /\ turns' = turns + 1
    /\ holder' = safe
    /\ status' = [c \in Client |-> IF status[c] \in Going THEN "killed" ELSE status[c]]
    /\ UNCHANGED <<safe, from, source>>

Next ==
    \/ \E c \in Client :
         Ask(c) \/ Take(c) \/ Publish(c) \/ Settle(c) \/ Remove(c) \/ Answer(c)
    \/ WriteBack \/ Disturb \/ Lose

Spec == Init /\ [][Next]_vars
=============================================================================

----------------------------- MODULE KeyPromise -----------------------------
(***************************************************************************)
(* What key generation promises about a directory of key files, without    *)
(* looking first, staging, temporary names or synchronisation: the         *)
(* abstract specification that KeySet implements for every tool.           *)
(*                                                                         *)
(* A key appears only under a free name, and goes only as long as its      *)
(* maker is at work: never when keys are made one by one, and never when   *)
(* the set they belong to is there as a whole.  Success, and a failure     *)
(* that has left nothing, are answered only where they are true, also of   *)
(* the disk.                                                               *)
(***************************************************************************)
EXTENDS Integers

CONSTANTS
    Client,     \* calls, each with its own keys
    Foreign,    \* keys that others may put there
    Nobody,     \* nothing has the name
    Name        \* the names of a set

VARIABLES
    kind,       \* "set": all or nothing, "each": one by one, "one": a single
                \* key, "loose": a single key that is not synchronised
    holder,     \* whose key each name stands for
    safe,       \* the same after a power failure
    status,     \* how far each call is, and its answer once it is over
    losses      \* power failures

vars == <<kind, holder, safe, status, losses>>

Init ==
    /\ kind \in {"set", "each", "one", "loose"}
    /\ holder = [n \in Name |-> Nobody] /\ safe = holder
    /\ status = [c \in Client |-> "idle"]
    /\ losses = 0

Become(c, s) == status' = [status EXCEPT ![c] = s]

Ask(c) ==
    /\ status[c] = "idle" /\ \E s \in {"working", "read"} : Become(c, s)
    /\ UNCHANGED <<kind, holder, safe, losses>>

Place(c) == \E n \in Name :
    /\ status[c] = "working"
    /\ holder[n] = Nobody /\ holder' = [holder EXCEPT ![n] = c]
    /\ UNCHANGED <<kind, safe, status, losses>>

\* The single key goes with the answer, keys of a set before it.
Withdraw(c) == \E n \in Name :
    /\ status[c] = "working"
    /\ holder[n] = c /\ holder' = [holder EXCEPT ![n] = Nobody]
    /\ \/ kind = "set" /\ (\E m \in Name : holder[m] # c) /\ UNCHANGED status
       \/ kind = "one" /\ Become(c, "unclear")
    /\ UNCHANGED <<kind, safe, losses>>

\* When "ok" is true, with safe as the answer leaves it.
Succeeded(c) ==
    CASE kind = "set" -> \A n \in Name : holder[n] = c /\ safe'[n] = c
      [] kind = "each" -> /\ \A n \in Name : holder[n] = c => safe'[n] = c
                          /\ losses = 0 => \A n \in Name : holder[n] # Nobody
      [] kind = "one" -> \E n \in Name : holder[n] = c /\ safe'[n] = c
      [] kind = "loose" -> \E n \in Name : holder[n] = c

\* A call may fail without having begun.
Answer(c) ==
    /\ status[c] \in {"idle", "working"}
    /\ \/ Become(c, "ok") /\ status[c] = "working" /\ Succeeded(c)
       \/ Become(c, "failed") /\ \A n \in Name : holder[n] # c /\ safe'[n] # c
       \/ Become(c, "unclear")
       \/ Become(c, "killed") /\ status[c] = "working"
    /\ UNCHANGED <<kind, holder, losses>>

\* All names are synchronised, or the system writes back one of them.
Settled == safe' \in {safe, holder} \cup {[safe EXCEPT ![n] = holder[n]] : n \in Name}

Settle == Settled /\ UNCHANGED <<kind, holder, status, losses>>

Disturb ==
    /\ \E n \in Name, f \in Foreign :
         holder[n] = Nobody /\ holder' = [holder EXCEPT ![n] = f]
    /\ UNCHANGED <<kind, safe, status, losses>>

Lose ==
    /\ losses' = losses + 1
    /\ holder' = safe
    /\ status' = [c \in Client |-> IF status[c] = "working" THEN "killed" ELSE status[c]]
    /\ UNCHANGED <<kind, safe>>

Next ==
    \/ \E c \in Client : Ask(c) \/ Place(c) \/ Withdraw(c) \/ (Settled /\ Answer(c))
    \/ Settle \/ Disturb \/ Lose

Spec == Init /\ [][Next]_vars
=============================================================================

--------------------------- MODULE ReplacePromise ---------------------------
(***************************************************************************)
(* What replacing a file in place promises its callers, without names,     *)
(* temporary files or renames (the doc comments of encrypt_in_place in     *)
(* otp1 and otp2, EncryptOutcome, and the exit statuses of their mains).   *)
(*                                                                         *)
(* A call takes effect at most once and at one moment: the file then shows *)
(* the image of a content it had while the call ran.  "error" is answered  *)
(* only by a call that never took and never will take effect; "committed"  *)
(* only by one that did (or one whose staged output somebody swapped), and *)
(* from then on a power failure keeps what the file shows;                 *)
(* "uncertain" (exit status 3) promises nothing.                           *)
(***************************************************************************)
CONSTANTS
    Client,         \* calls
    Whole,          \* contents somebody else may write
    Turns(_, _)     \* Turns(c, d): d is an image of c

VARIABLES
    shown,          \* what the file shows
    safe,           \* what it shows after a power failure
    phase,          \* "idle", "working", "applied", "displaced", "over"
    view,           \* the content a call found
    answer          \* what a call reported

vars == <<shown, safe, phase, view, answer>>

Init ==
    /\ shown \in Whole
    /\ safe = shown
    /\ phase = [c \in Client |-> "idle"]
    /\ view = [c \in Client |-> shown]
    /\ answer = [c \in Client |-> "none"]

Ask(c) ==
    /\ phase[c] = "idle"
    /\ phase' = [phase EXCEPT ![c] = "working"]
    /\ view' = [view EXCEPT ![c] = shown]
    /\ UNCHANGED <<shown, safe, answer>>

\* A call that finds the file unsuitable.
Refuse(c) ==
    /\ phase[c] = "idle"
    /\ phase' = [phase EXCEPT ![c] = "over"]
    /\ view' = [view EXCEPT ![c] = shown]
    /\ answer' = [answer EXCEPT ![c] = "error"]
    /\ UNCHANGED <<shown, safe>>

Apply(c) ==
    /\ phase[c] = "working"
    /\ phase' = [phase EXCEPT ![c] = "applied"]
    /\ Turns(view[c], shown')
    /\ UNCHANGED <<safe, view, answer>>

\* Somebody swapped the staged output, and the call put his file in place.
Displace(c) ==
    /\ phase[c] = "working"
    /\ phase' = [phase EXCEPT ![c] = "displaced"]
    /\ shown' \in Whole
    /\ UNCHANGED <<safe, view, answer>>

Answer(c) == \E r \in {"committed", "uncertain", "error", "verified", "killed"} :
    /\ phase[c] \in {"working", "applied", "displaced"}
    /\ phase' = [phase EXCEPT ![c] = "over"]
    /\ answer' = [answer EXCEPT ![c] = r]
    /\ r \in {"error", "verified"} => phase[c] # "applied"
    /\ r = "committed" => phase[c] # "working" /\ safe' = shown
    /\ safe' \in {safe, shown}
    /\ UNCHANGED <<shown, view>>

\* Somebody else writes the file.
Edit ==
    /\ shown' \in Whole
    /\ safe' \in {safe, shown'}
    /\ UNCHANGED <<phase, view, answer>>

Lose ==
    /\ shown' \in {shown, safe}
    /\ safe' = shown'
    /\ phase' = [c \in Client |-> IF phase[c] = "idle" THEN "idle" ELSE "over"]
    /\ answer' = [c \in Client |->
                    IF phase[c] \in {"idle", "over"} THEN answer[c]
                                                     ELSE "killed"]
    /\ UNCHANGED view

Next ==
    \/ \E c \in Client : Ask(c) \/ Refuse(c) \/ Apply(c) \/ Displace(c) \/ Answer(c)
    \/ Edit \/ Lose

Spec == Init /\ [][Next]_vars
=============================================================================

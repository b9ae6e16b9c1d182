----------------------------- MODULE OtpPromise -----------------------------
(***************************************************************************)
(* What the otp tool promises about pad use, without files, locks, markers *)
(* or processes: the abstract specification that OtpPad implements.        *)
(*                                                                         *)
(* A key is one use of one pad through one state directory.  A key is      *)
(* reserved, at most once published, and a reservation is only forgotten   *)
(* while nothing has been published with it.                               *)
(***************************************************************************)
CONSTANTS
    Dir,        \* state directories
    Retained,   \* those that are kept for the lifetime of the pads
    Use,        \* <<identifier, role>>
    Message

VARIABLES
    reserved,   \* keys that have been claimed
    published   \* every output ever published: [key, msg]

Key == [dir : Dir, use : Use]
Output == [key : Key, msg : Message]

Published(k) == \E o \in published : o.key = k

PromiseInit == reserved = {} /\ published = {}

\* A command claims a key nobody holds.
Reserve(k) ==
    /\ k \notin reserved
    /\ reserved' = reserved \cup {k}
    /\ UNCHANGED published

\* The holder of a claim publishes; through a retained directory, only once.
\* What a receiver publishes is what a sender published before.
Publish(k, m) ==
    /\ k \in reserved
    /\ k.dir \in Retained => ~Published(k)
    /\ k.use[2] = "receiver" =>
           \E o \in published : o.key.use = <<k.use[1], "sender">> /\ o.msg = m
    /\ published' = published \cup {[key |-> k, msg |-> m]}
    /\ UNCHANGED reserved

\* A power failure forgets claims that were not on disk yet.
Forget ==
    /\ \E K \in SUBSET reserved :
          /\ \A k \in K : k.dir \in Retained => ~Published(k)
          /\ reserved' = reserved \ K
    /\ UNCHANGED published

PromiseNext ==
    \/ \E k \in Key : Reserve(k)
    \/ \E k \in Key, m \in Message : Publish(k, m)
    \/ Forget

Promise == PromiseInit /\ [][PromiseNext]_<<reserved, published>>
=============================================================================

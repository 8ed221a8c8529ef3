---------------------------- MODULE FileDelivery ----------------------------
(***************************************************************************)
(* What a transfer promises, with no packets in it: chunks of the file     *)
(* come into being at the destination, and each end gives one verdict.  A  *)
(* success on either side means the whole file is there.  A verdict is     *)
(* never revised, and after the daemon's the file does not change.         *)
(***************************************************************************)
CONSTANTS
    File,         \* the chunks of the source file
    Before        \* the chunks the destination holds without being sent any

VARIABLES
    stored,       \* chunks at the destination
    sender,       \* "busy", "ok", "error"
    daemon        \* "busy", "ok", "error"

vars == <<stored, sender, daemon>>

Init == stored = Before /\ sender = "busy" /\ daemon = "busy"

Store(c) ==
    /\ daemon = "busy" /\ c \in File
    /\ stored' = stored \cup {c}
    /\ UNCHANGED <<sender, daemon>>

SenderOk ==
    /\ sender = "busy" /\ stored = File
    /\ sender' = "ok"
    /\ UNCHANGED <<stored, daemon>>

SenderError ==
    /\ sender = "busy" /\ sender' = "error"
    /\ UNCHANGED <<stored, daemon>>

DaemonOk ==
    /\ daemon = "busy" /\ stored = File
    /\ daemon' = "ok"
    /\ UNCHANGED <<stored, sender>>

\* The daemon may only fail a transfer that lacks something, unless nothing had
\* to be sent at all: then it has no packet to conclude from.
DaemonError ==
    /\ daemon = "busy" /\ (stored # File \/ Before = File)
    /\ daemon' = "error"
    /\ UNCHANGED <<stored, sender>>

Next ==
    \/ \E c \in File : Store(c)
    \/ SenderOk \/ SenderError
    \/ DaemonOk \/ DaemonError

Spec == Init /\ [][Next]_vars
=============================================================================

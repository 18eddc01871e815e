------------------------------- MODULE EventFeed -------------------------------
(***************************************************************************)
(* What the control API promises a client of StreamEvents: a lossy feed.   *)
(* Of the events published after it joined, the client gets some of those  *)
(* whose subject it asked for and which have a wire form, each at most     *)
(* once and in the order of their publication.                             *)
(***************************************************************************)
EXTENDS Integers, Sequences

CONSTANTS
  Clients,
  Kinds,      \* subjects of events
  Typed,      \* the subjects with a payload of the wire schema
  Wants       \* Wants[c]: the subjects client c's prefix matches

VARIABLES
  log,        \* every event published, as its subject
  since,      \* since[c]: events published before c joined, or Absent
  got         \* got[c]: positions in log of what c received

Absent == -1

Last(s) == IF s = <<>> THEN 0 ELSE s[Len(s)]

Init == /\ log = <<>>
        /\ since = [c \in Clients |-> Absent]
        /\ got = [c \in Clients |-> <<>>]

Publish == /\ \E k \in Kinds : log' = Append(log, k)
           /\ UNCHANGED <<since, got>>

Join(c) == /\ since[c] = Absent
           /\ since' = [since EXCEPT ![c] = Len(log)]
           /\ UNCHANGED <<log, got>>

Deliver(c) ==
  /\ since[c] # Absent
  /\ \E n \in 1 .. Len(log) :
       /\ n > since[c]
       /\ n > Last(got[c])
       /\ log[n] \in Wants[c] \cap Typed
       /\ got' = [got EXCEPT ![c] = Append(@, n)]
  /\ UNCHANGED <<log, since>>

Next == Publish \/ \E c \in Clients : Join(c) \/ Deliver(c)

Spec == Init /\ [][Next]_<<log, since, got>>
================================================================================

------------------------------ MODULE Timeline ------------------------------
(***************************************************************************)
(* What delivery promises to the clients of a node: all see the messages   *)
(* of their room in the one order in which Redis published them, none      *)
(* twice, and none of another room.  It does not promise that they see     *)
(* each of them.                                                           *)
(***************************************************************************)
EXTENDS Naturals, Sequences

CONSTANTS Client, Room, None

VARIABLES
  log,    \* the rooms of the messages published, oldest first; a message is its index
  room,   \* per client: its room, or None
  shown   \* per client: the messages it was shown since it entered, oldest first

vars == <<log, room, shown>>

Init ==
  /\ log = <<>>
  /\ room = [c \in Client |-> None]
  /\ shown = [c \in Client |-> <<>>]

Publish(r) ==
  /\ log' = Append(log, r)
  /\ UNCHANGED <<room, shown>>

Enter(c, r) ==
  /\ room[c] = None
  /\ room' = [room EXCEPT ![c] = r]
  /\ UNCHANGED <<log, shown>>

Leave(c) ==
  /\ room' = [room EXCEPT ![c] = None]
  /\ shown' = [shown EXCEPT ![c] = <<>>]
  /\ UNCHANGED log

(* A message of the client's room that is later than all it was shown. *)
Show(c, i) ==
  /\ log[i] = room[c]
  /\ \A j \in DOMAIN shown[c] : shown[c][j] < i
  /\ shown' = [shown EXCEPT ![c] = Append(@, i)]
  /\ UNCHANGED <<log, room>>

Next ==
  \/ \E r \in Room : Publish(r) \/ \E c \in Client : Enter(c, r)
  \/ \E c \in Client : Leave(c) \/ \E i \in DOMAIN log : Show(c, i)

Spec == Init /\ [][Next]_vars

=============================================================================

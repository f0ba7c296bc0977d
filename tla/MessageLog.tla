----------------------------- MODULE MessageLog -----------------------------
(***************************************************************************)
(* What the message writer promises to the nodes that listen on the        *)
(* messages_delivered channel: a message it took is announced at most      *)
(* once, and announcements follow the order in which messages were taken.  *)
(* It does not promise that every message is announced: it may forget the  *)
(* oldest ones.                                                            *)
(***************************************************************************)
EXTENDS Naturals, Sequences

CONSTANT Msg

VARIABLES
  known,   \* the messages taken so far
  inbox,   \* those neither announced nor forgotten, oldest first
  feed     \* the announcements, oldest first

vars == <<known, inbox, feed>>

Init == known = {} /\ inbox = <<>> /\ feed = <<>>

Accept(m) ==
  /\ m \notin known
  /\ known' = known \cup {m}
  /\ inbox' = Append(inbox, m)
  /\ UNCHANGED feed

Announce ==
  /\ inbox # <<>>
  /\ feed' = Append(feed, Head(inbox))
  /\ inbox' = Tail(inbox)
  /\ UNCHANGED known

Forget(n) ==
  /\ n <= Len(inbox)
  /\ inbox' = SubSeq(inbox, n + 1, Len(inbox))
  /\ UNCHANGED <<known, feed>>

Next ==
  \/ \E m \in Msg : Accept(m)
  \/ Announce
  \/ \E n \in 1..Len(inbox) : Forget(n)

Spec == Init /\ [][Next]_vars

=============================================================================

------------------------------- MODULE MCRooms -------------------------------
(* Small instances of Rooms.  Room objects are alike, and so are clients. *)
EXTENDS Rooms, TLC

Symmetric == Permutations(Room) \cup Permutations(Client)

=============================================================================

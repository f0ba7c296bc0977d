\* Racing edits and a deletion, one call that fails or event that is lost.
CONSTANTS
  Node = {n1, n2}
  Edit = {e1, e2, e3}
  Delete = {d1}
  Foreign = {e3}
  Original = Original
  Gone = Gone
  Nothing = Nothing
  MaxConcurrent = 3
  MaxFaults = 1
SPECIFICATION FairSpec
CHECK_DEADLOCK FALSE
INVARIANTS IInv NodesAgree ClientsFollow
PROPERTIES DeleteIsFinal 

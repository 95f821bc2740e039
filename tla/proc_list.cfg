SPECIFICATION Spec
CONSTANTS
  Pid <- MC_Pid
  MAX_PROC_LISTS = 3
  Starting <- MC_Starting
  nil = nil
INVARIANTS TypeOK ListsDisjoint OneNodePerSender CasMeetsNode
PROPERTY ImplementsQueues
CHECK_DEADLOCK FALSE

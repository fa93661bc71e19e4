SPECIFICATION Spec
CONSTANTS
  ZeroCopyEnv = TRUE
  Edited <- MCEdited
  MaxEdits = 1
  NoArg = NoArg
  Surrounds = {8}
  Asked = {NoArg, 4}
  Configured = {NoArg, 1, 2500}
INVARIANTS
  PipelineInv
  

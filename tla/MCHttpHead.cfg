SPECIFICATION FairSpec
CONSTANTS
  Inputs <- MCInputs
  Dirty = {TRUE, FALSE}
INVARIANTS TypeOK ElementsInside ExactForwarded ElementsAgree HostLengths SendResult
PROPERTY HeadsForwarded

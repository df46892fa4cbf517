SPECIFICATION Spec
CONSTANTS
  Lines <- SevenAddresses
  MinHosts = 1
  ProberCnt = 2
  NamesCnt = 1
  Limits = {0, 2}
  Blacklist = {1}
  RecordsOf <- Locations
  OriginsOf <- Origins
  Filters = {"EU"}
  MetaMax = 2
  HandWritten <- ThreeWrongLists
  BufSizes = {3, 10}
  Counts = {4}
CHECK_DEADLOCK FALSE
INVARIANTS
  FilesAreDealt
  WithinLimit
  NeverInvents
  ReadsBack
  

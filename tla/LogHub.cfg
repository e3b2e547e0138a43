SPECIFICATION FairSpec
CONSTANTS
  Clients = {k1}
  Containers = {c1, c2}
  Streams = {s1, s2}
  Chans = {h1}
  NoContainer = NoContainer
  NoStream = NoStream
  NoChan = NoChan
  Buffer = 1
  Changes = {"exit", "stop", "recreate", "config", "delete"}
  MaxLines = 1
  MaxChanges = 1
  Leaves = {"unsubscribe", "disconnect"}
CHECK_DEADLOCK FALSE
INVARIANTS TypeOK NoLineIsLost
PROPERTIES LinesArrive

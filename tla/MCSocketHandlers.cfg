SPECIFICATION Spec
CONSTANTS
  tcp = tcp
  udp = udp
  noDelay = noDelay
  keepAlive = keepAlive
  Sockets <- MCSockets
  UDP <- MCUDP
  Configured <- MCUDP
  Flags <- MCFlags
  Durations <- MCDurations
  IntMax = 32767
  Jiffy = 10
  MaxStreams = 3
  Blocks = 2
INVARIANTS OneOwner SentInOrder OptionsInForce
PROPERTIES FailedLetsGo
CHECK_DEADLOCK FALSE

SPECIFICATION FairSpec
CONSTANTS
  Conns = {c1, c2}
  BodyLength = 4
  NoConn = NoConn
INVARIANT
  ReadInv
PROPERTIES
  AnsweredOnce
  SentRequestsEnd

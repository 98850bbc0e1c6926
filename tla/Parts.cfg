CONSTANTS
  KeepTurns = 2
  MaxLen = 7
  Sessions = {"default", "other"}
  Null = Null
  None = None
  Chats = {"chat1", "chat2"}
  Tasks = {"task"}
  Silent = {2}
  Replies <- ThreeReplies
  Names = {1, 2, 3}
  Shipped <- TwoShipped
  Packs <- FourPacks
  Bodies <- TwoBodies
  Msgs = {1, 2, 3, 4}
  ChatOf <- OfChat
  Kind <- OfKind
  Anonymous = {3}
  Durations = {0, 1, 4, 5}
  ChunkSec = 2
  Concurrency = 2
  BadNames = {3}
  MaxSeen = 1
  MaxQueue = 1
  MaxEvents = 5
  MaxArrivals = 5
  MaxWaiting = 1
SPECIFICATION Spec
INVARIANTS
  FoldKeepsNewestTurns
  EventsSurviveTheWire DamagedFramesAreRead InboundReachesItsSession
  LastReplyIsWhole AnnouncedOnce
  CutIsWhole TranscriptTellsAll FinalStays TextIsShown
PROPERTIES RefusedChangesNothing StartKeepsEdits
CHECK_DEADLOCK FALSE

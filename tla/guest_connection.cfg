\* One stream and one other call with the Destroy, room for one frame, three chunks.
SPECIFICATION FairSpec
CONSTANTS
  Streamers = {c1}
  Others = {c2}
  Destroyer = Destroyer
  NoCall = NoCall
  Room = 1
  MaxChunks = 3
INVARIANTS OwnAnswer OutputOrNote
PROPERTIES CallsEnd
CHECK_DEADLOCK FALSE

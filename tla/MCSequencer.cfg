SPECIFICATION SeqLiveSpec
CONSTANT Songs <- MCSongs
INVARIANTS InBounds StopIsAnEnd
PROPERTIES NoReplayBeforeReport EndIsSticky UpdateReturns SongEnds
CHECK_DEADLOCK FALSE

SPECIFICATION FairSpec
CONSTANTS
  Publishers = {p1, p2}
  Viewers = {v1}
  ChannelSize = 1
  HistoryLimit = 2
  MaxActivities = 3
INVARIANTS NoSendOnClosedChannel MonitorMatchesLog
PROPERTIES BroadcastsEnd GoneViewersLeave

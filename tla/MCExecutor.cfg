SPECIFICATION FairSpec
CONSTANTS
  Tasks = {keyboard, mouse, finite}
  NoTask = NoTask
  Ending = {finite}
  ChannelCap = 1
  TaskQueueCap = 9
  MaxEvents = 2
INVARIANTS TypeOK NoLostWakeup SleepsOnlyWhenDrained ParkedIsWakeable
PROPERTIES DeliversEvents

CONSTANTS
  c1 = c1
  c2 = c2
  nobody = nobody
  news = news
  sport = sport
  Clients = {c1, c2}
  Nobody = nobody
  Channels = {news, sport}
  MaxCommands = 3
SPECIFICATION FairSpec
INVARIANTS SubscriptionsAgree NoLostWakeup
PROPERTIES DeliveredInOrder FramesSent
CHECK_DEADLOCK FALSE

CONSTANTS
  h1 = h1
  h2 = h2
  d1 = d1
  d2 = d2
  u1 = u1
  u2 = u2
  PqChoices = {1, 2, 3}
  MaxSends = 4
  FbUsers = {u1, u2}
  FbMe = u1
  FbMarks = {2, 5}
  FbFlights = {1, 2}
  FbMaxClicks = 3
  Halls = {h1, h2}
  MaxDrops = 3
  Days = {d1, d2}
  HallCounts = {1, 2, 3, 5}
  PrHalls = {h1, h2}
  PrLast = 4
  PrSlots = {1, 3}
  PrGrace = 2
  Slides = 3
  Backdrops = {1, 2, 3, 4, 5, 6}
  MaxHurry = 2
  Panels = {1, 2, 3}
  Items = 3
  MaxQueue = 2
  MaxLeaks = 2
  CyN = 3
  CyMaxClicks = 3
  CyShows <- MCShows
  MaxFades = 3
SPECIFICATION ScriptSpec
INVARIANTS TypeOK AnswerIsOfChoice MarksCountOnce SavedAsShown ColumnsAreAPage PhoneButtons NoRunningHidden CSOneSlideshow OneSlideShown ModalSettles OnePanelOpen WaitingToIsWoken CyOneTimeout TipFollows
PROPERTIES EverySlideShown ModalHides CyKeepsGoing
CHECK_DEADLOCK FALSE

CONSTANTS
  l1 = l1
  l2 = l2
  s1 = s1
  s2 = s2
  Me = me
  Lectures = {l1, l2}
  Sections = {s1, s2}
  Users = {me, other}
  Popular = {l1}
  Requests = {r1, r2}
  MaxClicks = 2
  SectionOf <- MCSectionOf
SYMMETRY Symmetry
SPECIFICATION Spec
INVARIANTS TypeOK CounterIsRows OneVoteEach ListShowsVotes ScheduleShowsChoice
CHECK_DEADLOCK FALSE

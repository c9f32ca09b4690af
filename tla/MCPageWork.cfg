\* Two observations, an action and an opening on one open tab and one that can be opened.
SPECIFICATION PageSpec
CONSTANTS
  Jobs = {o1, l1, l2, a1}
  OpenJobs = {o1}
  Looks = {l1, l2}
  Acts = {a1}
  Tabs = {t1, t2}
  OldTabs = {t1}
  Concurrency = 2
  Capacity = 3
  MaxSnapshots = 1
  OpenLane = OpenLane
  NoJob = NoJob
  NoTab = NoTab
SYMMETRY PageSymmetry
CHECK_DEADLOCK FALSE
INVARIANTS
  SchedulerInv
  ObservationsAreFresh
  PageInv
PROPERTIES
  StartsInOrder
  CanceledNeverStarts

\* Two commands on a tab, one accepted while the tab was opening.
SPECIFICATION Spec
CONSTANTS
  Jobs = {o1, j1, j2}
  OpenJobs = {o1}
  Tabs = {t1}
  OldTabs = {}
  Concurrency = 2
  Capacity = 3
  OpenLane = OpenLane
  NoJob = NoJob
  NoTab = NoTab
CHECK_DEADLOCK FALSE
INVARIANTS
  TabSerial

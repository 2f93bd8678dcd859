SPECIFICATION FairSpec
CONSTANTS
  t1 = t1
  t2 = t2
  Task <- MCTask
  XTask = {}
  Null = Null
  Main = Main
  Delays = {1}
  PollTimeouts = {1}
  MaxTime = 1
PROPERTIES ReadyRuns SleeperResumes PollerResumes

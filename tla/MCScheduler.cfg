SPECIFICATION Spec
CONSTANTS
  t1 = t1
  t2 = t2
  Task <- MCTask
  XTask <- MCXTask
  Null = Null
  Main = Main
  Delays = {1}
  PollTimeouts = {0, 2}
  MaxTime = 2
INVARIANTS TypeOK BagsAgree Nesting StoppedOnce OneAnswer EnvRestored
PROPERTIES NoOversleep TaskLife

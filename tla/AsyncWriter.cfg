SPECIFICATION FairSpec
CONSTANTS
  main = main
  render = render
  Producers = {main, render}
  kMaxQueue = 4
  MaxJobs = 9
INVARIANT TypeOK
INVARIANT NoLostWakeup
INVARIANT OnePlace
PROPERTY DrainSettles
PROPERTY ImplementsQueue
PROPERTY DrainReturns

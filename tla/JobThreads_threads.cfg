SPECIFICATION FairSpec
CONSTANTS
  MaxThreads = 3
  MaxLength = 3
  Delays <- MCDelays
  Jobs <- MCJobs
  MaxFaults = 1
INVARIANTS
  TypeOK EachCommandOnce BarrierSeparates NoStaleDelay NoThreadLeft
PROPERTY
  JobCompletes

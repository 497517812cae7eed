SPECIFICATION FairSpec
CONSTANTS
  Runs = {b1}
  MaxRows = 2
  Findings <- SafeAndUnsupported
  Retention = 0
  ShortRetention = 1
  ByAge = byAge
  MaxFaults = 1
  Exports = {x1}
  ExportTtl = 0
  Processes = {p1}
  MaxClock = 1
INVARIANTS TypeOK CompletedRunsAreTrue ErrorsHaveCauses
PROPERTIES TicksDoTheirJobs

SPECIFICATION DbSpec
CONSTANTS
  api = api
  runner = runner
  rehearsal = rehearsal
  Processes = {api, runner, rehearsal}
  DryRuns = {rehearsal}
  Writes <- MCWrites
  MaxDrops = 2
CHECK_DEADLOCK FALSE
INVARIANTS
  SchemaIsSerialised
PROPERTIES
  KeepsPromise
  EveryoneEnds

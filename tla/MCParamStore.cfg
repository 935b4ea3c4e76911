SPECIFICATION Spec
CONSTANTS
  Words = 3
  PidWord = 2
  FilterWord = 3
  Sets = {run, stop}
  Working = {run}
  Gains <- MCGains
  Zero = Zero
  Erased = Erased
  run = run
  stop = stop
  Codes = {"set", "init", "flash"}
  Callbacks = {"motor_set_params_cb", "motor_init_params_cb", "motor_flash_params_cb"}
  Firmwares <- MCFirmwares
  MAX_EVENT_CHAIN = 3
  Velocities <- MCVelocities
  Elapsed = {0, 1, 400, 600}
  MaxStreak = 5
INVARIANTS
  TypeOK
  ReportedIsInFlash
  StopsWhileResetting
  ReportsWhatRuns
  WithinLimit
  ResetRestoresNumbers
  FollowsError
  RunsWhatWasRegistered

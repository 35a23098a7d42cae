CONSTANTS
  hook1 = hook1
  timer = timer
  Handlers <- OneHook
  Syncs <- OneTimer
  Timer = timer
  MaxEdits = 2
  MaxAwbs = 2
SPECIFICATION ImportFairSpec
INVARIANTS HandledOnce
PROPERTIES NewShipmentSurvives UpToDateAgain CancellationHeard

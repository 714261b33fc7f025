CONSTANTS
  Count = 3
  Timings = {"even", "long"}
  NoTiming = NoTiming
  TimingOf <- FirstDiffers
  Shown = {"upright", "cropped"}
  Unreadable = Unreadable
  AsRecorded = "upright"
  Foreign = Foreign
  Zero = Zero
  MaxEdits = 2
SPECIFICATION Spec
INVARIANTS ClipIsOfTheRecording ForeignFramesAreTampering CreditIsEarned CuttingIsNotAccused OriginalStands
CHECK_DEADLOCK FALSE

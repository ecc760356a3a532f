CONSTANTS
  Artifacts <- MCArtifacts
  Controls = {"rootRet", "entryEnd"}
  MaxClicks = 3
SPECIFICATION Spec
INVARIANTS SettledPageShowsTheLastRun ChangedSettingsReachTheRun
PROPERTY EveryRunIsAnswered

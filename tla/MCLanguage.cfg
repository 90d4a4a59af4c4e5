CONSTANTS
  Fibers = {b1, b2}
  Functions <- MCFunctions
  Mains <- MCMains
  Sites <- MCSites
  Width = 2
  MaxLength = 13
  MaxForks = 1
  MapWidth = 4
  Levels = 4
  Keys <- MCKeys
  Hash <- MCHash
  Values = {x, y}
  Missing = Missing
SPECIFICATION LanguageSpec
INVARIANTS RunsAsWritten FramesNest VersionsKeepContents IterationVisitsAll MapIsFunction ThrowsOnCollision
CHECK_DEADLOCK FALSE

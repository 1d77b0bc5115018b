\* Two builds with two targets, one worker, a queue of one, one cancel, one crash.
SPECIFICATION FairSpec
CONSTANTS
  Builds = {b1, b2}
  Targets = {local, ghcr}
  Workers = {w1}
  Cancels = {c1}
  NoBuild = NoBuild
  QueueSize = 1
  MaxCrashes = 1
INVARIANTS NothingForgotten
PROPERTIES FinalUnlessRaced QueueServed

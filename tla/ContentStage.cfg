\* Two hard-linked paths and a third file with the same content, two runs of the stage.
CONSTANTS
  Files = {"a", "b", "c"}
  Inodes = {"i", "j"}
  InodeOf <- MCInodeOf
  HashThreads = {h1, h2}
  BatchSize = 2
  MaxEdits = 1
  MaxFaults = 1
  Objects <- MCContents
  Paths = {"a", "b", "c"}
  Submitters = {s1, s2}
  ArtifactBatch = 2
  MaxSilences = 2
  MaxStarts = 2
SPECIFICATION Spec
INVARIANTS TypeOK LinksAreOfWholeReads NothingDroppedSilently OnlyPoisonedPoolsDie
PROPERTIES ResultsStay StageEnds
CHECK_DEADLOCK FALSE

\* When all jobs are over nothing more happens.
CONSTANTS
  Trees <- MCTrees
  Modules <- MCModules
  Names <- MCNames
  Excluded = {"epyc72"}
  Legacy = {"dsm6"}
  Copies <- MCCopies
  Chosen <- MCChosen
  MaxRuns = 2
  Jobs <- MCJobs
  Asked <- MCAsked
  Listed <- MCListed
SPECIFICATION RefreshFairSpec
INVARIANTS TypeOK RowsMatchPacks PacksLayered OnlyChosenChange ManifestMatchesPack
PROPERTIES BackupHoldsReplaced NeverOlder BecomesCurrent
CHECK_DEADLOCK FALSE

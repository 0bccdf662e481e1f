\* A registry that keeps what a transaction has rolled back.
SPECIFICATION InstitutionsSpec
CONSTANTS
  Curated <- MCCurated
  Syllables <- MCSyllables
  Similar <- MCSimilar
  Districts = {"Jung", "Haeundae"}
  Process = {"w1", "w2"}
  Published <- MCPublished
  MaxAborts = 1
CHECK_DEADLOCK FALSE
INVARIANT KnownIsStored

SPECIFICATION Spec
CONSTANTS
  SpecFile = {"single", "multi"}
  Target = {"x86_64", "i686"}
  TargetsOf <- MCTargetsOf
  Key = {"gpg", "updates"}
  SignedBy <- MCSignedBy
  Broken = {"single"}
  EditsInBuild = FALSE
  Reverts = FALSE
  MaxText = 2
  MaxRuns = 3
INVARIANTS
  ChecksumMeansBuilt
  DoneMeansBuilt
  DoneMeansBroken
CHECK_DEADLOCK FALSE

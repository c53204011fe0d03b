SPECIFICATION FairSpec
CONSTANTS
  LsuOps <- Accesses
  FetchOps <- Fetches
  FabricDrive = {"idle", "ram", "void"}
  Timeout = 3
INVARIANTS TypeOK AnswersReturnToSender ErrorsHaveCause StrobesFarApart
PROPERTIES IsBusService WatchedAccessEnds FabricServed

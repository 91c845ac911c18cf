CONSTANTS
  Limit = 40
  MaxRecursion = 200
  Loaded <- MCLoaded
  Meant <- MCMeant
SPECIFICATION Spec
INVARIANTS FramesFit UpvaluesOrdered MeansWhatItSays
PROPERTIES ProgramEnds

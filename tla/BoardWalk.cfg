SPECIFICATION Walk
CONSTANTS
  Size = 5
  MaxMarked = 5
INVARIANTS
  SummariesAgree
  FreeCentreSavesOneCell
  ClientMirrorsServer
PROPERTY
  OneClickOneStep

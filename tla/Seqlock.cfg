SPECIFICATION FairSpec
CONSTANTS
  Words <- MCWords
  HeaderWord <- MCHeaderWord
  SeqMod = 6
  MaxTries = 2
  MaxPubs = 4
INVARIANTS
  TypeOK
  NoTornCommand
  CompleteIsReadable
PROPERTIES
  ImplementsRegister
  PublishedIsLatched

\* Power cycles and flash errors between any two words, of add, delete and clean_all.
SPECIFICATION Spec
CONSTANTS
  k1 = k1  k2 = k2  v1 = v1  v2 = v2  r1 = r1
  Keys = {k1, k2}
  Values = {v1, v2}
  Content <- MCContent
  WordSize = 2  ErasedByte = 255  PadByte = 0
  Readers = {r1}
  Lost = Lost
  NodeCount = 2
  DataSize = 5
  MayCrash = TRUE
  MayClean = TRUE
  FlashMayFail = TRUE
INVARIANTS
  TypeOK
  ExtentsDisjoint
  SpaceAccounted
PROPERTIES
  MapSpec
  ProgramsErasedWords
  SpansAreStable
  DeletedIsGone
  AddedIsFoundUnlessTorn

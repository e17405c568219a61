SPECIFICATION Spec
CONSTANTS
  Entries = 2
  Ppns = 8
  Ram = {0, 1}
  Rom = {2}
  Values <- McValues
  Image <- McImage
  Roots = {0, 2}
  MaxStores = 2
INVARIANTS TypeOK PagesTranslate RomKept DirtyKept
PROPERTIES LoadsMoveNothing

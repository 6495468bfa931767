SPECIFICATION PagesSpec
CONSTANTS
  Assets = {f1, f2}
  NoAsset = NoAsset
  File = File
  Resources = {r1}
  Raws <- RawsSent
  Texts <- TextsUsed
  NewIds <- IdsGiven
  Ids = {1, 2, 3}
  Cases <- WalksChecked
  Asked = {0, 3}
  DefaultSize = 1
  MaxSize = 2
  MaxWrites = 2
  MaxPage = 6
  MaxOthers = 1
SYMMETRY Symmetry
INVARIANTS
  RowHasItsBytes
  StoredQuestionsCanBeGraded
  SavingAgainChangesNothing
  WalkShowsTheList
  OffersAreKept
CHECK_DEADLOCK FALSE

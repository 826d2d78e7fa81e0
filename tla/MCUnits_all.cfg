SPECIFICATION Spec
INVARIANTS TypeOK LostOnlyInMemory InOrder NothingVanishes GraphFollowsEvents
INVARIANTS CloseStores OnlyWriterRepeats CursorCovers EmittedOnceAndWhole
INVARIANTS RunsWhatWasChecked TakenIsTried
PROPERTIES RecordsProcessed EventuallyStored CatchesUp
CHECK_DEADLOCK FALSE

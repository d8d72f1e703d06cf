\* Passes over two universities whose lists change, with one fault.
CONSTANTS
    Words <- Texts
    CodeIn <- CodeCells
    CodeWithin <- CodesAnywhere
    Digits <- DigitTexts
    Blank = ""
    None = None
    NotANumber = NotANumber
    MinCells = 3
    MaxLinks = 2
    Settings <- SomeSettings
    Sites <- AllSites
    HseAnswers <- HsePages
    MaxChanges = 2
    MaxFaults = 1
SPECIFICATION FairSpec
INVARIANTS TypeOK HandedOverIsStored EveryUniversityHasItsTurn
PROPERTIES VisitsAreAtomic ViewLagsOnlyForReturnedLists LoadableIsHandedOver

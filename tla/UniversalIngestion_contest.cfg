\* One page of the Financial University, on which an applicant of a quota stands.
CONSTANTS
    Words <- Texts
    CodeIn <- CodeCells
    CodeWithin <- CodesAnywhere
    Digits <- DigitTexts
    Blank = ""
    None = None
    NotANumber = NotANumber
    MinCells = 3
    MaxLinks = 2
    Settings <- FaSettings
    Sites <- AllSites
    HseAnswers = {}
    MaxChanges = 0
    MaxFaults = 0
SPECIFICATION Spec
INVARIANTS FaConditionsAsPublished

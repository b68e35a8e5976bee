SPECIFICATION Spec
CONSTANTS
    Texts <- SomeTexts
    OldText <- Paragraph
    Extracted <- Concepts
    PerToken = 2
    MaxParent = 4
    ChildSize = 2
    ChildShare = 1
    Modes = {TRUE, FALSE}
    MaxIncidents = 2
INVARIANTS
    TypeOK
    ChunksAreTheText
    AnswersNameTheirDocument
    IndexedIsSearchable
    OneVersionSearchable
    DeletedIsGone
\* Everything may be done.
CHECK_DEADLOCK FALSE

CONSTANTS
    Kinds = {"text", "emph", "heading", "paragraph", "quote"}
    MaxDepth = 4
    MaxEvents = 12
    MaxText = 2
    Limit = 3
SPECIFICATION SummarySpec
INVARIANTS
    SummaryTypeOK
    TitleIsHeading
    PreviewIsParagraph
CHECK_DEADLOCK FALSE

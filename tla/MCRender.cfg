CONSTANTS
    Kinds = {"text", "emph", "paragraph", "list", "quote"}
    MaxDepth = 6
    MaxEvents = 11
    MaxText = 1
SPECIFICATION RenderSpec
INVARIANTS
    RenderTypeOK
    TextsInOrder
    TagsNested
CHECK_DEADLOCK FALSE

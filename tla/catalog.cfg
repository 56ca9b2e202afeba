SPECIFICATION Spec
CONSTANTS
    Chars <- MCChars
    Libraries <- MCLibraries
    Scribbles <- MCScribbles
    Strays <- MCStrays
INVARIANTS
    ParserMeetsGrammar
    CatalogIsWholeOrEmpty
    DiffTellsTheTruth

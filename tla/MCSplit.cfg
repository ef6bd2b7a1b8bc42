CONSTANTS
    MaxLength = 5
    Runes <- SomeRunes
    Contents <- ShortTexts
SPECIFICATION Spec
CHECK_DEADLOCK FALSE
INVARIANT SplitsByTokens
PROPERTY ImplementsTokens

CONSTANTS
    Texts <- MCTexts
    StringKey <- MCStringKey
SPECIFICATION Spec
INVARIANTS
    StreamIsPrefix
    CompleteUnlessBurst
    CompleteOnceDrained

SPECIFICATION Spec
CONSTANTS
    Octets <- MCOctets
    tolower <- MCtolower
    Texts <- MCTexts
INVARIANT
    FindsSubstring
PROPERTY
    Ends

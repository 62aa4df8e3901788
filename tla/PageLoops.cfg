SPECIFICATION Spec
CONSTANTS
    Word = 16
    Starts <- MCStarts
    Addresses <- MCAddresses
    Counts = {0, 1, 2, 3, 4}
INVARIANT LoopsAgree
PROPERTY LoopsEnd

CONSTANTS
    CharWidth = 2
    CharacterSize = 2
    PanelWidth = 6
    PanelHeight = 7
    Word = 64
    Far = 100
    Blank = 0
    MaxPanics = 2
    PanicStart <- MCPanicStart
    AddressArea <- MCAddressArea
    Shape <- MCShape
    BootLine <- MCBootLine
    MIT <- MCMIT
    Roll <- MCRoll
    Panel <- MCPanel
    PanicMode <- MCPanicMode
    Message <- MCMessage
    FrameLines <- MCFrameLines
    ErrorLines <- MCErrorLines
    Address <- MCAddress
    Framebuffers <- MCFramebuffers
SPECIFICATION Spec
INVARIANTS WritesInBounds PanicReadable KmainReadable
CHECK_DEADLOCK FALSE

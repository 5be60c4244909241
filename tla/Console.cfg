CONSTANTS
    VGA_WIDTH = 4
    VGA_HEIGHT = 4
    MAX_LINE = 6
    MAX_ARGS = 2
    Typed = {"e", "c", " "}
    Prompt <- MCPrompt
    Boot <- MCBoot
    Echo <- MCEcho
    Clear <- MCClear
    Outputs <- MCOutputs
SPECIFICATION Spec
INVARIANTS
    TypeOK
    StatusBarKept
    ScreenShowsLine
    ArgsAreWords
    NumbersReadBack

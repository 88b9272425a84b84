CONSTANTS
    alpha = alpha
    beta = beta
    gamma = gamma
    link = link
    twin = twin
    broken = broken
    text_file = text_file
    no_elf = no_elf
    bare = bare
    none = none
    upper = upper
    rev = rev
    Entries = {alpha, beta, gamma, link, twin, broken, text_file, no_elf, bare, none}
    SoFiles = {alpha, beta, gamma, link, twin, broken, no_elf, bare, none}
    Library <- MCLibrary
    Plugin <- MCPlugin
    Directories <- MCDirectories
    Inputs <- MCInputs
    Letters = 4
    LeetDigits <- MCLeetDigits
    CAP = 7
SPECIFICATION Spec
INVARIANTS UsedInItsLife NothingLeftBehind BuffersApart OutputIsComposition
PROPERTIES Ends
CHECK_DEADLOCK FALSE

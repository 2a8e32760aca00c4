SPECIFICATION FairSpec
CONSTANTS
    BlockRows = 2
    BlockCols = 3
    Height = 2
    Width = 1
    MaxDigit = 4
    Scripts <- MCScripts
    Games <- MCGames
INVARIANTS SudokuRule
PROPERTIES PlacementEnds QuitEnds
CHECK_DEADLOCK FALSE

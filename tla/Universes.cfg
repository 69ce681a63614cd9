\* The S&P 500 and a user's universe of two symbols, over two days: two
\* refresh workflows beside two requests.
SPECIFICATION Spec
CONSTANTS
    Listed = {"sp500"}
    Custom = {}
    User = {"user-mine"}
    Rank <- MCRank
    Symbol = {A, B}
    Job = {j1, j2}
    Client = {c1, c2}
    MaxDay = 2
    MaxChanges = 3
    MaxPatches = 1
SYMMETRY MCSymmetry
PROPERTIES EarlierDaysAreKept ChangeIsAnswered

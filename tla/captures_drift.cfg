SPECIFICATION FlowSpec
CONSTANTS
    Absent = Absent
    Null = Null
    Blank = Blank
    Odd = Odd
    alpha = alpha
    beta = beta
    yes = yes
    obj = obj
    num = num
    plain = plain
    Words = {alpha, beta}
    Flags = {yes}
    Members <- SomeMembers
    Json = {obj, num}
    Objects = {obj}
    Corpora <- DisputedCorpora
    MaxLosses = 1
INVARIANTS
    CanonicalIsStable
CHECK_DEADLOCK FALSE

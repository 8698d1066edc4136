SPECIFICATION Spec
CONSTANTS
    t1 = t1
    t2 = t2
    t3 = t3
    stem = stem
    phrase = phrase
    chart = chart
    us = us
    a1 = a1
    a2 = a2
    a3 = a3
    Term = {t1, t2, t3}
    Prefix = {stem, phrase}
    Chart = {chart}
    Country = us
    Words <- MCWords
    Length <- MCLength
    Tops <- MCTops
    MaxDemand = 1
    MaxObservations = 3
INVARIANT CompletedTogether
CHECK_DEADLOCK FALSE

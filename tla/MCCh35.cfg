CONSTANTS
    Content <- MCContent
    Order <- MCOrder
    NameOf <- MCNameOf
    Trees <- MCTrees
    Scripts <- MCScripts
    JsonOrder <- MCJsonOrder
    OldOutputs <- MCOldOutputs
    MaxRuns = 2
    MaxChanges = 1
    Absent = Absent
    Replacements = {"rich", Absent}
SPECIFICATION Spec
INVARIANTS SummaryIsTrue TriageAgrees FreshResultsWin
PROPERTIES DeathKeepsReports EveryRunEnds
CHECK_DEADLOCK FALSE

CONSTANTS
    None = None
    Programs <- MCPrograms
    Options <- MCOptions
    MaxRuns = 3
SPECIFICATION Spec
INVARIANTS ProgramKept WellMarked ReportedProtected DiffExact SecondStageKept
PROPERTY RunsEnd

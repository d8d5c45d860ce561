\* Both packs, every pair of answers in both rounds.
SPECIFICATION Spec
CONSTANTS
    None = None
    Documents <- MCDocuments
    Drafts <- MCDrafts
    Resolutions <- MCResolutions
    Judgments <- MCJudgments
    AutoResolve = TRUE
INVARIANTS
    FinalIsValid
    MergeIsCautious
    IneligibleEvidenceNeverOptimizes
    CompletedPanelReturns

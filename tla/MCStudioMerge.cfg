CONSTANTS
    lineA = lineA
    lineB = lineB
    lineX = lineX
    lineY = lineY
    Blank = Blank
    None = None
    DiffMatrixLimit = 4
    Generated <- GeneratedAgain
    Typed <- TypedSmall
    Candidates <- CandidatesSmall
    FormattedText <- Tidy
    Secrets <- SecretsSmall
    MaxOps = 2
    SourceFiles <- TwoFiles
    FileText <- TwoTexts
    EarlierDrafts <- OneFile
    TypedSources <- OneTyped
    ProgramIn <- ProgramFound
    CatalogOf <- CasesListed
    MaxSourceOps = 3
    RepairRuns <- TwoRuns
    MaxPresses = 5
SPECIFICATION EditorsSpec
INVARIANT MergeKeepsManual

CHECK_DEADLOCK FALSE

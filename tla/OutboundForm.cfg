SPECIFICATION Spec
CONSTANTS
    Rows <- MCRows
    Inbounds <- MCInbounds
    Texts <- MCTexts
    Networks <- MCNetworks
    Protocols <- MCProtocols
    OtherTags <- MCOtherTags
    NewTags <- MCNewTags
    MaxEdits <- MCMaxEdits
    ImportCost <- MCImportCost
INVARIANTS
    
    UneditedKept
    TabsAgree
    SavedCoherent
    SecurityKept
PROPERTY JsonEditsKept

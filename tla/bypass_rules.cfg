CONSTANTS
    Labels <- SomeLabels
    DefaultBypass <- Defaults
    Texts <- AnyTexts
    Comment <- Hash
    Colons <- SomeColons
    Hosts <- SomeHosts
SPECIFICATION RulesSpec
INVARIANTS
    BypassAsWritten

SPECIFICATION Spec
CONSTANTS
    IdBits = 3
    K = 2
    Target = 0
    Few = 1
    Announces = 2
    MaxAnswers = 2
    Id <- MCId
    Prefix <- MCPrefix
    Distance <- MCDistance
    Fit <- MCFit
    Since <- MCSince
    Instants <- MCInstants
    Tells <- MCTells

CHECK_DEADLOCK FALSE
PROPERTIES AnnouncesToNearest

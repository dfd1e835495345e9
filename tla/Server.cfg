SPECIFICATION Spec
CONSTANTS
    MaxDeviations = 2
    MaxGrants = 2
    MaxEffects = 2
CHECK_DEADLOCK FALSE
INVARIANTS
    EffectsAuthorised
    AuditTruthful
    CatalogueConsistent

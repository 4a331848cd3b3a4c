SPECIFICATION FairSpec
CONSTANTS
  Names = {"a"}
  Mgmt = "mgmt"
  Intents <- RanCoresOrEdge
  ClaimKinds <- NoClaim
  MaxUpsets = 3
INVARIANTS TypeOK MissingVariantNoticed ReadyIsDelivered GnbBacked
PROPERTIES SiteConverges
CHECK_DEADLOCK FALSE

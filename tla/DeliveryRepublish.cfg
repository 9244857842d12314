\* publish_repo is run again for an attempt that is already published.
SPECIFICATION Spec
CONSTANTS
  MaxAttempt = 1
  Variants = {v1, v2}
  NoVariant = NoVariant
  Deliverers = {}
  Publishers = {publisher}
  ByHand = {1}
  MaxFaults = 1
  v1 = v1
  v2 = v2
  d1 = d1
  publisher = publisher
PROPERTY GradedVariantKept
CHECK_DEADLOCK FALSE

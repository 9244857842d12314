\* A delivery and commands by hand, one fault.
SPECIFICATION FairSpec
CONSTANTS
  MaxAttempt = 2
  Variants = {v1, v2}
  NoVariant = NoVariant
  Deliverers = {d1}
  Publishers = {publisher}
  ByHand = {1, 2}
  MaxFaults = 1
  v1 = v1
  v2 = v2
  d1 = d1
  publisher = publisher
INVARIANTS NextAfterFreeze WhatIsSaidIsThere OneDeliveryComment PublishedAsRecorded
PROPERTY Delivered
CHECK_DEADLOCK FALSE

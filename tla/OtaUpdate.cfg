SPECIFICATION Spec
CONSTANTS
  Reasons = {0, 1}
  MaxGeneration = 5
INVARIANTS BootSlotGood ArmedSlotGood FlashBehindRam OtaMirrorAgrees
PROPERTIES HealthyIsFinal ImplementsSafeBoot

\* One report in the page, what overtakes nothing, one of the rarer events.
SPECIFICATION Spec
CONSTANTS
  NumVersions = 3
  MaxEvents = 1 MaxStrays = 0
INVARIANTS ConfirmationIsCurrent FiledAsShown

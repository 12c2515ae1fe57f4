SPECIFICATION Spec
CONSTANTS
  Users = {u1, u2, u3}
  KeyCount = 2
  MaximumRetryAfter = 3
  DefaultCooldown = 2
  MaxVersion = 2
  Outcomes <- MCOutcomes
SYMMETRY Symmetry
INVARIANTS LateSuccessHarmless RetryAfterExact
PROPERTIES CooldownSurvives

SPECIFICATION Spec
CONSTANTS
  Kinds = {"good", "liar", "sealed", "deaf", "mumbles", "ciphertext", "aad",
           "transcript", "forgets", "burns", "strict", "reopens"}
  W = 3
  Rounds = 2
  Origin = 0
  MaxTime = 2
  Cores = {"atomic", "racy", "shy", "lax", "burns", "forgets"}
INVARIANTS
  ExitZeroIsEarned
  NoFalseAlarm
  DefenceIsIsolated
  OneWinnerEach
  NeverStuck
CHECK_DEADLOCK FALSE

SPECIFICATION MakerSpec
CONSTANTS
  Pages = {p, q, foreign, reserved}
  Reserved = {reserved}
  Foreign = {foreign}
  FinalStates = {e1, e2}
  NoStack = {e2}
  Programs <- SmallPrograms
  max_pages_to_add = 2
  RunnerPageLimit = 20
  num_verify_attempts = 2
INVARIANT PlayerResultIsThere

\* Parts of the app and of the integration, each checked on its own.
CONSTANTS
  Parts = {"takeover", "answering", "capture", "modbus", "native", "direct", "shared",
           "repetition", "attribution", "diagnosis", "identification", "options", "app", "reads"}
  A = {a1, a2}
  B = {b1, b2}
  None = None
INIT Init
NEXT Next
SYMMETRY Symmetric
INVARIANTS
  AnswersAreOwnOrLate
  RegistryFollowsSessions
  FramesAreTheStream
  CompletePollIsAccepted
  ShownIsNewest
  OfferedIsTrue
  CloudIsNamedWithProof
  AnsweredByItsOwnRead
  SavesAreKept
  RunsWhatWasSaved
  ChoicesAreKept
  WordsAreAccountedFor
PROPERTY SavedNeverGoesBack
\* The bounds end every part's steps.
CHECK_DEADLOCK FALSE

SPECIFICATION FairSpec
CONSTANTS
  Plain = {"mqtt"}
  Extension = "extension"
  QueueSize = 2
  Silent = {3}
  MaxRecords = 4
INVARIANTS AccountsBalance DeliveredInOrder ExtensionAnswersItsOwnReading
PROPERTIES OthersKeepDelivering
CHECK_DEADLOCK FALSE

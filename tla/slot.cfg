\* A server that asks for the record, refuses it or says nothing, and either
\* reader script.
SPECIFICATION FairSpec
CONSTANTS
  Tags = {t1, t2}
  NoText = NoText
  NULL = NULL
  Answers = {"OK", "NO"}
  MaxPipe = 2
  MaxNow = 3
  MaxErrors = 1
INVARIANTS SlotTypeOK ScreenSeesOpenRecord
PROPERTIES ImplementsPresence MutexGivenBack
\* The process ends with a failed connect or SIGPIPE; the clock is bounded.
CHECK_DEADLOCK FALSE

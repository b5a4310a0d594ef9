SPECIFICATION FairSpec
CONSTANTS
  coap_client = coap_client
  server = server
  ann = ann
  bob = bob
  Contents <- McContents
  RoleHolder <- McRoleHolder
  Forms = {"action", "confirmation", "unexpected"}
  QueueLimit = 2
  MaxMessages = 2
  MaxReplies = 3
INVARIANTS
  NeverBlocksItself
  OnScreenMeansPending
  ShownInOrder
  FiledWithItsTestcase
  VerdictBringsCaptures
PROPERTIES
  KeepsTable
  AllArrives
\* The adaptor may end.
CHECK_DEADLOCK FALSE

CONSTANTS
  Phone = {ana, ben, cid}
  None = None
  MaxStart = 1
  MaxSent = 2
  MaxLost = 1
SPECIFICATION Spec
INVARIANT TypeOK
INVARIANT InvitationInv
INVARIANT CrashNeedsGhost
PROPERTY MeetingSpec
PROPERTY NoLastingGhosts
PROPERTY RequestShown
CHECK_DEADLOCK FALSE

SPECIFICATION LiveSpec
PROPERTY IdleEndsSession

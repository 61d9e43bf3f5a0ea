CONSTANTS
    Uploaders = {u1}
    MaxFaults = 0
SPECIFICATION OtaSpec
PROPERTY MuteImageNotKeptOnceOnline

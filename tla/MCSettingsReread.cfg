\* The server, a user who edits the file, and folders that can always be made.
SPECIFICATION SettingsFairSpec
CONSTANTS
    Processes = {"server"}
    Values = {v1}
    Default = Default
    FoldersFail = FALSE
PROPERTY
    SettingsReread
CHECK_DEADLOCK FALSE

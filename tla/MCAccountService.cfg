CONSTANTS
    i1 = i1
    i2 = i2
    Names <- MCNames
    ValidNames <- MCValidNames
    Emails <- MCEmails
    ValidEmails <- MCValidEmails
    Passwords <- MCPasswords
    Ids <- MCIds

SPECIFICATION Spec

PROPERTY RegisterReportsTaken

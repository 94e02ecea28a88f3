-------------------------- MODULE MCAccountService --------------------------
EXTENDS AccountService

CONSTANTS i1, i2

\* The requests of TestAccountService_Register: "foo" and "bar" with one
\* email, the reserved name, a name nameRegexp refuses, and no name.
MCNames == {"foo", "bar", "create", "9foo", ""}
MCValidNames == {"foo", "bar", "create"}
MCEmails == {"abc@def.com", "abc.def", ""}
MCValidEmails == {"abc@def.com"}
MCPasswords == {"123456", "12345"}
MCIds == {i1, i2}
=============================================================================

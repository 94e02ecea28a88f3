--------------------------- MODULE AccountService ---------------------------
(***************************************************************************)
(* The account service (account/service/service.go) on its mongodb store   *)
(* (account/store/mongodb/store.go), reached through the gateway's        *)
(* account routes (api/route/account/handler.go) and the JWT login        *)
(* authenticator (api/middlewares/jwt.go).                                 *)
(*                                                                         *)
(* Each handler makes one store call, and mongodb runs each call           *)
(* atomically, so a handler is one step.  setup() creates unique indexes   *)
(* on name and on email, so an InsertOne that repeats either fails with   *)
(* mongodb's duplicate-key error.  A password is kept as itself: bcrypt's *)
(* hash compares equal exactly for the password it was made from.  The    *)
(* regular expressions are the sets of names and emails they match.       *)
(* reply is the answer of the step just taken.                            *)
(***************************************************************************)
EXTENDS Naturals, Sequences, FiniteSets

CONSTANTS
    Names,        \* names in requests ("" is a request without one)
    Emails,       \* emails in requests ("" is a request without one)
    Passwords,    \* passwords in requests, as strings
    ValidNames,   \* the names nameRegexp matches
    ValidEmails,  \* the emails emailRegexp matches
    Ids           \* the ObjectIds the store can give new accounts

ASSUME ValidNames \subseteq Names /\ ValidEmails \subseteq Emails
ASSUME "" \in Names \ ValidNames /\ "" \in Emails \ ValidEmails

VARIABLES
    accounts,     \* the accounts collection
    reply         \* the answer of the step just taken

vars == <<accounts, reply>>

\* passwordMinLen and reservedNames.
PasswordMinLen == 6
ReservedNames == {"create"}

Accounts == [id : Ids, name : Names, email : Emails, hash : Passwords, activated : BOOLEAN]
Codes == {"ok", "badRequest", "ErrorNameUsed", "ErrorEmailRegistered", "internal",
          "notFound", "missingLoginValues", "failedAuthentication"}
NoReply == [op |-> "none"]

TypeOK ==
    /\ accounts \subseteq Accounts
    /\ reply \in {NoReply} \cup [op : {"register", "login", "accountId", "infoByName", "basicInfo"},
                                 name : Names, email : Emails, code : Codes, result : SUBSET Ids]

Init ==
    /\ accounts = {}
    /\ reply = NoReply

Answer(op, n, e, code, result) ==
    reply' = [op |-> op, name |-> n, email |-> e, code |-> code, result |-> result]

\* Bound of the model: an insert needs an ObjectId of Ids.
StoreHasRoom == Cardinality(accounts) < Cardinality(Ids)

(***************************************************************************)
(* Register                                                                *)
(***************************************************************************)
\* The parameter check of registerAccount (and again of Register).
RegisterParamsOk(n, e, p) == n \in ValidNames /\ e \in ValidEmails /\ Len(p) >= PasswordMinLen

\* The unique indexes of setup(): an insert repeating a name or an email
\* fails with a duplicate-key write error.
DuplicateKey(n, e) == \E a \in accounts : a.name = n \/ a.email = e

\* store.CreateAccount: bcrypt, then InsertOne with activated = true.  Its
\* error is mongodb's, which Register's switch maps to an internal error.
CreateAccount(n, e, p) ==
    IF DuplicateKey(n, e)
       THEN /\ Answer("register", n, e, "internal", {})
            /\ UNCHANGED accounts
       ELSE /\ StoreHasRoom
            /\ \E i \in Ids \ {a.id : a \in accounts} :
                  /\ accounts' = accounts \cup {[id |-> i, name |-> n, email |-> e,
                                                 hash |-> p, activated |-> TRUE]}
                  /\ Answer("register", n, e, "ok", {i})

\* The gateway route and accountService.Register.
RegisterAccount(n, e, p) ==
    CASE ~RegisterParamsOk(n, e, p) -> Answer("register", n, e, "badRequest", {}) /\ UNCHANGED accounts
      [] n \in ReservedNames        -> Answer("register", n, e, "ErrorNameUsed", {}) /\ UNCHANGED accounts
      [] OTHER                      -> CreateAccount(n, e, p)

(***************************************************************************)
(* Reads                                                                   *)
(***************************************************************************)
\* store.LoginAccount: FindOne by name, or by email when no name is given,
\* then the hash and the activated flag.
LoginAccount(n, e, p) ==
    LET found == {a \in accounts : IF n # "" THEN a.name = n ELSE a.email = e}
    IN  {a.id : a \in {a \in found : a.hash = p /\ a.activated}}

\* The JWT authenticator: missing values are refused before the call, and
\* every error of Login (ErrNoMatch as Unauthorized, any other as
\* internal) is a failed authentication.  The token's claims carry the id.
Login(n, e, p) ==
    /\ CASE (n = "" /\ e = "") \/ p = "" -> Answer("login", n, e, "missingLoginValues", {})
         [] LoginAccount(n, e, p) = {}    -> Answer("login", n, e, "failedAuthentication", {})
         [] OTHER                         -> Answer("login", n, e, "ok", LoginAccount(n, e, p))
    /\ UNCHANGED accounts

\* store.GetAccountId: FindOne by name; ErrNoAccount when none matches.
GetAccountId(n) == {a.id : a \in {a \in accounts : a.name = n}}

\* AccountId returns the store's ErrNoAccount as it is, a plain error the
\* RPC layer reports as internal.
AccountId(n) ==
    /\ IF GetAccountId(n) = {} THEN Answer("accountId", n, "", "internal", {})
       ELSE Answer("accountId", n, "", "ok", GetAccountId(n))
    /\ UNCHANGED accounts

\* store.GetAccountInfoByName: FindOne's ErrNoDocuments comes from
\* sr.Err() and is returned unmapped (the mapping to ErrNoAccount is on
\* Decode's error), so AccountInfoByName answers internal, not NotFound.
GetAccountInfoByName(n) == {a.id : a \in {a \in accounts : a.name = n}}

\* getUserInfo and AccountInfoByName.
AccountInfoByName(n) ==
    /\ IF GetAccountInfoByName(n) = {} THEN Answer("infoByName", n, "", "internal", {})
       ELSE Answer("infoByName", n, "", "ok", GetAccountInfoByName(n))
    /\ UNCHANGED accounts

\* store.GetAccountsBasicInfo: Find with _id $in uids; ids with no account
\* are left out.  (Every uid a caller holds is an ObjectId's hex, so the
\* conversion never fails.)
GetAccountsBasicInfo(uids) == {a.id : a \in {a \in accounts : a.id \in uids}}

\* AccountsBasicInfo copies the store's answer.
AccountsBasicInfo(uids) ==
    /\ Answer("basicInfo", "", "", "ok", GetAccountsBasicInfo(uids))
    /\ UNCHANGED accounts

Next ==
    \/ \E n \in Names, e \in Emails, p \in Passwords : RegisterAccount(n, e, p) \/ Login(n, e, p)
    \/ \E n \in Names : AccountId(n) \/ AccountInfoByName(n)
    \/ \E uids \in SUBSET Ids : AccountsBasicInfo(uids)

Spec == Init /\ [][Next]_vars

-----------------------------------------------------------------------------
\* Spec 8 (test 1) and TestAccountService_Register: a Register of valid
\* parameters whose name is reserved or taken answers ErrorNameUsed, and
\* one whose name is free but whose email is registered answers
\* ErrorEmailRegistered.  CreateAccount's duplicate-key error reaches
\* Register's switch unmapped.
NameUsed(n) == n \in ReservedNames \/ \E a \in accounts : a.name = n

RegisterReportsTaken ==
    [][reply'.op = "register" /\ reply'.code # "badRequest" =>
         /\ NameUsed(reply'.name) => reply'.code = "ErrorNameUsed"
         /\ ~NameUsed(reply'.name) /\ (\E a \in accounts : a.email = reply'.email)
               => reply'.code = "ErrorEmailRegistered"]_vars

\* AccountInfoByName's own branch: a name with no account answers
\* NotFound.  The store returns FindOne's error before the branch that
\* would map it to ErrNoAccount.
UnknownNameNotFound ==
    reply.op = "infoByName" /\ GetAccountInfoByName(reply.name) = {} => reply.code = "notFound"
=============================================================================

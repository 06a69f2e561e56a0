------------------------------ MODULE Accounts ------------------------------
(***************************************************************************)
(* User accounts: registration, login and tokens (auth.service.ts), the    *)
(* check of a token and of a role before every handler                     *)
(* (auth.middleware.ts, the routes), profiles, KYC, status and pictures    *)
(* (user.service.ts and its controller), and the first administrator       *)
(* (bootstrap.service.ts).                                                 *)
(*                                                                         *)
(* A token is abstracted to what is read back from it.  Any token may have *)
(* expired.                                                                *)
(***************************************************************************)
EXTENDS Service, Sequences, FiniteSets

CONSTANTS
  Phones,         \* phone numbers: who has or may get an account
  AdminPhone,     \* INITIAL_ADMIN_PHONE
  FirstAccounts   \* phone -> the row of an account that is there from the start

ASSUME AccountAssumption ==
  /\ AdminPhone \in Phones
  /\ DOMAIN FirstAccounts \subseteq Phones

VARIABLES
  users,          \* phone -> its User row, or Nil
  files,          \* phone -> the profile pictures on disk that were uploaded for it
  tokens,         \* the tokens that were given out
  apiKeys,        \* the ApiKey rows, in order of creation
  edited,         \* history: the columns users wrote themselves, by updateProfile
  accountCall

accountState == <<users, files, tokens, apiKeys, edited, accountCall>>

accountVars == <<accountState, budgetVars>>

Roles == {"COLLECTOR", "ADMIN", "COLLECTION_POINT", "VERIFIER"}

AccountStatuses == {"PENDING", "ACTIVE", "SUSPENDED", "BANNED"}

KycStatuses == {"NOT_STARTED", "PENDING", "APPROVED", "REJECTED"}

\* picture is the number of the uploaded file, 0 for null.
UserRows == [role : Roles, status : AccountStatuses, kyc : KycStatuses, picture : Nat]

UserRow(role, status, kyc) == [role |-> role, status |-> status, kyc |-> kyc, picture |-> 0]

\* Null is no row; the accounts of the start have uploaded no picture.
ASSUME RowsAssumption ==
  /\ Nil \notin UserRows
  /\ \A p \in DOMAIN FirstAccounts :
       FirstAccounts[p] \in UserRows /\ FirstAccounts[p].picture = 0

\* The columns of a User row that the models of the accounts tell apart.
Columns == {"role", "status", "kyc", "picture"}

Tokens == [user : Phones, role : Roles, kind : {"access", "refresh"}]

\* used: the number of the last request that came with it.
ApiKeys == [user : Phones, isActive : BOOLEAN, used : Nat]

Operations ==
  {"none", "register", "login", "refresh", "boot",
   "submitKYC", "verifyKYC", "updateUserStatus", "deleteUser", "updateProfile", "uploadProfilePicture",
   "createApiKey", "revokeApiKey", "useApiKey"}

AccountStages ==
  {"idle", "checking", "creating", "comparing", "renewing", "counting",
   "authenticating", "handling", "writing", "logging", "replacing", "storing", "cleaning",
   "revoking", "identifying", "touching"}

\* by: who sent the request, with the role in the token.  seen: the KYC status the
\* handler read.  want: the status asked for.  old, new: pictures,
\* the new one numbered by its request.  keyNo: the API key it is about.
AccountCalls ==
  [op : Operations, at : AccountStages, by : Phones \cup {Nil}, role : Roles \cup {Nil},
   user : Phones \cup {Nil}, seen : KycStatuses \cup {Nil}, want : AccountStatuses \cup {Nil},
   old : Nat, new : Nat, keyNo : Nat]

NoAccountCall ==
  [op |-> "none", at |-> "idle", by |-> Nil, role |-> Nil, user |-> Nil, seen |-> Nil,
   want |-> Nil, old |-> 0, new |-> 0, keyNo |-> 0]

AccountTypeOK ==
  /\ users \in [Phones -> UserRows \cup {Nil}]
  /\ files \in [Phones -> SUBSET (1..MaxRequests)]
  /\ tokens \subseteq Tokens
  /\ apiKeys \in Seq(ApiKeys)
  /\ edited \subseteq Phones \X Columns
  /\ accountCall \in [Calls -> AccountCalls]
  /\ BudgetOK

AccountInit ==
  /\ users = [p \in Phones |-> IF p \in DOMAIN FirstAccounts THEN FirstAccounts[p] ELSE Nil]
  /\ files = [p \in Phones |-> {}]
  /\ tokens = {[user |-> p, role |-> FirstAccounts[p].role, kind |-> "access"] :
                 p \in DOMAIN FirstAccounts}
  /\ apiKeys = <<>>
  /\ edited = {}
  /\ accountCall = [k \in Calls |-> NoAccountCall]
  /\ BudgetInit

-----------------------------------------------------------------------------

Doing(k, op, stage) == accountCall[k].op = op /\ accountCall[k].at = stage

Set(k, state) == accountCall' = [accountCall EXCEPT ![k] = state]

Step(k, stage) == Set(k, [accountCall[k] EXCEPT !.at = stage])

Leave(k) == Set(k, NoAccountCall)

Row(k) == users[accountCall[k].user]

Exists(p) == users[p] # Nil

UpdateUser(p, row) == users' = [users EXCEPT ![p] = row]

\* generateTokenResponse: both tokens carry the role the row had when it was read.
GiveTokens(p, role) ==
  tokens' = tokens \cup {[user |-> p, role |-> role, kind |-> kind] : kind \in {"access", "refresh"}}

\* Mutant of Insert: a second row replaces the first.
InsertOver(k, row) == UpdateUser(accountCall[k].user, row)

\* The database refuses a second row with the same phone number.
Insert(k, row) ==
  IF Exists(accountCall[k].user) THEN UNCHANGED users ELSE UpdateUser(accountCall[k].user, row)

Come(k, state) ==
  /\ accountCall[k].at = "idle" /\ Arriving
  /\ Set(k, state) /\ UNCHANGED <<users, tokens>>

-----------------------------------------------------------------------------
(* register, login, refreshToken                                           *)

Register(k, p) ==
  /\ Come(k, [NoAccountCall EXCEPT !.op = "register", !.at = "checking", !.user = p])
  /\ UNCHANGED files

\* The phone number and the e-mail address are looked up, the password is hashed.
CheckUnknown(k) ==
  /\ Doing(k, "register", "checking")
  /\ IF Row(k) # Nil THEN Leave(k) ELSE Step(k, "creating")
  /\ Working /\ UNCHANGED <<users, files, tokens>>

\* Mutant of CreateUser: tokens for a row the database refused.
CreateUserAnyway(k) ==
  /\ Doing(k, "register", "creating")
  /\ \E status \in {"PENDING", "ACTIVE"} : Insert(k, UserRow("COLLECTOR", status, "NOT_STARTED"))
  /\ GiveTokens(accountCall[k].user, "COLLECTOR")
  /\ Leave(k) /\ Working /\ UNCHANGED files

\* demoAutoActivate() is off or on, never on mainnet.
CreateUser(k) ==
  /\ Doing(k, "register", "creating")
  /\ \E status \in {"PENDING", "ACTIVE"} :
       /\ Insert(k, UserRow("COLLECTOR", status, "NOT_STARTED"))
       /\ IF Row(k) = Nil THEN GiveTokens(accountCall[k].user, "COLLECTOR")
          ELSE UNCHANGED tokens
  /\ Leave(k) /\ Working /\ UNCHANGED files

Login(k, p) ==
  /\ Come(k, [NoAccountCall EXCEPT !.op = "login", !.at = "comparing", !.user = p])
  /\ UNCHANGED files

\* The status is read first; comparing the password and writing lastLoginAt take
\* their time, and the tokens are made of the row as it was read.
ComparePassword(k) ==
  /\ Doing(k, "login", "comparing")
  /\ IF Row(k) = Nil THEN Leave(k)
     ELSE IF Row(k).status # "ACTIVE" THEN Leave(k)
     ELSE Set(k, [accountCall[k] EXCEPT !.at = "renewing", !.role = Row(k).role]) \/ Leave(k)
  /\ Working /\ UNCHANGED <<users, files, tokens>>

RefreshToken(k, t) ==
  /\ t.kind = "refresh"
  /\ Come(k, [NoAccountCall EXCEPT !.op = "refresh", !.at = "comparing", !.user = t.user])
  /\ UNCHANGED files

CheckRefresh(k) ==
  /\ Doing(k, "refresh", "comparing")
  /\ IF Row(k).status # "ACTIVE" THEN Leave(k)
     ELSE Set(k, [accountCall[k] EXCEPT !.at = "renewing", !.role = Row(k).role])
  /\ Working /\ UNCHANGED <<users, files, tokens>>

Renew(k) ==
  /\ accountCall[k].at = "renewing"
  /\ GiveTokens(accountCall[k].user, accountCall[k].role)
  /\ Leave(k) /\ Working /\ UNCHANGED <<users, files>>

-----------------------------------------------------------------------------
(* ensureInitialAdmin, by each server that starts                          *)

Boot(k) ==
  /\ Come(k, [NoAccountCall EXCEPT !.op = "boot", !.at = "counting", !.user = AdminPhone])
  /\ UNCHANGED files

CountAdmins(k) ==
  /\ Doing(k, "boot", "counting")
  /\ IF \E p \in Phones : Exists(p) /\ users[p].role = "ADMIN" THEN Leave(k)
     ELSE Step(k, "creating")
  /\ Working /\ UNCHANGED <<users, files, tokens>>

CreateAdmin(k) ==
  /\ Doing(k, "boot", "creating")
  /\ Insert(k, UserRow("ADMIN", "ACTIVE", "APPROVED"))
  /\ Leave(k) /\ Working /\ UNCHANGED <<files, tokens>>

-----------------------------------------------------------------------------
(* authenticateJWT and requireRole, as the routes combine them             *)

RolesFor(op) ==
  CASE op \in {"updateUserStatus", "deleteUser"} -> {"ADMIN"}
    [] op = "verifyKYC"                          -> {"ADMIN", "VERIFIER"}
    [] OTHER                                     -> Roles

Send(k, t, op, p, want) ==
  /\ t.kind = "access" /\ Exists(p)
  /\ Come(k, [NoAccountCall EXCEPT !.op = op, !.at = "authenticating", !.by = t.user,
                !.role = t.role, !.user = p, !.want = want, !.new = requests + 1])
  /\ UNCHANGED files

SubmitKYC(k, t) == Send(k, t, "submitKYC", t.user, Nil)

UpdateProfile(k, t) == Send(k, t, "updateProfile", t.user, Nil)

UploadProfilePicture(k, t) == Send(k, t, "uploadProfilePicture", t.user, Nil)

\* An approval wants the account ACTIVE, a rejection PENDING.
VerifyKYC(k, t, p) == \E want \in {"ACTIVE", "PENDING"} : Send(k, t, "verifyKYC", p, want)

UpdateUserStatus(k, t, p) ==
  \E want \in {"ACTIVE", "SUSPENDED", "BANNED"} : Send(k, t, "updateUserStatus", p, want)

DeleteUser(k, t, p) == Send(k, t, "deleteUser", p, "BANNED")

\* The sender's row must be ACTIVE; the role is the token's.
Admitted(c) == users[c.by].status = "ACTIVE" /\ c.role \in RolesFor(c.op)

\* An upload is on disk before its handler runs.
Authenticate(k) ==
  LET c == accountCall[k]
  IN  /\ c.at = "authenticating"
      /\ IF Admitted(c) THEN Step(k, "handling") ELSE Leave(k)
      /\ files' = IF Admitted(c) /\ c.op = "uploadProfilePicture"
                  THEN [files EXCEPT ![c.by] = @ \cup {c.new}] ELSE files
      /\ Working /\ UNCHANGED <<users, tokens>>

-----------------------------------------------------------------------------
(* The handlers of the user routes: read the row, check, write, log        *)

\* Mutant of MayGoOn: the KYC status is not looked at.
MayGoOnAlways(op, kyc) == TRUE

\* submitKYC refuses an approved account, verifyKYC one that is not pending.
MayGoOn(op, kyc) ==
  CASE op = "submitKYC" -> kyc # "APPROVED"
    [] op = "verifyKYC" -> kyc = "PENDING"
    [] OTHER            -> TRUE

ReadUser(k) ==
  LET c == accountCall[k]
  IN  /\ c.at = "handling"
      /\ c.op \in {"submitKYC", "verifyKYC", "updateUserStatus", "deleteUser"}
      /\ IF MayGoOn(c.op, Row(k).kyc)
         THEN Set(k, [c EXCEPT !.at = "writing", !.seen = Row(k).kyc])
         ELSE Leave(k)
      /\ Working /\ UNCHANGED <<users, files, tokens>>

\* Mutant of KycSubmitted: submitting documents activates the account.
KycSubmittedActive(row) == [row EXCEPT !.kyc = "PENDING", !.status = "ACTIVE"]

KycSubmitted(row) == [row EXCEPT !.kyc = "PENDING"]

\* Mutant of KycVerified: no member of KYCStatus.
KycVerifiedWord(row, want) ==
  [row EXCEPT !.kyc = IF want = "ACTIVE" THEN "VERIFIED" ELSE "REJECTED", !.status = want]

\* The decision is on the account too.
KycVerified(row, want) ==
  [row EXCEPT !.kyc = IF want = "ACTIVE" THEN "APPROVED" ELSE "REJECTED", !.status = want]

\* From any status to any other; what is asked for is all that counts.
StatusUpdated(row, want) == [row EXCEPT !.status = want]

Deleted(row) == [row EXCEPT !.status = "BANNED"]

Decided(row, c) ==
  CASE c.op = "submitKYC"        -> KycSubmitted(row)
    [] c.op = "verifyKYC"        -> KycVerified(row, c.want)
    [] c.op = "updateUserStatus" -> StatusUpdated(row, c.want)
    [] c.op = "deleteUser"       -> Deleted(row)

WriteUser(k) ==
  LET c == accountCall[k]
  IN  /\ c.at = "writing"
      /\ UpdateUser(c.user, Decided(Row(k), c))
      /\ IF c.op = "submitKYC" THEN Leave(k) ELSE Step(k, "logging")
      /\ Working /\ UNCHANGED <<files, tokens>>

\* systemLog.create
WriteLog(k) ==
  /\ accountCall[k].at = "logging"
  /\ Leave(k) /\ Working /\ UNCHANGED <<users, files, tokens>>

-----------------------------------------------------------------------------
(* updateProfile                                                           *)

\* A picture that is no file of an upload.
Elsewhere == MaxRequests + 1

\* The rows a body may make of one, by the column it names.
ProfileRows(row, column) ==
  CASE column = "role"    -> {[row EXCEPT !.role = role] : role \in Roles}
    [] column = "status"  -> {[row EXCEPT !.status = status] : status \in AccountStatuses}
    [] column = "kyc"     -> {[row EXCEPT !.kyc = kyc] : kyc \in KycStatuses}
    [] column = "picture" -> {[row EXCEPT !.picture = picture] : picture \in {0, Elsewhere}}

\* The body is written to the row as it came, and nothing is read before; `validate` looks
\* at five columns and takes none of the others out.
WriteProfile(k) ==
  LET c == accountCall[k]
  IN  /\ Doing(k, "updateProfile", "handling")
      /\ \E column \in Columns :
           /\ \E row \in ProfileRows(Row(k), column) : UpdateUser(c.user, row)
           /\ edited' = edited \cup {<<c.user, column>>}
      /\ Leave(k) /\ Working /\ UNCHANGED <<files, tokens, apiKeys>>

-----------------------------------------------------------------------------
(* updateProfilePicture                                                    *)

ReadPicture(k) ==
  /\ Doing(k, "uploadProfilePicture", "handling")
  /\ Set(k, [accountCall[k] EXCEPT !.at = IF Row(k).picture = 0 THEN "storing" ELSE "replacing",
                                   !.old = Row(k).picture])
  /\ Working /\ UNCHANGED <<users, files, tokens>>

\* Mutant of DeletePicture: every file of the user is deleted.
DeletePictures(k) ==
  LET c == accountCall[k]
  IN  /\ c.at = "replacing"
      /\ files' = [files EXCEPT ![c.user] = {}]
      /\ Step(k, "storing") /\ Working /\ UNCHANGED <<users, tokens>>

DeletePicture(k) ==
  LET c == accountCall[k]
  IN  /\ c.at = "replacing"
      /\ files' = [files EXCEPT ![c.user] = @ \ {c.old}]
      /\ Step(k, "storing") /\ Working /\ UNCHANGED <<users, tokens>>

StorePicture(k) ==
  LET c == accountCall[k]
  IN  /\ c.at = "storing"
      /\ UpdateUser(c.user, [Row(k) EXCEPT !.picture = c.new])
      /\ Leave(k) /\ Working /\ UNCHANGED <<files, tokens>>

\* After a failure the controller removes the file that was uploaded.
CleanUp(k) ==
  LET c == accountCall[k]
  IN  /\ c.at = "cleaning"
      /\ files' = [files EXCEPT ![c.user] = @ \ {c.new}]
      /\ Leave(k) /\ Working /\ UNCHANGED <<users, tokens>>

-----------------------------------------------------------------------------
(* API keys, which authenticate takes in place of a token                  *)

RestOfAccounts == UNCHANGED <<users, files, tokens>>

CreateApiKey(k, t) == Send(k, t, "createApiKey", t.user, Nil) /\ UNCHANGED apiKeys

AddApiKey(k) ==
  /\ Doing(k, "createApiKey", "handling")
  /\ apiKeys' = Append(apiKeys, [user |-> accountCall[k].by, isActive |-> TRUE, used |-> 0])
  /\ Leave(k) /\ Working /\ RestOfAccounts

RevokeApiKey(k, t, n) ==
  /\ t.kind = "access"
  /\ Come(k, [NoAccountCall EXCEPT !.op = "revokeApiKey", !.at = "authenticating", !.by = t.user,
                                   !.role = t.role, !.user = t.user, !.keyNo = n])
  /\ UNCHANGED <<files, apiKeys>>

\* One revokes one's own keys only.
FindApiKey(k) ==
  LET c == accountCall[k]
  IN  /\ Doing(k, "revokeApiKey", "handling")
      /\ IF apiKeys[c.keyNo].user = c.by THEN Step(k, "revoking") ELSE Leave(k)
      /\ Working /\ RestOfAccounts /\ UNCHANGED apiKeys

Revoke(k) ==
  /\ accountCall[k].at = "revoking"
  /\ apiKeys' = [apiKeys EXCEPT ![accountCall[k].keyNo].isActive = FALSE]
  /\ Leave(k) /\ Working /\ RestOfAccounts

UseApiKey(k, n) ==
  /\ Come(k, [NoAccountCall EXCEPT !.op = "useApiKey", !.at = "identifying", !.keyNo = n,
                                   !.new = requests + 1])
  /\ UNCHANGED <<files, apiKeys>>

\* The key must be active and not expired, its owner active.
IdentifyApiKey(k) ==
  LET key == apiKeys[accountCall[k].keyNo]
  IN  /\ accountCall[k].at = "identifying"
      /\ \/ key.isActive /\ users[key.user].status = "ACTIVE" /\ Step(k, "touching")
         \/ Leave(k)
      /\ Working /\ RestOfAccounts /\ UNCHANGED apiKeys

\* Mutant of TouchApiKey: the row is written back as it was read.
TouchApiKeyBack(k) ==
  LET c == accountCall[k]
  IN  /\ c.at = "touching"
      /\ apiKeys' = [apiKeys EXCEPT ![c.keyNo].used = c.new, ![c.keyNo].isActive = TRUE]
      /\ Leave(k) /\ Working /\ RestOfAccounts

TouchApiKey(k) ==
  LET c == accountCall[k]
  IN  /\ c.at = "touching"
      /\ apiKeys' = [apiKeys EXCEPT ![c.keyNo].used = c.new]
      /\ Leave(k) /\ Working /\ RestOfAccounts

-----------------------------------------------------------------------------

\* A failure of the database ends the request: with 500, though the row may be
\* written and only its log is missing.
AccountDatabaseFails(k) ==
  LET c == accountCall[k]
  IN  /\ c.at \notin {"idle", "replacing", "cleaning"} /\ Failing
      /\ IF c.op = "uploadProfilePicture" /\ c.at \in {"handling", "storing"}
         THEN Step(k, "cleaning") ELSE Leave(k)
      /\ UNCHANGED <<users, files, tokens>>

RestartAccounts ==
  /\ Crashing
  /\ accountCall' = [k \in Calls |-> NoAccountCall]
  /\ UNCHANGED <<users, files, tokens>>

\* Whether a request can come, asked before its sender is chosen.
MayCome(k) == accountCall[k].at = "idle" /\ requests < MaxRequests

Joining(k) ==
  \/ \E p \in Phones : Register(k, p) \/ Login(k, p)
  \/ \E t \in tokens : RefreshToken(k, t)
  \/ CheckUnknown(k) \/ CreateUser(k) \/ ComparePassword(k) \/ CheckRefresh(k) \/ Renew(k)
  \/ Boot(k) \/ CountAdmins(k) \/ CreateAdmin(k)

Serving(k) ==
  \/ /\ MayCome(k)
     /\ \E t \in tokens :
          \/ SubmitKYC(k, t) \/ UpdateProfile(k, t) \/ UploadProfilePicture(k, t)
          \/ \E p \in Phones : VerifyKYC(k, t, p) \/ UpdateUserStatus(k, t, p) \/ DeleteUser(k, t, p)
  \/ Authenticate(k) \/ ReadUser(k) \/ WriteUser(k) \/ WriteLog(k)
  \/ ReadPicture(k) \/ DeletePicture(k) \/ StorePicture(k) \/ CleanUp(k)

UsingKeys(k) ==
  \/ /\ MayCome(k)
     /\ \/ \E t \in tokens : CreateApiKey(k, t)
        \/ \E n \in 1..Len(apiKeys) : UseApiKey(k, n) \/ (\E t \in tokens : RevokeApiKey(k, t, n))
  \/ AddApiKey(k) \/ FindApiKey(k) \/ Revoke(k) \/ IdentifyApiKey(k) \/ TouchApiKey(k)

AccountNext ==
  \/ /\ \/ \E k \in Calls : Joining(k) \/ Serving(k) \/ AccountDatabaseFails(k)
        \/ RestartAccounts
     /\ UNCHANGED <<apiKeys, edited>>
  \/ \E k \in Calls : WriteProfile(k) \/ (UsingKeys(k) /\ UNCHANGED edited)

AccountSpec == AccountInit /\ [][AccountNext]_accountVars

-----------------------------------------------------------------------------
(* Properties                                                              *)

\* The account's user has an updateProfile written, with whatever its body has.
Editing(k, p) ==
  /\ accountCall[k].op = "updateProfile" /\ accountCall[k].user = p
  /\ accountCall[k].at = "handling" /\ accountCall'[k].at = "idle"

\* Nobody but its user changes the role of an account, and nobody deletes its row:
\* registering a phone number and starting servers that create the first administrator
\* under it may overlap, each having seen that there is no such row (register lines
\* 28-75, ensureInitialAdmin lines 54-70).  updateProfile writes what its body has.
RoleIsItsUsers ==
  [][\A p \in Phones :
       Exists(p) =>
         /\ users'[p] # Nil
         /\ users'[p].role # users[p].role => \E k \in Calls : Editing(k, p)]_accountVars

\* Every token that was given out has the role of the account it names, also when it was
\* made of a row read long before, unless the user wrote the role since: requireRole
\* trusts the token.
TokensMatchAccounts ==
  \A t \in tokens :
    /\ Exists(t.user)
    /\ <<t.user, "role">> \notin edited => users[t.user].role = t.role

\* An account that was there becomes ACTIVE only by its user's own profile update, or
\* by the request of an administrator or a verifier (or of a user who wrote that role):
\* not by registering again, logging in, submitting documents, or a start of the server.
ActivatedByStaff ==
  [][\A p \in Phones :
       Exists(p) /\ users[p].status # "ACTIVE" /\ users'[p].status = "ACTIVE" =>
         \E k \in Calls :
           \/ Editing(k, p)
           \/ /\ accountCall[k].at = "writing" /\ accountCall'[k].at # "writing"
              /\ \/ users[accountCall[k].by].role \in {"ADMIN", "VERIFIER"}
                 \/ <<accountCall[k].by, "role">> \in edited]_accountVars

\* An approved KYC is undone only by the user's own profile update, or by a request that
\* read the row before it was approved (submitKYC lines 124-135, verifyKYC lines
\* 184-195): two verifiers, or a verifier and a late submission.
ApprovalIsKept ==
  [][\A p \in Phones :
       Exists(p) /\ users[p].kyc = "APPROVED" /\ users'[p].kyc # "APPROVED" =>
         \E k \in Calls :
           \/ Editing(k, p)
           \/ /\ accountCall[k].user = p /\ accountCall[k].at = "writing"
              /\ accountCall[k].seen # "APPROVED"]_accountVars

\* No profile update named a picture.
NamedByUploads == \A p \in Phones : <<p, "picture">> \notin edited

\* The picture a row names is on disk, but for an upload in progress and for one
\* that failed after the old file was deleted (updateProfilePicture deletes
\* before it writes), and as long as no profile update names a picture.  Uploads that
\* overlap leave files nobody names, never a name without a file.
PictureExists ==
  \A p \in Phones :
    Exists(p) /\ users[p].picture # 0 /\ faults + crashes = 0 /\ NamedByUploads =>
      \/ users[p].picture \in files[p]
      \/ \E k \in Calls : accountCall[k].at = "storing" /\ accountCall[k].user = p

\* A revoked API key is never active again, also when a request that was found to
\* have it records its use after it was revoked (authenticateApiKey lines 87-130).
RevokedForGood ==
  [][\A n \in 1..Len(apiKeys) : ~ apiKeys[n].isActive => ~ apiKeys'[n].isActive]_accountVars
=============================================================================

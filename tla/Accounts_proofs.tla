-------------------------- MODULE Accounts_proofs --------------------------
(***************************************************************************)
(* Theorems about Accounts, for every number of accounts, requests,        *)
(* failures and restarts.                                                  *)
(***************************************************************************)
EXTENDS Accounts, SequenceTheorems, TLAPS

USE ServiceAssumption, AccountAssumption, RowsAssumption

-----------------------------------------------------------------------------
(* The inductive invariant.                                                *)

\* The operations of the user routes, of the API key routes, and those on somebody's row.
RowOps == {"submitKYC", "verifyKYC", "updateUserStatus", "deleteUser"}

SentOps == RowOps \cup {"updateProfile", "uploadProfilePicture", "createApiKey", "revokeApiKey"}

\* From authenticateJWT on a request has a sender and is about somebody.
SentStages ==
  {"authenticating", "handling", "writing", "logging", "replacing", "storing", "cleaning",
   "revoking"}

\* The stages of updateProfilePicture, and those in which its file is on disk.
FileStages == {"handling", "replacing", "storing"}

UploadStages == FileStages \cup {"authenticating", "cleaning"}

\* As long as the user has not written the column.
HasRole(p, role) == Exists(p) /\ (<<p, "role">> \notin edited => users[p].role = role)

\* What a row may name: an upload that came, or what its user wrote.
Pictures == 0..requests \cup {Elsewhere}

\* What a request has read is still true of the rows, or was when it was read.
AccountCallFits(c) ==
  /\ c.at = "idle" => c.op = "none"
  /\ c.at \in {"checking", "creating", "comparing", "renewing", "counting"} =>
       c.op \in {"register", "login", "refresh", "boot"} /\ c.user \in Phones
  /\ c.op = "refresh" => c.user \in Phones /\ Exists(c.user)
  /\ c.at = "renewing" => c.role \in Roles /\ HasRole(c.user, c.role)
  /\ c.at \in SentStages =>
       /\ c.op \in SentOps /\ c.by \in Phones /\ c.user \in Phones
       /\ HasRole(c.by, c.role) /\ Exists(c.user)
       /\ c.op \in {"verifyKYC", "updateUserStatus"} => c.want \in AccountStatuses
  /\ c.at \in {"handling", "writing"} => c.role \in RolesFor(c.op)
  /\ c.at = "writing" => /\ c.op \in RowOps
                         /\ c.op = "submitKYC" => c.seen # "APPROVED"
                         /\ c.op = "verifyKYC" => c.seen = "PENDING"
  /\ c.op = "uploadProfilePicture" =>
       /\ c.at \in UploadStages /\ c.user = c.by
       /\ c.new \in 1..requests /\ c.old \in Pictures
  /\ c.at \in {"replacing", "storing", "cleaning"} => c.op = "uploadProfilePicture"
  /\ c.op = "revokeApiKey" \/ c.at = "revoking" => c.keyNo \in 1..Len(apiKeys)
  /\ c.at \in {"identifying", "touching"} => c.op = "useApiKey" /\ c.keyNo \in 1..Len(apiKeys)

AccountCallsFit == \A k \in Calls : AccountCallFits(accountCall[k])

AInv == AccountTypeOK /\ TokensMatchAccounts /\ AccountCallsFit

Uploading(k) == accountCall[k].op = "uploadProfilePicture"

\* Pictures are told apart: no two uploads bring the same, and none brings what a row
\* names or what another upload is about to delete.
PicturesApart ==
  /\ \A j \in Calls, k \in Calls :
       Uploading(j) /\ Uploading(k) =>
         /\ accountCall[j].old # accountCall[k].new
         /\ j # k => accountCall[j].new # accountCall[k].new
  /\ \A p \in Phones :
       Exists(p) =>
         /\ users[p].picture \in Pictures
         /\ \A k \in Calls : Uploading(k) => users[p].picture # accountCall[k].new

\* Without failures, what an upload brought is on disk until its handler is done.
UploadsOnDisk ==
  faults + crashes = 0 =>
    \A k \in Calls :
      Uploading(k) =>
        /\ accountCall[k].at # "cleaning"
        /\ accountCall[k].at \in FileStages =>
             accountCall[k].new \in files[accountCall[k].user]

PicInv == PicturesApart /\ UploadsOnDisk /\ PictureExists

-----------------------------------------------------------------------------
(* What every step leaves.                                                 *)

\* No row goes, and none changes its role unless its user wrote it.
RowsKeep ==
  /\ edited \subseteq edited'
  /\ \A p \in Phones :
       Exists(p) =>
         users'[p] # Nil /\ (<<p, "role">> \notin edited' => users'[p].role = users[p].role)

\* API keys are kept, and requests are counted.
NumbersGrow == Len(apiKeys) <= Len(apiKeys') /\ requests <= requests'

\* What is known of a request that does not move still holds.
LEMMA AccountFitStays ==
  ASSUME AccountTypeOK, NEW c \in AccountCalls, AccountCallFits(c), RowsKeep, NumbersGrow,
         requests' \in Nat
  PROVE  AccountCallFits(c)'
<1>1. Len(apiKeys) \in Nat /\ requests \in Nat /\ c.keyNo \in Nat /\ c.new \in Nat /\ c.old \in Nat
  BY DEF AccountTypeOK, BudgetOK, AccountCalls
<1>2. c.keyNo \in 1..Len(apiKeys) => c.keyNo \in 1..Len(apiKeys')
  BY <1>1 DEF NumbersGrow
<1>3. /\ c.new \in 1..requests => c.new \in 1..requests'
      /\ c.old \in Pictures => c.old \in Pictures'
  BY <1>1 DEF NumbersGrow, Pictures
<1>4. \A p \in Phones : Exists(p) => Exists(p)'
  BY DEF RowsKeep, Exists
<1>5. \A p \in Phones : HasRole(p, c.role) => HasRole(p, c.role)'
  BY DEF RowsKeep, Exists, HasRole
<1>6. Exists(c.user) /\ c.user \in Phones => Exists(c.user)'
  BY <1>4
<1> QED
  BY <1>2, <1>3, <1>5, <1>6 DEF AccountCallFits, SentStages

\* A step of one request, that makes of it d.
LEMMA AccountCallMoves ==
  ASSUME AInv, NEW k \in Calls, NEW d \in AccountCalls, Set(k, d), AccountCallFits(d)',
         RowsKeep, NumbersGrow, requests' \in Nat
  PROVE  accountCall' \in [Calls -> AccountCalls] /\ AccountCallsFit'
<1>1. accountCall \in [Calls -> AccountCalls]
  BY DEF AInv, AccountTypeOK
<1>2. /\ accountCall' \in [Calls -> AccountCalls] /\ accountCall'[k] = d
      /\ \A j \in Calls \ {k} : accountCall'[j] = accountCall[j]
  BY <1>1 DEF Set
<1>3. ASSUME NEW j \in Calls PROVE AccountCallFits(accountCall[j])'
  <2>1. CASE j = k
    BY <2>1, <1>2 DEF AccountCallFits, Exists, HasRole
  <2>2. CASE j # k
    <3>1. PICK c \in AccountCalls : c = accountCall[j]
      BY <1>1
    <3>2. AccountCallFits(c)
      BY <3>1 DEF AInv, AccountCallsFit
    <3>3. AccountCallFits(c)'
      BY <3>2, AccountFitStays DEF AInv
    <3> QED
      BY <2>2, <3>1, <3>3, <1>2 DEF AccountCallFits, Exists, HasRole
  <2> QED
    BY <2>1, <2>2
<1> QED
  BY <1>2, <1>3 DEF AccountCallsFit

\* The bounds of Service are kept by every step.
LEMMA AccountBudgetKept ==
  ASSUME BudgetOK, Arriving \/ Failing \/ Crashing \/ Working
  PROVE  BudgetOK' /\ requests' \in Nat /\ requests <= requests'
BY DEF BudgetOK, Arriving, Failing, Crashing, Working, budgetVars

\* A step that gives no token.
LEMMA TokensStay ==
  ASSUME AInv, RowsKeep, UNCHANGED tokens
  PROVE  tokens' \subseteq Tokens /\ TokensMatchAccounts'
<1>1. tokens \subseteq Tokens
  BY DEF AInv, AccountTypeOK
<1>2. \A t \in tokens : t.user \in Phones
  BY <1>1 DEF Tokens
<1> QED
  BY <1>1, <1>2 DEF AInv, TokensMatchAccounts, RowsKeep, Exists

\* Tokens of a role are given to an account that has it.
LEMMA TokensGiven ==
  ASSUME AInv, RowsKeep, NEW p \in Phones, NEW role \in Roles, GiveTokens(p, role),
         users'[p] # Nil, <<p, "role">> \notin edited' => users'[p].role = role
  PROVE  tokens' \subseteq Tokens /\ TokensMatchAccounts'
<1>1. tokens \subseteq Tokens
  BY DEF AInv, AccountTypeOK
<1>2. \A t \in tokens : t.user \in Phones
  BY <1>1 DEF Tokens
<1>3. \A t \in tokens' :
        t \in tokens \/ (t \in Tokens /\ t.user = p /\ t.role = role)
  BY DEF GiveTokens, Tokens
<1> QED
  BY <1>1, <1>2, <1>3 DEF AInv, TokensMatchAccounts, RowsKeep, Exists

\* A step of one request keeps the invariant, if it is true of the request it makes.
LEMMA AccountStepKeeps ==
  ASSUME AInv, NEW k \in Calls, NEW d \in AccountCalls, Set(k, d), AccountCallFits(d)',
         RowsKeep, users' \in [Phones -> UserRows \cup {Nil}],
         files' \in [Phones -> SUBSET (1..MaxRequests)],
         apiKeys' \in Seq(ApiKeys), Len(apiKeys) <= Len(apiKeys'),
         tokens' \subseteq Tokens, TokensMatchAccounts', edited' \subseteq Phones \X Columns,
         Arriving \/ Failing \/ Working
  PROVE  AInv'
<1>1. BudgetOK' /\ requests' \in Nat /\ requests <= requests'
  BY AccountBudgetKept DEF AInv, AccountTypeOK
<1>2. accountCall' \in [Calls -> AccountCalls] /\ AccountCallsFit'
  BY <1>1, AccountCallMoves DEF NumbersGrow
<1> QED
  BY <1>1, <1>2 DEF AInv, AccountTypeOK

\* The same of a step that leaves everything but the requests alone.
LEMMA AccountQuietKeeps ==
  ASSUME AInv, NEW k \in Calls, NEW d \in AccountCalls, Set(k, d), AccountCallFits(d)',
         UNCHANGED <<users, files, tokens, apiKeys, edited>>, Arriving \/ Failing \/ Working
  PROVE  AInv'
<1>1. Len(apiKeys) \in Nat
  BY DEF AInv, AccountTypeOK
<1>2. RowsKeep
  BY DEF RowsKeep, Exists
<1>3. tokens' \subseteq Tokens /\ TokensMatchAccounts'
  BY <1>2, TokensStay
<1> QED
  BY <1>1, <1>2, <1>3, AccountStepKeeps DEF AInv, AccountTypeOK

\* A request that ends.
LEMMA AccountNobodyFits == NoAccountCall \in AccountCalls /\ AccountCallFits(NoAccountCall)
BY
   DEF NoAccountCall, AccountCalls, Operations, AccountStages, AccountCallFits, SentStages,
       UploadStages,
       FileStages

\* The same of the next state.
LEMMA AccountNobodyFitsNext == AccountCallFits(NoAccountCall)'
BY DEF NoAccountCall, AccountCallFits, SentStages

\* A request that ends, and leaves everything else alone.
LEMMA LeaveKeeps ==
  ASSUME AInv, NEW k \in Calls, Leave(k),
         UNCHANGED <<users, files, tokens, apiKeys, edited>>, Arriving \/ Failing \/ Working
  PROVE  AInv'
BY AccountNobodyFits, AccountNobodyFitsNext, AccountQuietKeeps DEF Leave

-----------------------------------------------------------------------------
(* register, login, refreshToken and the first administrator.              *)

\* A request that arrives.
LEMMA ComeKeeps ==
  ASSUME AInv, NEW k \in Calls, NEW d \in AccountCalls, Come(k, d), AccountCallFits(d)',
         UNCHANGED <<files, apiKeys, edited>>
  PROVE  AInv'
BY AccountQuietKeeps DEF Come

\* A request that arrives without a sender.
LEMMA JoinKeeps ==
  ASSUME AInv, NEW k \in Calls, NEW p \in Phones,
         Register(k, p) \/ Login(k, p) \/ Boot(k), UNCHANGED <<apiKeys, edited>>
  PROVE  AInv'
<1>1. ASSUME NEW op \in {"register", "login", "boot"},
             NEW stage \in {"checking", "comparing", "counting"}, NEW q \in Phones,
             Come(k, [NoAccountCall EXCEPT !.op = op, !.at = stage, !.user = q]),
             UNCHANGED files
      PROVE  AInv'
  <2> DEFINE d == [NoAccountCall EXCEPT !.op = op, !.at = stage, !.user = q]
  <2>1. d \in AccountCalls /\ d.op = op /\ d.at = stage /\ d.user = q
    BY DEF NoAccountCall, AccountCalls, Operations, AccountStages
  <2>2. Come(k, d)
    BY <1>1
  <2> HIDE DEF d
  <2>3. AccountCallFits(d)'
    BY <2>1 DEF AccountCallFits, SentStages
  <2> QED
    BY <2>1, <2>2, <2>3, <1>1, ComeKeeps
<1>2. CASE Register(k, p)
  BY <1>1, <1>2 DEF Register
<1>3. CASE Login(k, p)
  BY <1>1, <1>3 DEF Login
<1>4. CASE Boot(k)
  BY <1>1, <1>4 DEF Boot
<1> QED
  BY <1>2, <1>3, <1>4

\* A refresh token comes: its account is there.
LEMMA RefreshKeeps ==
  ASSUME AInv, NEW k \in Calls, NEW t \in tokens, RefreshToken(k, t), UNCHANGED <<apiKeys, edited>>
  PROVE  AInv'
<1>1. PICK q \in Phones : q = t.user /\ Exists(q)
  BY DEF AInv, AccountTypeOK, TokensMatchAccounts, Tokens
<1> DEFINE d == [NoAccountCall EXCEPT !.op = "refresh", !.at = "comparing", !.user = q]
<1>2. d \in AccountCalls /\ d.op = "refresh" /\ d.at = "comparing" /\ d.user = q
  BY DEF NoAccountCall, AccountCalls, Operations, AccountStages
<1>3. Come(k, d)
  BY <1>1 DEF RefreshToken
<1> HIDE DEF d
<1>4. Exists(q)'
  BY <1>1, <1>3 DEF Come, Exists
<1>5. AccountCallFits(d)'
  BY <1>2, <1>4 DEF AccountCallFits, SentStages
<1> QED
  BY <1>2, <1>3, <1>5, ComeKeeps DEF RefreshToken

\* A request goes on to another stage, and leaves everything else alone.
LEMMA StepOn ==
  ASSUME AInv, NEW k \in Calls, NEW c \in AccountCalls, c = accountCall[k],
         NEW stage \in AccountStages, Step(k, stage)
  PROVE  \E d \in AccountCalls :
           /\ Set(k, d) /\ d.at = stage /\ d.op = c.op /\ d.by = c.by /\ d.role = c.role
           /\ d.user = c.user /\ d.seen = c.seen /\ d.want = c.want /\ d.old = c.old
           /\ d.new = c.new /\ d.keyNo = c.keyNo
<1> DEFINE d == [c EXCEPT !.at = stage]
<1>1. /\ d \in AccountCalls /\ d.at = stage /\ d.op = c.op /\ d.by = c.by /\ d.role = c.role
      /\ d.user = c.user /\ d.seen = c.seen /\ d.want = c.want /\ d.old = c.old
      /\ d.new = c.new /\ d.keyNo = c.keyNo
  BY DEF AccountCalls
<1>2. Set(k, d)
  BY DEF Step, Set
<1> HIDE DEF d
<1> QED
  BY <1>1, <1>2

\* The lookup before an account is made: by register, or by a start of the server.
LEMMA LookupKeeps ==
  ASSUME AInv, NEW k \in Calls, CheckUnknown(k) \/ CountAdmins(k), UNCHANGED <<apiKeys, edited>>
  PROVE  AInv'
<1>1. PICK c \in AccountCalls : c = accountCall[k] /\ AccountCallFits(c)
  BY DEF AInv, AccountTypeOK, AccountCallsFit
<1>2. c.op \in {"register", "boot"} /\ c.user \in Phones
  BY <1>1 DEF CheckUnknown, CountAdmins, Doing, AccountCallFits
<1>3. UNCHANGED <<users, files, tokens, apiKeys, edited>> /\ Working
  BY DEF CheckUnknown, CountAdmins
<1>4. CASE Leave(k)
  BY <1>3, <1>4, LeaveKeeps
<1>5. CASE Step(k, "creating")
  <2>1. PICK d \in AccountCalls : Set(k, d) /\ d.at = "creating" /\ d.op = c.op /\ d.user = c.user
    BY <1>1, <1>5, StepOn DEF AccountStages
  <2>2. AccountCallFits(d)'
    BY <2>1, <1>2 DEF AccountCallFits, SentStages
  <2> QED
    BY <2>1, <2>2, <1>3, AccountQuietKeeps
<1> QED
  BY <1>4, <1>5 DEF CheckUnknown, CountAdmins

\* The role of a row is read: it is the one the tokens will have.
LEMMA CredentialsKeep ==
  ASSUME AInv, NEW k \in Calls, ComparePassword(k) \/ CheckRefresh(k), UNCHANGED <<apiKeys, edited>>
  PROVE  AInv'
<1>1. PICK c \in AccountCalls : c = accountCall[k] /\ AccountCallFits(c)
  BY DEF AInv, AccountTypeOK, AccountCallsFit
<1>2. c.op \in {"login", "refresh"} /\ c.user \in Phones
  BY <1>1 DEF ComparePassword, CheckRefresh, Doing, AccountCallFits
<1>3. UNCHANGED <<users, files, tokens, apiKeys, edited>> /\ Working
  BY DEF ComparePassword, CheckRefresh
<1>4. CASE Leave(k)
  BY <1>3, <1>4, LeaveKeeps
<1>5. CASE /\ Row(k) # Nil
           /\ Set(k, [accountCall[k] EXCEPT !.at = "renewing", !.role = Row(k).role])
  <2>1. PICK role \in Roles : role = users[c.user].role
    BY <1>1, <1>2, <1>5 DEF Row, AInv, AccountTypeOK, UserRows
  <2> DEFINE d == [c EXCEPT !.at = "renewing", !.role = role]
  <2>2. d \in AccountCalls /\ d.at = "renewing" /\ d.op = c.op /\ d.user = c.user /\ d.role = role
    BY DEF AccountCalls, AccountStages
  <2>3. Set(k, d)
    BY <1>1, <1>5, <2>1 DEF Row
  <2> HIDE DEF d
  <2>4. HasRole(c.user, role)'
    BY <1>1, <1>3, <1>5, <2>1 DEF Row, HasRole, Exists
  <2>5. c.op = "refresh" => Exists(c.user)'
    BY <2>4 DEF HasRole, Exists
  <2>6. AccountCallFits(d)'
    BY <2>2, <2>4, <2>5, <1>2 DEF AccountCallFits, SentStages
  <2> QED
    BY <2>2, <2>3, <2>6, <1>3, AccountQuietKeeps
<1>6. c.op = "refresh" => Row(k) # Nil
  BY <1>1 DEF AccountCallFits, Row, Exists
<1> QED
  BY <1>1, <1>4, <1>5, <1>6 DEF ComparePassword, CheckRefresh, Doing

\* Tokens are given for a row that was read before.
LEMMA RenewKeeps ==
  ASSUME AInv, NEW k \in Calls, Renew(k), UNCHANGED <<apiKeys, edited>>
  PROVE  AInv'
<1>1. PICK c \in AccountCalls : c = accountCall[k] /\ AccountCallFits(c)
  BY DEF AInv, AccountTypeOK, AccountCallsFit
<1>2. c.user \in Phones /\ c.role \in Roles /\ HasRole(c.user, c.role)
  BY <1>1 DEF Renew, AccountCallFits
<1>3. users' = users /\ RowsKeep
  BY DEF Renew, RowsKeep, Exists
<1>4. tokens' \subseteq Tokens /\ TokensMatchAccounts'
  BY <1>1, <1>2, <1>3, TokensGiven DEF Renew, HasRole, Exists
<1>5. Len(apiKeys) \in Nat
  BY DEF AInv, AccountTypeOK
<1> QED
  BY <1>3, <1>4, <1>5, AccountNobodyFits, AccountNobodyFitsNext, AccountStepKeeps
  DEF Renew, Leave, AInv, AccountTypeOK

\* A row is inserted, or there is one already.
LEMMA InsertKeeps ==
  ASSUME AInv, NEW k \in Calls, accountCall[k].user \in Phones,
         NEW role \in Roles, NEW status \in AccountStatuses, NEW kyc \in KycStatuses,
         Insert(k, UserRow(role, status, kyc)), UNCHANGED edited
  PROVE  /\ users' \in [Phones -> UserRows \cup {Nil}] /\ RowsKeep
         /\ Row(k) = Nil => users'[accountCall[k].user] = UserRow(role, status, kyc)
<1>1. users \in [Phones -> UserRows \cup {Nil}]
  BY DEF AInv, AccountTypeOK
<1>2. UserRow(role, status, kyc) \in UserRows
  BY DEF UserRow, UserRows
<1>3. CASE Exists(accountCall[k].user)
  BY <1>1, <1>3 DEF Insert, RowsKeep, Exists, Row
<1>4. CASE ~ Exists(accountCall[k].user)
  <2>1. users' = [users EXCEPT ![accountCall[k].user] = UserRow(role, status, kyc)]
    BY <1>4 DEF Insert, UpdateUser
  <2>2. \A p \in Phones : Exists(p) => users'[p] = users[p]
    BY <1>1, <1>4, <2>1 DEF Exists
  <2> QED
    BY <1>1, <1>2, <1>4, <2>1, <2>2 DEF RowsKeep, Exists
<1> QED
  BY <1>3, <1>4

\* register makes an account, and gives its tokens.
LEMMA CreateUserKeeps ==
  ASSUME AInv, NEW k \in Calls, CreateUser(k), UNCHANGED <<apiKeys, edited>>
  PROVE  AInv'
<1>1. PICK c \in AccountCalls : c = accountCall[k] /\ AccountCallFits(c)
  BY DEF AInv, AccountTypeOK, AccountCallsFit
<1>2. c.user \in Phones
  BY <1>1 DEF CreateUser, Doing, AccountCallFits
<1>3. PICK status \in {"PENDING", "ACTIVE"} :
        /\ Insert(k, UserRow("COLLECTOR", status, "NOT_STARTED"))
        /\ IF Row(k) = Nil THEN GiveTokens(accountCall[k].user, "COLLECTOR") ELSE UNCHANGED tokens
  BY DEF CreateUser
<1>4. /\ users' \in [Phones -> UserRows \cup {Nil}] /\ RowsKeep
      /\ Row(k) = Nil => users'[c.user] = UserRow("COLLECTOR", status, "NOT_STARTED")
  BY <1>1, <1>2, <1>3, InsertKeeps DEF Roles, AccountStatuses, KycStatuses
<1>5. /\ UserRow("COLLECTOR", status, "NOT_STARTED") \in UserRows
      /\ UserRow("COLLECTOR", status, "NOT_STARTED").role = "COLLECTOR"
  BY DEF UserRow, UserRows, Roles, AccountStatuses, KycStatuses
<1>6. tokens' \subseteq Tokens /\ TokensMatchAccounts'
  <2>1. CASE Row(k) = Nil
    BY <2>1, <1>1, <1>2, <1>3, <1>4, <1>5, TokensGiven DEF Roles
  <2>2. CASE Row(k) # Nil
    BY <2>2, <1>3, <1>4, TokensStay
  <2> QED
    BY <2>1, <2>2
<1>7. Len(apiKeys) \in Nat
  BY DEF AInv, AccountTypeOK
<1> QED
  BY <1>4, <1>6, <1>7, AccountNobodyFits, AccountNobodyFitsNext, AccountStepKeeps
  DEF CreateUser, Leave, AInv, AccountTypeOK

\* A start of the server makes the first administrator.
LEMMA CreateAdminKeeps ==
  ASSUME AInv, NEW k \in Calls, CreateAdmin(k), UNCHANGED <<apiKeys, edited>>
  PROVE  AInv'
<1>1. accountCall[k].user \in Phones
  BY DEF CreateAdmin, Doing, AInv, AccountCallsFit, AccountCallFits
<1>2. users' \in [Phones -> UserRows \cup {Nil}] /\ RowsKeep
  BY <1>1, InsertKeeps DEF CreateAdmin, Roles, AccountStatuses, KycStatuses
<1>3. tokens' \subseteq Tokens /\ TokensMatchAccounts'
  BY <1>2, TokensStay DEF CreateAdmin
<1>4. Len(apiKeys) \in Nat
  BY DEF AInv, AccountTypeOK
<1> QED
  BY <1>2, <1>3, <1>4, AccountNobodyFits, AccountNobodyFitsNext, AccountStepKeeps
  DEF CreateAdmin, Leave, AInv, AccountTypeOK

-----------------------------------------------------------------------------
(* authenticateJWT, requireRole and the handlers of the user routes.       *)

\* A request comes with a token: its account is there, and has the token's role.
LEMMA SendKeeps ==
  ASSUME AInv, NEW k \in Calls, NEW t \in tokens, NEW op \in SentOps \ {"revokeApiKey"},
         NEW p \in Phones, NEW want \in AccountStatuses \cup {Nil},
         op \in {"verifyKYC", "updateUserStatus"} => want \in AccountStatuses,
         op = "uploadProfilePicture" => p = t.user,
         Send(k, t, op, p, want), UNCHANGED <<apiKeys, edited>>
  PROVE  AInv'
<1>1. PICK q \in Phones, role \in Roles : q = t.user /\ role = t.role /\ HasRole(q, role)
  BY DEF AInv, AccountTypeOK, TokensMatchAccounts, Tokens, HasRole
<1>2. PICK n \in Nat : n = requests + 1
  BY DEF AInv, AccountTypeOK, BudgetOK
<1> DEFINE d == [NoAccountCall EXCEPT !.op = op, !.at = "authenticating", !.by = q,
                   !.role = role, !.user = p, !.want = want, !.new = n]
<1>3. PICK e \in AccountCalls :
        /\ e = [NoAccountCall EXCEPT !.op = op, !.at = "authenticating", !.by = q, !.role = role]
        /\ e.op = op /\ e.at = "authenticating" /\ e.by = q /\ e.role = role /\ e.old = 0
  <2>1. op \in Operations /\ "authenticating" \in AccountStages
    BY DEF Operations, AccountStages, SentOps, RowOps
  <2>2. NoAccountCall \in AccountCalls /\ NoAccountCall.old = 0
    BY AccountNobodyFits DEF NoAccountCall
  <2> DEFINE e == [NoAccountCall EXCEPT !.op = op, !.at = "authenticating", !.by = q, !.role = role]
  <2>3. /\ e \in AccountCalls
        /\ e.op = op /\ e.at = "authenticating" /\ e.by = q /\ e.role = role /\ e.old = 0
    BY <2>1, <2>2 DEF AccountCalls
  <2> QED
    BY <2>3
<1>4. /\ d \in AccountCalls /\ d.op = op /\ d.at = "authenticating" /\ d.by = q /\ d.role = role
      /\ d.user = p /\ d.want = want /\ d.new = n /\ d.old = 0
  <2>1. d = [e EXCEPT !.user = p, !.want = want, !.new = n]
    BY <1>3
  <2> QED
    BY <2>1, <1>3 DEF AccountCalls
<1>5. Come(k, d)
  BY <1>1, <1>2 DEF Send
<1> HIDE DEF d
<1>6. requests' = n /\ users' = users
  BY <1>2, <1>5 DEF Come, Arriving
<1>7. HasRole(q, role)' /\ Exists(p)'
  BY <1>1, <1>6 DEF HasRole, Exists, Send
<1>8. d.new \in 1..requests' /\ d.old \in Pictures'
  BY <1>2, <1>4, <1>6 DEF AInv, AccountTypeOK, BudgetOK, Pictures
<1>9. p = q \/ op # "uploadProfilePicture"
  BY <1>1
<1>10. AccountCallFits(d)'
  BY <1>4, <1>7, <1>8, <1>9 DEF AccountCallFits, SentStages, SentOps, RowOps, UploadStages
<1> QED
  BY <1>4, <1>5, <1>10, ComeKeeps DEF Send

\* The requests of the user routes, and the one for a new API key.
LEMMA SentKeeps ==
  ASSUME AInv, NEW k \in Calls, NEW t \in tokens, UNCHANGED <<apiKeys, edited>>,
         \/ SubmitKYC(k, t) \/ UpdateProfile(k, t) \/ UploadProfilePicture(k, t) \/ CreateApiKey(k, t)
         \/ \E p \in Phones : VerifyKYC(k, t, p) \/ UpdateUserStatus(k, t, p) \/ DeleteUser(k, t, p)
  PROVE  AInv'
<1>1. t.user \in Phones
  BY DEF AInv, AccountTypeOK, Tokens
<1>2. CASE SubmitKYC(k, t) \/ UpdateProfile(k, t) \/ UploadProfilePicture(k, t) \/ CreateApiKey(k, t)
  BY <1>1, <1>2, SendKeeps DEF SubmitKYC, UpdateProfile, UploadProfilePicture, CreateApiKey, SentOps, RowOps
<1>3. ASSUME NEW p \in Phones, VerifyKYC(k, t, p) PROVE AInv'
  <2>1. PICK want \in {"ACTIVE", "PENDING"} : Send(k, t, "verifyKYC", p, want)
    BY <1>3 DEF VerifyKYC
  <2>2. want \in AccountStatuses \cup {Nil} /\ "verifyKYC" \in SentOps \ {"revokeApiKey"}
    BY DEF AccountStatuses, SentOps, RowOps
  <2>3. want \in AccountStatuses
    BY DEF AccountStatuses
  <2> QED
    BY <2>1, <2>2, <2>3, SendKeeps
<1>4. ASSUME NEW p \in Phones, UpdateUserStatus(k, t, p) PROVE AInv'
  <2>1. PICK want \in {"ACTIVE", "SUSPENDED", "BANNED"} : Send(k, t, "updateUserStatus", p, want)
    BY <1>4 DEF UpdateUserStatus
  <2>2. /\ want \in AccountStatuses \cup {Nil}
        /\ "updateUserStatus" \in SentOps \ {"revokeApiKey"}
    BY DEF AccountStatuses, SentOps, RowOps
  <2>3. want \in AccountStatuses
    BY DEF AccountStatuses
  <2> QED
    BY <2>1, <2>2, <2>3, SendKeeps
<1>5. CASE \E p \in Phones : DeleteUser(k, t, p)
  BY <1>5, SendKeeps DEF DeleteUser, SentOps, RowOps, AccountStatuses
<1> QED
  BY <1>2, <1>3, <1>4, <1>5

\* The sender is checked; an upload is on disk from then on.
LEMMA AuthenticateKeeps ==
  ASSUME AInv, NEW k \in Calls, Authenticate(k), UNCHANGED <<apiKeys, edited>>
  PROVE  AInv'
<1>1. PICK c \in AccountCalls : c = accountCall[k] /\ AccountCallFits(c)
  BY DEF AInv, AccountTypeOK, AccountCallsFit
<1>2. c.at = "authenticating" /\ c.by \in Phones /\ c.at \in SentStages
  BY <1>1 DEF Authenticate, AccountCallFits, SentStages
<1>3. /\ users' = users /\ tokens' = tokens /\ Working /\ Len(apiKeys) \in Nat /\ RowsKeep
      /\ NumbersGrow /\ requests' \in Nat
  BY DEF Authenticate, RowsKeep, Exists, AInv, AccountTypeOK, Working, budgetVars, NumbersGrow,
         BudgetOK
<1>4. files' \in [Phones -> SUBSET (1..MaxRequests)]
  <2>1. files \in [Phones -> SUBSET (1..MaxRequests)]
    BY DEF AInv, AccountTypeOK
  <2>2. c.op = "uploadProfilePicture" => c.new \in 1..MaxRequests
    BY <1>1 DEF AccountCallFits, AInv, AccountTypeOK, BudgetOK
  <2>3. \/ files' = files
        \/ /\ c.op = "uploadProfilePicture"
           /\ files' = [files EXCEPT ![c.by] = files[c.by] \cup {c.new}]
    BY <1>1 DEF Authenticate
  <2> QED
    BY <2>1, <2>2, <2>3, <1>2
<1>5. tokens' \subseteq Tokens /\ TokensMatchAccounts'
  BY <1>3, TokensStay
<1>6. CASE Leave(k)
  BY <1>3, <1>4, <1>5, <1>6, AccountNobodyFits, AccountNobodyFitsNext, AccountStepKeeps
  DEF Leave, AInv, AccountTypeOK
<1>7. CASE Admitted(c) /\ Step(k, "handling")
  <2>1. PICK d \in AccountCalls :
           /\ Set(k, d) /\ d.at = "handling" /\ d.op = c.op /\ d.by = c.by /\ d.role = c.role
           /\ d.user = c.user /\ d.seen = c.seen /\ d.want = c.want /\ d.old = c.old
           /\ d.new = c.new /\ d.keyNo = c.keyNo
    BY <1>1, <1>7, StepOn DEF AccountStages
  <2>2. c.role \in RolesFor(c.op)
    BY <1>7 DEF Admitted
  <2>3. d.old \in Pictures \/ c.op # "uploadProfilePicture"
    BY <1>1, <2>1 DEF AccountCallFits
  <2>4. AccountCallFits(d)
    BY <1>1, <1>2, <2>1, <2>2 DEF AccountCallFits, SentStages, UploadStages, FileStages
  <2>5. AccountCallFits(d)'
    BY <2>4, <1>3, AccountFitStays DEF AInv
  <2> QED
    BY <2>1, <2>5, <1>3, <1>4, <1>5, AccountStepKeeps DEF AInv, AccountTypeOK
<1> QED
  BY <1>1, <1>6, <1>7 DEF Authenticate

\* A handler reads the row it is about, and refuses what may not go on.
LEMMA ReadUserKeeps ==
  ASSUME AInv, NEW k \in Calls, ReadUser(k), UNCHANGED <<apiKeys, edited>>
  PROVE  AInv'
<1>1. PICK c \in AccountCalls : c = accountCall[k] /\ AccountCallFits(c)
  BY DEF AInv, AccountTypeOK, AccountCallsFit
<1>2. UNCHANGED <<users, files, tokens, apiKeys, edited>> /\ Working
  BY DEF ReadUser
<1>3. CASE Leave(k)
  BY <1>2, <1>3, LeaveKeeps
<1>4. CASE /\ MayGoOn(c.op, Row(k).kyc)
           /\ Set(k, [c EXCEPT !.at = "writing", !.seen = Row(k).kyc])
  <2>1. c.op \in RowOps /\ c.user \in Phones /\ Exists(c.user) /\ c.at = "handling"
    BY <1>1 DEF ReadUser, AccountCallFits, RowOps, SentStages
  <2>2. PICK kyc \in KycStatuses : kyc = Row(k).kyc
    BY <1>1, <2>1 DEF Row, Exists, AInv, AccountTypeOK, UserRows
  <2> DEFINE d == [c EXCEPT !.at = "writing", !.seen = kyc]
  <2>3. /\ d \in AccountCalls /\ d.at = "writing" /\ d.seen = kyc /\ d.op = c.op /\ d.by = c.by
        /\ d.role = c.role /\ d.user = c.user /\ d.want = c.want /\ d.old = c.old
        /\ d.new = c.new /\ d.keyNo = c.keyNo
    BY DEF AccountCalls, AccountStages
  <2>4. Set(k, d)
    BY <1>4, <2>2
  <2> HIDE DEF d
  <2>5. AccountCallFits(d)
    BY <1>1, <1>4, <2>1, <2>2, <2>3
       DEF AccountCallFits, SentStages, UploadStages, FileStages, RowOps,
       MayGoOn
  <2>6. RowsKeep /\ NumbersGrow /\ requests' \in Nat
    BY <1>2 DEF RowsKeep, Exists, NumbersGrow, Working, budgetVars, AInv, AccountTypeOK, BudgetOK
  <2>7. AccountCallFits(d)'
    BY <2>3, <2>5, <2>6, AccountFitStays DEF AInv
  <2> QED
    BY <2>3, <2>4, <2>7, <1>2, AccountQuietKeeps
<1> QED
  BY <1>1, <1>3, <1>4 DEF ReadUser

\* What is made of a row: its role and its picture are left.  Only a decision of the staff
\* activates it, only KYC steps undo an approval.
LEMMA Decision ==
  ASSUME NEW row \in UserRows, NEW c \in AccountCalls, c.op \in RowOps,
         c.op \in {"verifyKYC", "updateUserStatus"} => c.want \in AccountStatuses
  PROVE  /\ Decided(row, c) \in UserRows /\ Decided(row, c).role = row.role
         /\ Decided(row, c).picture = row.picture
         /\ row.status # "ACTIVE" /\ Decided(row, c).status = "ACTIVE" =>
              c.op \in {"verifyKYC", "updateUserStatus"}
         /\ row.kyc = "APPROVED" /\ Decided(row, c).kyc # "APPROVED" =>
              c.op \in {"submitKYC", "verifyKYC"}
<1>1. CASE c.op = "submitKYC"
  BY <1>1 DEF Decided, KycSubmitted, UserRows, KycStatuses
<1>2. CASE c.op = "verifyKYC"
  <2>1. PICK kyc \in {"APPROVED", "REJECTED"} :
          kyc = IF c.want = "ACTIVE" THEN "APPROVED" ELSE "REJECTED"
    OBVIOUS
  <2>2. Decided(row, c) = [row EXCEPT !.kyc = kyc, !.status = c.want]
    BY <1>2, <2>1 DEF Decided, KycVerified
  <2> QED
    BY <1>2, <2>2 DEF UserRows, KycStatuses
<1>3. CASE c.op = "updateUserStatus"
  BY <1>3 DEF Decided, StatusUpdated, UserRows
<1>4. CASE c.op = "deleteUser"
  BY <1>4 DEF Decided, Deleted, UserRows, AccountStatuses
<1> QED
  BY <1>1, <1>2, <1>3, <1>4 DEF RowOps

\* A row that is there is written, with its role unless the user writes that.
LEMMA RowWritten ==
  ASSUME AInv, NEW p \in Phones, NEW row \in UserRows, Exists(p), UpdateUser(p, row),
         edited \subseteq edited', <<p, "role">> \notin edited' => row.role = users[p].role
  PROVE  /\ users' \in [Phones -> UserRows \cup {Nil}] /\ RowsKeep
         /\ users'[p] = row /\ \A q \in Phones \ {p} : users'[q] = users[q]
<1>1. users \in [Phones -> UserRows \cup {Nil}] /\ row # Nil
  BY DEF AInv, AccountTypeOK
<1>2. /\ users' \in [Phones -> UserRows \cup {Nil}]
      /\ users'[p] = row /\ \A q \in Phones \ {p} : users'[q] = users[q]
  BY <1>1 DEF UpdateUser
<1> QED
  BY <1>1, <1>2 DEF RowsKeep, Exists

\* The request at a handler's write: its row, and what it makes of it.
LEMMA WrittenRow ==
  ASSUME AInv, NEW k \in Calls, NEW c \in AccountCalls, c = accountCall[k], WriteUser(k),
         UNCHANGED edited
  PROVE  /\ c.user \in Phones /\ Exists(c.user) /\ users[c.user] \in UserRows
         /\ c.op \in RowOps /\ c.at = "writing" /\ AccountCallFits(c)
         /\ Decided(users[c.user], c) \in UserRows
         /\ Decided(users[c.user], c).role = users[c.user].role
         /\ users'[c.user] = Decided(users[c.user], c)
         /\ \A q \in Phones \ {c.user} : users'[q] = users[q]
         /\ users' \in [Phones -> UserRows \cup {Nil}] /\ RowsKeep
<1>1. AccountCallFits(c) /\ c.at = "writing"
  BY DEF AInv, AccountCallsFit, WriteUser
<1>2. c.user \in Phones /\ Exists(c.user) /\ c.op \in RowOps
  BY <1>1 DEF AccountCallFits, SentStages
<1>3. users[c.user] \in UserRows
  BY <1>2 DEF AInv, AccountTypeOK, Exists
<1>4. c.op \in {"verifyKYC", "updateUserStatus"} => c.want \in AccountStatuses
  BY <1>1 DEF AccountCallFits, SentStages
<1>5. /\ Decided(users[c.user], c) \in UserRows
      /\ Decided(users[c.user], c).role = users[c.user].role
  BY <1>2, <1>3, <1>4, Decision
<1>6. UpdateUser(c.user, Decided(users[c.user], c))
  BY DEF WriteUser, Row
<1> QED
  BY <1>1, <1>2, <1>3, <1>5, <1>6, RowWritten

\* A handler writes the row, over whatever it has become.
LEMMA WriteUserKeeps ==
  ASSUME AInv, NEW k \in Calls, WriteUser(k), UNCHANGED <<apiKeys, edited>>
  PROVE  AInv'
<1>1. PICK c \in AccountCalls : c = accountCall[k]
  BY DEF AInv, AccountTypeOK
<1>2. /\ AccountCallFits(c) /\ c.at = "writing"
      /\ users' \in [Phones -> UserRows \cup {Nil}] /\ RowsKeep
      /\ c.op \in RowOps
  BY <1>1, WrittenRow
<1>3. tokens' \subseteq Tokens /\ TokensMatchAccounts'
  BY <1>2, TokensStay DEF WriteUser
<1>4. /\ Working /\ Len(apiKeys) \in Nat /\ files' = files /\ NumbersGrow /\ requests' \in Nat
  BY DEF WriteUser, NumbersGrow, Working, budgetVars, AInv, AccountTypeOK, BudgetOK
<1>5. CASE Leave(k)
  BY <1>2, <1>3, <1>4, <1>5, AccountNobodyFits, AccountNobodyFitsNext, AccountStepKeeps
     DEF Leave, AInv, AccountTypeOK
<1>6. CASE Step(k, "logging")
  <2>1. PICK d \in AccountCalls :
           /\ Set(k, d) /\ d.at = "logging" /\ d.op = c.op /\ d.by = c.by /\ d.role = c.role
           /\ d.user = c.user /\ d.seen = c.seen /\ d.want = c.want /\ d.old = c.old
           /\ d.new = c.new /\ d.keyNo = c.keyNo
    BY <1>1, <1>6, StepOn DEF AccountStages
  <2>2. AccountCallFits(d)
    BY <1>2, <2>1 DEF AccountCallFits, SentStages, UploadStages, FileStages, RowOps
  <2>3. AccountCallFits(d)'
    BY <2>2, <1>2, <1>4, AccountFitStays DEF AInv
  <2> QED
    BY <2>1, <2>3, <1>2, <1>3, <1>4, AccountStepKeeps DEF AInv, AccountTypeOK
<1> QED
  BY <1>5, <1>6 DEF WriteUser

-----------------------------------------------------------------------------
(* updateProfile and updateProfilePicture                                  *)

\* What a body may make of a row: it is a row, that differs in the column the body names.
LEMMA ProfileRow ==
  ASSUME NEW row \in UserRows, NEW column \in Columns, NEW new \in ProfileRows(row, column)
  PROVE  /\ new \in UserRows
         /\ column # "role" => new.role = row.role
         /\ column # "picture" => new.picture = row.picture
         /\ column = "picture" => new.picture \in {0, Elsewhere}
<1>1. Elsewhere \in Nat
  BY DEF Elsewhere
<1>2. CASE column = "role"
  BY <1>2 DEF ProfileRows, UserRows
<1>3. CASE column = "status"
  BY <1>3 DEF ProfileRows, UserRows
<1>4. CASE column = "kyc"
  BY <1>4 DEF ProfileRows, UserRows
<1>5. CASE column = "picture"
  BY <1>1, <1>5 DEF ProfileRows, UserRows
<1> QED
  BY <1>2, <1>3, <1>4, <1>5 DEF Columns

\* What updateProfile makes of the rows.
LEMMA ProfileWritten ==
  ASSUME AInv, NEW k \in Calls, NEW c \in AccountCalls, c = accountCall[k], WriteProfile(k)
  PROVE  \E column \in Columns, row \in UserRows :
           /\ c.user \in Phones /\ Exists(c.user) /\ users[c.user] \in UserRows
           /\ row \in ProfileRows(users[c.user], column)
           /\ edited' = edited \cup {<<c.user, column>>}
           /\ users' \in [Phones -> UserRows \cup {Nil}] /\ RowsKeep
           /\ users'[c.user] = row /\ \A q \in Phones \ {c.user} : users'[q] = users[q]
<1>1. c.user \in Phones /\ Exists(c.user)
  BY DEF WriteProfile, Doing, AInv, AccountCallsFit, AccountCallFits, SentStages
<1>2. users[c.user] \in UserRows
  BY <1>1 DEF AInv, AccountTypeOK, Exists
<1>3. PICK column \in Columns :
        /\ \E row \in ProfileRows(users[c.user], column) : UpdateUser(c.user, row)
        /\ edited' = edited \cup {<<c.user, column>>}
  BY DEF WriteProfile, Row
<1>4. PICK row \in ProfileRows(users[c.user], column) : UpdateUser(c.user, row)
  BY <1>3
<1>5. row \in UserRows /\ (column # "role" => row.role = users[c.user].role)
  BY <1>2, ProfileRow
<1>6. edited \subseteq edited' /\ <<c.user, column>> \in edited'
  BY <1>3
<1>7. /\ users' \in [Phones -> UserRows \cup {Nil}] /\ RowsKeep
      /\ users'[c.user] = row /\ \A q \in Phones \ {c.user} : users'[q] = users[q]
  BY <1>1, <1>4, <1>5, <1>6, RowWritten
<1> QED
  BY <1>1, <1>2, <1>3, <1>4, <1>5, <1>7

\* A body is written to the row, and the handler is done.
LEMMA WriteProfileKeeps ==
  ASSUME AInv, NEW k \in Calls, WriteProfile(k)
  PROVE  AInv'
<1>1. PICK c \in AccountCalls : c = accountCall[k]
  BY DEF AInv, AccountTypeOK
<1>2. PICK column \in Columns :
        /\ c.user \in Phones /\ edited' = edited \cup {<<c.user, column>>}
        /\ users' \in [Phones -> UserRows \cup {Nil}] /\ RowsKeep
  BY <1>1, ProfileWritten
<1>3. tokens' \subseteq Tokens /\ TokensMatchAccounts'
  BY <1>2, TokensStay DEF WriteProfile
<1>4. Len(apiKeys) \in Nat /\ edited' \subseteq Phones \X Columns
  BY <1>2 DEF AInv, AccountTypeOK
<1> QED
  BY <1>2, <1>3, <1>4, AccountNobodyFits, AccountNobodyFitsNext, AccountStepKeeps
  DEF WriteProfile, Leave, AInv, AccountTypeOK

\* A step of an upload on to a stage that an upload has.
LEMMA UploadGoesOn ==
  ASSUME AInv, NEW k \in Calls, NEW c \in AccountCalls, c = accountCall[k],
         c.op = "uploadProfilePicture", c.at \in SentStages,
         NEW stage \in {"replacing", "storing", "cleaning"},
         NEW d \in AccountCalls, d.op = c.op, d.at = stage, d.by = c.by, d.role = c.role,
         d.user = c.user, d.want = c.want, d.new = c.new, d.old \in Pictures,
         Set(k, d), UNCHANGED <<users, tokens, apiKeys, edited>>, Failing \/ Working,
         files' \in [Phones -> SUBSET (1..MaxRequests)]
  PROVE  AInv'
<1>1. AccountCallFits(c)
  BY DEF AInv, AccountCallsFit
<1>2. AccountCallFits(d)
  BY <1>1 DEF AccountCallFits, SentStages, UploadStages, FileStages
<1>3. RowsKeep /\ NumbersGrow /\ requests' \in Nat /\ Len(apiKeys) \in Nat
  BY DEF RowsKeep, Exists, NumbersGrow, Working, Failing, budgetVars, AInv, AccountTypeOK, BudgetOK
<1>4. AccountCallFits(d)'
  BY <1>2, <1>3, AccountFitStays DEF AInv
<1>5. tokens' \subseteq Tokens /\ TokensMatchAccounts'
  BY <1>3, TokensStay
<1> QED
  BY <1>3, <1>4, <1>5, AccountStepKeeps DEF AInv, AccountTypeOK

\* A request at a stage of updateProfilePicture.
LEMMA UploadThere ==
  ASSUME AInv, NEW k \in Calls, NEW c \in AccountCalls, c = accountCall[k],
         c.op = "uploadProfilePicture"
  PROVE  /\ c.at \in UploadStages /\ c.at \in SentStages /\ c.user \in Phones /\ c.by = c.user
         /\ Exists(c.user) /\ users[c.user] \in UserRows
         /\ c.new \in 1..requests /\ c.old \in Pictures
<1>1. AccountCallFits(c)
  BY DEF AInv, AccountCallsFit
<1>2. c.at \in UploadStages /\ c.at \in SentStages
  BY <1>1 DEF AccountCallFits, UploadStages, FileStages, SentStages
<1> QED
  BY <1>1, <1>2 DEF AccountCallFits, AInv, AccountTypeOK, Exists

\* The picture of the row is read.
LEMMA ReadPictureKeeps ==
  ASSUME AInv, PicturesApart, NEW k \in Calls, ReadPicture(k), UNCHANGED <<apiKeys, edited>>
  PROVE  AInv'
<1>1. PICK c \in AccountCalls : c = accountCall[k] /\ c.op = "uploadProfilePicture"
  BY DEF AInv, AccountTypeOK, ReadPicture, Doing
<1>2. c.at \in SentStages /\ c.user \in Phones /\ Exists(c.user)
  BY <1>1, UploadThere
<1>3. PICK old \in Nat : old = Row(k).picture /\ old \in Pictures
  BY <1>1, <1>2 DEF Row, PicturesApart, AInv, AccountTypeOK, BudgetOK, Pictures, Elsewhere
<1>4. PICK stage \in {"storing", "replacing"} : stage = IF old = 0 THEN "storing" ELSE "replacing"
  OBVIOUS
<1> DEFINE d == [c EXCEPT !.at = stage, !.old = old]
<1>5. /\ d \in AccountCalls /\ d.op = c.op /\ d.at = stage /\ d.by = c.by /\ d.role = c.role
      /\ d.user = c.user /\ d.want = c.want /\ d.new = c.new /\ d.old = old
  BY DEF AccountCalls, AccountStages
<1>6. Set(k, d)
  BY <1>1, <1>3, <1>4 DEF ReadPicture
<1> HIDE DEF d
<1> QED
  BY <1>1, <1>2, <1>3, <1>5, <1>6, UploadGoesOn DEF ReadPicture, AInv, AccountTypeOK

\* The old file is deleted, before the row is written.
LEMMA DeletePictureKeeps ==
  ASSUME AInv, NEW k \in Calls, DeletePicture(k), UNCHANGED <<apiKeys, edited>>
  PROVE  AInv'
<1>1. PICK c \in AccountCalls : c = accountCall[k]
  BY DEF AInv, AccountTypeOK
<1>2. c.op = "uploadProfilePicture"
  BY <1>1 DEF DeletePicture, AInv, AccountCallsFit, AccountCallFits
<1>3. c.at \in SentStages /\ c.user \in Phones /\ c.old \in Pictures
  BY <1>1, <1>2, UploadThere
<1>4. PICK d \in AccountCalls :
         /\ Set(k, d) /\ d.at = "storing" /\ d.op = c.op /\ d.by = c.by /\ d.role = c.role
         /\ d.user = c.user /\ d.want = c.want /\ d.old = c.old /\ d.new = c.new
  BY <1>1, StepOn DEF AccountStages, DeletePicture
<1>5. files' \in [Phones -> SUBSET (1..MaxRequests)]
  BY <1>1, <1>3 DEF DeletePicture, AInv, AccountTypeOK
<1> QED
  BY <1>1, <1>2, <1>3, <1>4, <1>5, UploadGoesOn DEF DeletePicture

\* The row names the new file.
LEMMA StoredRow ==
  ASSUME AInv, NEW k \in Calls, NEW c \in AccountCalls, c = accountCall[k], StorePicture(k),
         UNCHANGED edited
  PROVE  /\ c.op = "uploadProfilePicture" /\ c.user \in Phones /\ Exists(c.user)
         /\ users[c.user] \in UserRows /\ c.new \in 1..requests
         /\ users'[c.user] \in UserRows
         /\ users'[c.user].picture = c.new /\ users'[c.user].status = users[c.user].status
         /\ users'[c.user].kyc = users[c.user].kyc /\ users'[c.user].role = users[c.user].role
         /\ \A q \in Phones \ {c.user} : users'[q] = users[q]
         /\ users' \in [Phones -> UserRows \cup {Nil}] /\ RowsKeep
<1>1. c.op = "uploadProfilePicture" /\ AccountCallFits(c)
  BY DEF StorePicture, AInv, AccountCallsFit, AccountCallFits
<1>2. /\ c.user \in Phones /\ Exists(c.user) /\ users[c.user] \in UserRows
      /\ c.new \in 1..requests /\ c.new \in Nat
  BY <1>1, UploadThere DEF AccountCalls
<1>3. PICK row \in UserRows : row = users[c.user]
  BY <1>2
<1>4. PICK new \in UserRows :
        /\ new = [row EXCEPT !.picture = c.new]
        /\ new.role = row.role /\ new.picture = c.new /\ new.status = row.status
        /\ new.kyc = row.kyc
  <2> DEFINE new == [row EXCEPT !.picture = c.new]
  <2>1. /\ new \in UserRows
        /\ new.role = row.role /\ new.picture = c.new /\ new.status = row.status
        /\ new.kyc = row.kyc
    BY <1>2 DEF UserRows
  <2> QED
    BY <2>1
<1>5. UpdateUser(c.user, new)
  BY <1>3, <1>4 DEF StorePicture, Row
<1> QED
  BY <1>1, <1>2, <1>3, <1>4, <1>5, RowWritten, ZenonT(40)

\* The upload is stored.
LEMMA StorePictureKeeps ==
  ASSUME AInv, NEW k \in Calls, StorePicture(k), UNCHANGED <<apiKeys, edited>>
  PROVE  AInv'
<1>1. PICK c \in AccountCalls : c = accountCall[k]
  BY DEF AInv, AccountTypeOK
<1>2. users' \in [Phones -> UserRows \cup {Nil}] /\ RowsKeep
  BY <1>1, StoredRow
<1>3. tokens' \subseteq Tokens /\ TokensMatchAccounts'
  BY <1>2, TokensStay DEF StorePicture
<1>4. Len(apiKeys) \in Nat
  BY DEF AInv, AccountTypeOK
<1> QED
  BY <1>2, <1>3, <1>4, AccountNobodyFits, AccountNobodyFitsNext, AccountStepKeeps
  DEF StorePicture, Leave, AInv, AccountTypeOK

\* The file of a failed upload is deleted.
LEMMA CleanUpKeeps ==
  ASSUME AInv, NEW k \in Calls, CleanUp(k), UNCHANGED <<apiKeys, edited>>
  PROVE  AInv'
<1>1. RowsKeep /\ Len(apiKeys) \in Nat
  BY DEF CleanUp, RowsKeep, Exists, AInv, AccountTypeOK
<1>2. tokens' \subseteq Tokens /\ TokensMatchAccounts'
  BY <1>1, TokensStay DEF CleanUp
<1>3. files' \in [Phones -> SUBSET (1..MaxRequests)]
  <2>1. accountCall[k].user \in Phones
    BY DEF CleanUp, AInv, AccountCallsFit, AccountCallFits, SentStages
  <2> QED
    BY <2>1 DEF CleanUp, AInv, AccountTypeOK
<1> QED
  BY <1>1, <1>2, <1>3, AccountNobodyFits, AccountNobodyFitsNext, AccountStepKeeps
  DEF CleanUp, Leave, AInv, AccountTypeOK

-----------------------------------------------------------------------------
(* API keys, failures and restarts.                                        *)

\* A request that names an API key arrives.
LEMMA KeyComes ==
  ASSUME AInv, NEW k \in Calls, NEW n \in 1..Len(apiKeys),
         UseApiKey(k, n) \/ \E t \in tokens : RevokeApiKey(k, t, n), UNCHANGED edited
  PROVE  AInv'
<1>1. n \in Nat /\ Len(apiKeys) \in Nat
  BY DEF AInv, AccountTypeOK
<1>2. CASE UseApiKey(k, n)
  <2>1. PICK m \in Nat : m = requests + 1
    BY DEF AInv, AccountTypeOK, BudgetOK
  <2> DEFINE d == [NoAccountCall EXCEPT !.op = "useApiKey", !.at = "identifying", !.keyNo = n,
                                        !.new = m]
  <2>2. NoAccountCall \in AccountCalls
    BY AccountNobodyFits
  <2>3. d \in AccountCalls /\ d.op = "useApiKey" /\ d.at = "identifying" /\ d.keyNo = n
    BY <2>2, <1>1 DEF AccountCalls, Operations, AccountStages
  <2>4. Come(k, d) /\ UNCHANGED <<files, apiKeys, edited>>
    BY <1>2, <2>1 DEF UseApiKey
  <2> HIDE DEF d
  <2>5. AccountCallFits(d)'
    BY <2>3, <2>4 DEF AccountCallFits, SentStages
  <2> QED
    BY <2>3, <2>4, <2>5, ComeKeeps
<1>3. ASSUME NEW t \in tokens, RevokeApiKey(k, t, n) PROVE AInv'
  <2>1. PICK q \in Phones, role \in Roles : q = t.user /\ role = t.role /\ HasRole(q, role)
    BY DEF AInv, AccountTypeOK, TokensMatchAccounts, Tokens, HasRole
  <2> DEFINE e == [NoAccountCall EXCEPT !.op = "revokeApiKey", !.at = "authenticating", !.by = q,
                                        !.role = role]
  <2> DEFINE d == [e EXCEPT !.user = q, !.keyNo = n]
  <2>2. NoAccountCall \in AccountCalls
    BY AccountNobodyFits
  <2>3. /\ e \in AccountCalls /\ e.op = "revokeApiKey" /\ e.at = "authenticating" /\ e.by = q
        /\ e.role = role
    BY <2>2 DEF AccountCalls, Operations, AccountStages
  <2>4. Come(k, d) /\ UNCHANGED <<files, apiKeys, edited>>
    BY <1>3, <2>1 DEF RevokeApiKey
  <2> HIDE DEF e
  <2>5. /\ d \in AccountCalls /\ d.op = "revokeApiKey" /\ d.at = "authenticating" /\ d.by = q
        /\ d.role = role /\ d.user = q /\ d.keyNo = n
    BY <2>3, <1>1 DEF AccountCalls
  <2> HIDE DEF d
  <2>6. HasRole(q, role)' /\ Exists(q)'
    BY <2>1, <2>4 DEF HasRole, Exists, Come
  <2>7. AccountCallFits(d)'
    BY <2>4, <2>5, <2>6 DEF AccountCallFits, SentStages, SentOps
  <2> QED
    BY <2>4, <2>5, <2>7, ComeKeeps
<1> QED
  BY <1>2, <1>3

\* A request about an API key goes on, or ends.
LEMMA KeyGoesOn ==
  ASSUME AInv, NEW k \in Calls, FindApiKey(k) \/ IdentifyApiKey(k), UNCHANGED edited
  PROVE  AInv'
<1>1. PICK c \in AccountCalls : c = accountCall[k] /\ AccountCallFits(c)
  BY DEF AInv, AccountTypeOK, AccountCallsFit
<1>2. UNCHANGED <<users, files, tokens, apiKeys, edited>> /\ Working
  BY DEF FindApiKey, IdentifyApiKey, RestOfAccounts
<1>3. RowsKeep /\ NumbersGrow /\ requests' \in Nat
  BY <1>2 DEF RowsKeep, Exists, NumbersGrow, Working, budgetVars, AInv, AccountTypeOK, BudgetOK
<1>4. CASE Leave(k)
  BY <1>2, <1>4, LeaveKeeps
<1>5. ASSUME NEW stage \in {"revoking", "touching"}, Step(k, stage),
             \/ c.op = "revokeApiKey" /\ c.at = "handling" /\ stage = "revoking"
             \/ c.at = "identifying" /\ stage = "touching"
      PROVE  AInv'
  <2>1. PICK d \in AccountCalls :
           /\ Set(k, d) /\ d.at = stage /\ d.op = c.op /\ d.by = c.by /\ d.role = c.role
           /\ d.user = c.user /\ d.seen = c.seen /\ d.want = c.want /\ d.old = c.old
           /\ d.new = c.new /\ d.keyNo = c.keyNo
    BY <1>1, <1>5, StepOn DEF AccountStages
  <2>2. AccountCallFits(d)
    BY <1>1, <1>5, <2>1 DEF AccountCallFits, SentStages
  <2>3. AccountCallFits(d)'
    BY <2>2, <1>3, AccountFitStays DEF AInv
  <2> QED
    BY <2>1, <2>3, <1>2, AccountQuietKeeps
<1> QED
  BY <1>1, <1>4, <1>5 DEF FindApiKey, IdentifyApiKey, Doing

\* The row of an API key that a request names.
LEMMA KeyNamed ==
  ASSUME AInv, NEW k \in Calls, accountCall[k].at \in {"revoking", "touching"}
  PROVE  /\ accountCall[k].keyNo \in 1..Len(apiKeys) /\ accountCall[k].keyNo \in Nat
         /\ apiKeys[accountCall[k].keyNo] \in ApiKeys /\ accountCall[k].new \in Nat
<1>1. accountCall[k] \in AccountCalls /\ AccountCallFits(accountCall[k]) /\ apiKeys \in Seq(ApiKeys)
  BY DEF AInv, AccountTypeOK, AccountCallsFit
<1> QED
  BY <1>1 DEF AccountCallFits, AccountCalls

\* What a key's row may become keeps the keys' types.
LEMMA KeyRowSet ==
  ASSUME AInv, NEW n \in 1..Len(apiKeys), NEW row \in ApiKeys,
         apiKeys' = [apiKeys EXCEPT ![n] = row]
  PROVE  /\ apiKeys' \in Seq(ApiKeys) /\ Len(apiKeys') = Len(apiKeys) /\ Len(apiKeys) \in Nat
         /\ \A m \in 1..Len(apiKeys) : apiKeys'[m] = IF m = n THEN row ELSE apiKeys[m]
<1>1. apiKeys \in Seq(ApiKeys)
  BY DEF AInv, AccountTypeOK
<1> QED
  BY <1>1, ExceptSeq

\* What the steps that change the API keys make of them.
LEMMA KeyRows ==
  ASSUME AInv, NEW k \in Calls, AddApiKey(k) \/ Revoke(k) \/ TouchApiKey(k)
  PROVE  /\ apiKeys' \in Seq(ApiKeys) /\ Len(apiKeys) <= Len(apiKeys')
         /\ \A n \in 1..Len(apiKeys) : ~ apiKeys[n].isActive => ~ apiKeys'[n].isActive
<1>1. apiKeys \in Seq(ApiKeys) /\ Len(apiKeys) \in Nat
  BY DEF AInv, AccountTypeOK
<1>2. CASE AddApiKey(k)
  <2>1. accountCall[k].by \in Phones
    BY <1>2 DEF AddApiKey, Doing, AInv, AccountCallsFit, AccountCallFits, SentStages
  <2>2. [user |-> accountCall[k].by, isActive |-> TRUE, used |-> 0] \in ApiKeys
    BY <2>1 DEF ApiKeys
  <2> QED
    BY <1>1, <1>2, <2>2 DEF AddApiKey
<1>3. CASE Revoke(k)
  <2>1. PICK n \in Nat : n = accountCall[k].keyNo /\ n \in 1..Len(apiKeys) /\ apiKeys[n] \in ApiKeys
    BY <1>3, KeyNamed DEF Revoke
  <2>2. [apiKeys[n] EXCEPT !.isActive = FALSE] \in ApiKeys
        /\ ~ [apiKeys[n] EXCEPT !.isActive = FALSE].isActive
    BY <2>1 DEF ApiKeys
  <2>3. apiKeys' = [apiKeys EXCEPT ![n] = [apiKeys[n] EXCEPT !.isActive = FALSE]]
    BY <1>3, <2>1 DEF Revoke
  <2>4. PICK row \in ApiKeys :
          row = [apiKeys[n] EXCEPT !.isActive = FALSE] /\ ~ row.isActive
    BY <2>2
  <2>5. /\ apiKeys' \in Seq(ApiKeys) /\ Len(apiKeys') = Len(apiKeys) /\ Len(apiKeys) \in Nat
        /\ \A m \in 1..Len(apiKeys) : apiKeys'[m] = IF m = n THEN row ELSE apiKeys[m]
    BY <2>1, <2>3, <2>4, KeyRowSet
  <2>6. ASSUME NEW key \in 1..Len(apiKeys), ~ apiKeys[key].isActive
        PROVE  ~ apiKeys'[key].isActive
    <3>1. CASE key = n
      BY <2>4, <2>5, <2>6, <3>1
    <3>2. CASE key # n
      BY <2>5, <2>6, <3>2
    <3> QED
      BY <3>1, <3>2
  <2> QED
    BY <2>5, <2>6
<1>4. CASE TouchApiKey(k)
  <2>1. PICK n \in Nat : n = accountCall[k].keyNo /\ n \in 1..Len(apiKeys) /\ apiKeys[n] \in ApiKeys
    BY <1>4, KeyNamed DEF TouchApiKey
  <2>2. PICK m \in Nat : m = accountCall[k].new
    BY <1>4, KeyNamed DEF TouchApiKey
  <2>3. [apiKeys[n] EXCEPT !.used = m] \in ApiKeys
        /\ ([apiKeys[n] EXCEPT !.used = m].isActive <=> apiKeys[n].isActive)
    BY <2>1 DEF ApiKeys
  <2>4. apiKeys' = [apiKeys EXCEPT ![n] = [apiKeys[n] EXCEPT !.used = m]]
    BY <1>4, <2>1, <2>2 DEF TouchApiKey
  <2>5. PICK row \in ApiKeys :
          row = [apiKeys[n] EXCEPT !.used = m] /\ (row.isActive <=> apiKeys[n].isActive)
    BY <2>3
  <2>6. /\ apiKeys' \in Seq(ApiKeys) /\ Len(apiKeys') = Len(apiKeys) /\ Len(apiKeys) \in Nat
        /\ \A i \in 1..Len(apiKeys) : apiKeys'[i] = IF i = n THEN row ELSE apiKeys[i]
    BY <2>1, <2>4, <2>5, KeyRowSet
  <2>7. ASSUME NEW key \in 1..Len(apiKeys), ~ apiKeys[key].isActive
        PROVE  ~ apiKeys'[key].isActive
    <3>1. CASE key = n
      BY <2>5, <2>6, <2>7, <3>1
    <3>2. CASE key # n
      BY <2>6, <2>7, <3>2
    <3> QED
      BY <3>1, <3>2
  <2> QED
    BY <2>6, <2>7
<1> QED
  BY <1>2, <1>3, <1>4

\* A key is added, revoked or marked as used.
LEMMA KeyRowKeeps ==
  ASSUME AInv, NEW k \in Calls, AddApiKey(k) \/ Revoke(k) \/ TouchApiKey(k), UNCHANGED edited
  PROVE  AInv'
<1>1. Leave(k) /\ Working /\ UNCHANGED <<users, files, tokens>>
  BY DEF AddApiKey, Revoke, TouchApiKey, RestOfAccounts
<1>2. apiKeys' \in Seq(ApiKeys) /\ Len(apiKeys) <= Len(apiKeys')
  BY KeyRows
<1>3. RowsKeep
  BY <1>1 DEF RowsKeep, Exists
<1>4. tokens' \subseteq Tokens /\ TokensMatchAccounts'
  BY <1>1, <1>3, TokensStay
<1> QED
  BY <1>1, <1>2, <1>3, <1>4, AccountNobodyFits, AccountNobodyFitsNext, AccountStepKeeps
     DEF Leave, AInv, AccountTypeOK

\* A failure ends a request; an upload whose file is there has it deleted.
LEMMA AccountFailureKeeps ==
  ASSUME AInv, NEW k \in Calls, AccountDatabaseFails(k), UNCHANGED <<apiKeys, edited>>
  PROVE  AInv'
<1>1. PICK c \in AccountCalls : c = accountCall[k]
  BY DEF AInv, AccountTypeOK
<1>2. UNCHANGED <<users, files, tokens, apiKeys, edited>> /\ Failing
  BY DEF AccountDatabaseFails
<1>3. CASE Leave(k)
  BY <1>2, <1>3, LeaveKeeps
<1>4. CASE c.op = "uploadProfilePicture" /\ Step(k, "cleaning")
  <2>1. PICK d \in AccountCalls :
           /\ Set(k, d) /\ d.at = "cleaning" /\ d.op = c.op /\ d.by = c.by /\ d.role = c.role
           /\ d.user = c.user /\ d.want = c.want /\ d.old = c.old /\ d.new = c.new
    BY <1>1, <1>4, StepOn DEF AccountStages
  <2>2. c.at \in SentStages /\ c.old \in Pictures
    BY <1>1, <1>4, UploadThere
  <2> QED
    BY <1>1, <1>2, <1>4, <2>1, <2>2, UploadGoesOn DEF AInv, AccountTypeOK
<1> QED
  BY <1>1, <1>3, <1>4 DEF AccountDatabaseFails

\* A log is written, or not, after the row.
LEMMA WriteLogKeeps ==
  ASSUME AInv, NEW k \in Calls, WriteLog(k), UNCHANGED <<apiKeys, edited>>
  PROVE  AInv'
BY LeaveKeeps DEF WriteLog

\* The server starts again: the requests are gone.
LEMMA AccountRestartKeeps ==
  ASSUME AInv, RestartAccounts, UNCHANGED <<apiKeys, edited>>
  PROVE  AInv'
<1>1. BudgetOK'
  BY AccountBudgetKept DEF AInv, AccountTypeOK, RestartAccounts
<1>2. \A j \in Calls : AccountCallFits(accountCall[j])'
  BY DEF RestartAccounts, NoAccountCall, AccountCallFits, SentStages
<1>3. TokensMatchAccounts'
  BY DEF RestartAccounts, AInv, TokensMatchAccounts, Exists
<1> QED
  BY <1>1, <1>2, <1>3, AccountNobodyFits DEF RestartAccounts, AInv, AccountTypeOK, AccountCallsFit

\* Nothing happens.
LEMMA AccountStutterKeeps ==
  ASSUME AInv, UNCHANGED accountVars
  PROVE  AInv'
<1>1. BudgetOK'
  BY AccountBudgetKept DEF AInv, AccountTypeOK, accountVars, Working
<1>2. AccountTypeOK'
  BY <1>1 DEF AInv, AccountTypeOK, accountVars, accountState
<1>3. TokensMatchAccounts'
  BY DEF AInv, TokensMatchAccounts, Exists, accountVars, accountState
<1>4. \A j \in Calls : AccountCallFits(accountCall[j])'
  BY
     DEF AInv, AccountCallsFit, AccountCallFits, Exists, HasRole, Pictures, accountVars,
         accountState, budgetVars
<1> QED
  BY <1>2, <1>3, <1>4 DEF AInv, AccountCallsFit

\* Every step keeps the invariant.
LEMMA AInvKept ==
  ASSUME AInv, PicturesApart, [AccountNext]_accountVars
  PROVE  AInv'
<1>1. ASSUME NEW k \in Calls, Joining(k), UNCHANGED <<apiKeys, edited>> PROVE AInv'
  BY <1>1, JoinKeeps, RefreshKeeps, LookupKeeps, CredentialsKeep, RenewKeeps, CreateUserKeeps,
     CreateAdminKeeps, AccountAssumption DEF Joining
<1>2. ASSUME NEW k \in Calls, Serving(k), UNCHANGED <<apiKeys, edited>> PROVE AInv'
  BY <1>2, SentKeeps, AuthenticateKeeps, ReadUserKeeps, WriteUserKeeps, WriteLogKeeps,
     ReadPictureKeeps, DeletePictureKeeps, StorePictureKeeps, CleanUpKeeps DEF Serving
<1>3. ASSUME NEW k \in Calls, UsingKeys(k), UNCHANGED edited PROVE AInv'
  BY <1>3, SentKeeps, KeyComes, KeyGoesOn, KeyRowKeeps DEF UsingKeys, CreateApiKey
<1>4. ASSUME NEW k \in Calls, AccountDatabaseFails(k), UNCHANGED <<apiKeys, edited>> PROVE AInv'
  BY <1>4, AccountFailureKeeps
<1> QED
  BY <1>1, <1>2, <1>3, <1>4, WriteProfileKeeps, AccountRestartKeeps, AccountStutterKeeps
  DEF AccountNext

-----------------------------------------------------------------------------
(* Pictures.                                                               *)

\* The rows' pictures are left, but for what a user writes; a new row has none.
PicturesStay ==
  /\ edited \subseteq edited'
  /\ \A p \in Phones :
       users'[p] # Nil =>
         \/ Exists(p) /\ users'[p].picture = users[p].picture
         \/ users'[p].picture = 0
         \/ users'[p].picture = Elsewhere /\ <<p, "picture">> \in edited'

\* A step of a request that is no upload afterwards, or of none.
OthersMove(k) ==
  \A j \in Calls :
    /\ j # k => accountCall'[j] = accountCall[j]
    /\ j = k => accountCall'[j].op # "uploadProfilePicture"

\* The pictures stay apart when no upload comes and none reads or stores its picture.
LEMMA ApartStays ==
  ASSUME AInv, PicturesApart, NEW k, OthersMove(k), PicturesStay, BudgetOK',
         requests <= requests'
  PROVE  PicturesApart'
<1>1. requests \in Nat
  BY DEF AInv, AccountTypeOK, BudgetOK
<1>2. \A j \in Calls : Uploading(j)' => Uploading(j) /\ accountCall'[j] = accountCall[j]
  BY DEF OthersMove, Uploading
<1>3. \A j \in Calls : Uploading(j) => accountCall[j].new \notin {0, Elsewhere}
  BY <1>1 DEF Uploading, AInv, AccountTypeOK, BudgetOK, AccountCallsFit, AccountCallFits, Elsewhere
<1>4. ASSUME NEW i \in Calls, NEW j \in Calls, Uploading(i)', Uploading(j)'
      PROVE  /\ accountCall'[i].old # accountCall'[j].new
             /\ i # j => accountCall'[i].new # accountCall'[j].new
  BY <1>2, <1>4 DEF PicturesApart
<1>5. ASSUME NEW p \in Phones, users'[p] # Nil
      PROVE  /\ users'[p].picture \in Pictures'
             /\ \A j \in Calls : Uploading(j)' => users'[p].picture # accountCall'[j].new
  <2>1. CASE Exists(p) /\ users'[p].picture = users[p].picture
    BY <2>1, <1>1, <1>2 DEF PicturesApart, Pictures, BudgetOK
  <2>2. CASE users'[p].picture \in {0, Elsewhere}
    BY <2>2, <1>2, <1>3 DEF Pictures, BudgetOK
  <2> QED
    BY <2>1, <2>2, <1>5 DEF PicturesStay
<1> QED
  BY <1>4, <1>5 DEF PicturesApart, Uploading, Exists

\* Failures are not forgotten.
LEMMA TroubleStays ==
  ASSUME BudgetOK, Arriving \/ Failing \/ Crashing \/ Working, faults' + crashes' = 0
  PROVE  faults + crashes = 0 /\ ~ Failing /\ ~ Crashing
BY DEF BudgetOK, Arriving, Failing, Crashing, Working, budgetVars

\* What is on disk stays there when no file is deleted and no upload leaves its last stage.
LEMMA DiskStays ==
  ASSUME AInv, UploadsOnDisk, PictureExists, NEW k, OthersMove(k), PicturesStay,
         \A p \in Phones : files[p] \subseteq files'[p],
         Arriving \/ Failing \/ Crashing \/ Working,
         \/ Failing \/ Crashing
         \/ \A j \in Calls : accountCall[j].at = "storing" => accountCall'[j] = accountCall[j]
  PROVE  UploadsOnDisk' /\ PictureExists'
<1> SUFFICES ASSUME faults' + crashes' = 0 PROVE UploadsOnDisk' /\ PictureExists'
  BY DEF UploadsOnDisk, PictureExists
<1>1. faults + crashes = 0 /\ ~ Failing /\ ~ Crashing
  BY TroubleStays DEF AInv, AccountTypeOK
<1>2. \A j \in Calls : Uploading(j)' => Uploading(j) /\ accountCall'[j] = accountCall[j]
  BY DEF OthersMove, Uploading
<1>3. \A j \in Calls : Uploading(j) => accountCall[j].user \in Phones
  BY UploadThere DEF Uploading, AInv, AccountTypeOK
<1>4. UploadsOnDisk'
  BY <1>1, <1>2, <1>3 DEF UploadsOnDisk, Uploading
<1>5. PictureExists'
  <2> SUFFICES ASSUME NEW p \in Phones, users'[p] # Nil, users'[p].picture # 0, NamedByUploads'
               PROVE  \/ users'[p].picture \in files'[p]
                      \/ \E j \in Calls : accountCall'[j].at = "storing" /\ accountCall'[j].user = p
    BY DEF PictureExists, Exists
  <2>1. Exists(p) /\ users'[p].picture = users[p].picture /\ NamedByUploads
    BY DEF PicturesStay, NamedByUploads
  <2>2. \/ users[p].picture \in files[p]
        \/ \E j \in Calls : accountCall[j].at = "storing" /\ accountCall[j].user = p
    BY <2>1, <1>1 DEF PictureExists
  <2> QED
    BY <2>1, <2>2, <1>1
<1> QED
  BY <1>4, <1>5

\* A step of a request that is no upload afterwards keeps what is known of pictures.
LEMMA QuietPictures ==
  ASSUME AInv, PicInv, NEW k \in Calls, OthersMove(k), PicturesStay,
         \A p \in Phones : files[p] \subseteq files'[p],
         accountCall[k].at # "storing" \/ Failing, Arriving \/ Failing \/ Working
  PROVE  PicInv'
<1>1. BudgetOK' /\ requests' \in Nat /\ requests <= requests'
  BY AccountBudgetKept DEF AInv, AccountTypeOK
<1>2. \/ Failing
      \/ \A j \in Calls : accountCall[j].at = "storing" => accountCall'[j] = accountCall[j]
  BY DEF OthersMove
<1> QED
  BY <1>1, <1>2, ApartStays, DiskStays DEF PicInv

\* A request that becomes something that is no upload.
LEMMA SetMoves ==
  ASSUME AInv, NEW k \in Calls, NEW d, Set(k, d), d.op # "uploadProfilePicture"
  PROVE  OthersMove(k)
BY DEF Set, OthersMove, AInv, AccountTypeOK

\* A request that ends is no upload.
LEMMA LeaveMoves ==
  ASSUME AInv, NEW k \in Calls, Leave(k)
  PROVE  OthersMove(k)
BY SetMoves DEF Leave, NoAccountCall

\* A request that is no upload goes on.
LEMMA StepMoves ==
  ASSUME AInv, NEW k \in Calls, NEW stage \in AccountStages, Step(k, stage),
         accountCall[k].op # "uploadProfilePicture"
  PROVE  OthersMove(k)
<1>1. PICK c \in AccountCalls : c = accountCall[k]
  BY DEF AInv, AccountTypeOK
<1>2. PICK d \in AccountCalls : Set(k, d) /\ d.op = c.op
  BY <1>1, StepOn
<1> QED
  BY <1>1, <1>2, SetMoves

\* A step that leaves the rows and the files alone.
LEMMA NothingTouched ==
  ASSUME UNCHANGED <<users, edited>>
  PROVE  PicturesStay
BY DEF PicturesStay, Exists

\* Registration, login and refresh, and a start of the server.
LEMMA JoiningPictures ==
  ASSUME AInv, PicInv, NEW k \in Calls, Joining(k), UNCHANGED edited
  PROVE  PicInv'
<1>1. files' = files /\ (Arriving \/ Working)
  BY DEF Joining, Register, Login, RefreshToken, Boot, CheckUnknown, CreateUser, ComparePassword,
         CheckRefresh, Renew, CountAdmins, CreateAdmin, Come
<1>2. PICK c \in AccountCalls : c = accountCall[k] /\ AccountCallFits(c)
  BY DEF AInv, AccountTypeOK, AccountCallsFit
<1>3. OthersMove(k) /\ c.at # "storing"
  <2>1. CASE (\E p \in Phones : Register(k, p) \/ Login(k, p)) \/ Boot(k)
    BY <2>1, <1>2, SetMoves DEF Register, Login, Boot, Come, NoAccountCall
  <2>2. CASE \E t \in tokens : RefreshToken(k, t)
    BY <2>2, <1>2, SetMoves DEF RefreshToken, Come, NoAccountCall
  <2>3. CASE CheckUnknown(k) \/ CountAdmins(k)
    BY <2>3, <1>2, LeaveMoves, StepMoves DEF CheckUnknown, CountAdmins, Doing, AccountStages
  <2>4. CASE ComparePassword(k) \/ CheckRefresh(k)
    <3>1. c.op \in {"login", "refresh"} /\ c.at = "comparing"
      BY <2>4, <1>2 DEF ComparePassword, CheckRefresh, Doing
    <3>2. CASE Leave(k)
      BY <3>1, <3>2, LeaveMoves
    <3>3. CASE Set(k, [c EXCEPT !.at = "renewing", !.role = Row(k).role])
      <4>1. [c EXCEPT !.at = "renewing", !.role = Row(k).role].op = c.op
        BY DEF AccountCalls
      <4> QED
        BY <3>1, <3>3, <4>1, SetMoves
    <3> QED
      BY <2>4, <1>2, <3>2, <3>3 DEF ComparePassword, CheckRefresh
  <2>5. CASE Renew(k) \/ CreateUser(k) \/ CreateAdmin(k)
    BY <2>5, <1>2, LeaveMoves DEF Renew, CreateUser, CreateAdmin, Doing
  <2> QED
    BY <2>1, <2>2, <2>3, <2>4, <2>5 DEF Joining
<1>4. PicturesStay
  <2>1. CASE users' = users
    BY <2>1, NothingTouched
  <2>2. ASSUME NEW role \in Roles, NEW status \in AccountStatuses, NEW kyc \in KycStatuses,
               c.user \in Phones, Insert(k, UserRow(role, status, kyc))
        PROVE  PicturesStay
    <3>1. UserRow(role, status, kyc).picture = 0
      BY DEF UserRow
    <3>2. \A p \in Phones : users'[p] = users[p] \/ users'[p] = UserRow(role, status, kyc)
      BY <2>2, <1>2 DEF Insert, UpdateUser, AInv, AccountTypeOK
    <3> QED
      BY <3>1, <3>2 DEF PicturesStay, Exists
  <2>3. CASE CreateUser(k)
    BY <2>2, <2>3, <1>2 DEF CreateUser, Doing, AccountCallFits, Roles, AccountStatuses, KycStatuses
  <2>4. CASE CreateAdmin(k)
    BY <2>2, <2>4, <1>2 DEF CreateAdmin, Doing, AccountCallFits, Roles, AccountStatuses, KycStatuses
  <2> QED
    BY <2>1, <2>3, <2>4 DEF Joining, Register, Login, RefreshToken, Boot, CheckUnknown,
       ComparePassword, CheckRefresh, Renew, CountAdmins, Come
<1> QED
  BY <1>1, <1>2, <1>3, <1>4, QuietPictures

\* The requests that come with a token and bring no picture.
LEMMA SentPictures ==
  ASSUME AInv, PicInv, NEW k \in Calls, NEW t \in tokens, UNCHANGED edited,
         \/ SubmitKYC(k, t) \/ UpdateProfile(k, t) \/ CreateApiKey(k, t)
         \/ \E p \in Phones : VerifyKYC(k, t, p) \/ UpdateUserStatus(k, t, p) \/ DeleteUser(k, t, p)
         \/ \E n \in 1..Len(apiKeys) : RevokeApiKey(k, t, n)
  PROVE  PicInv'
<1>1. ASSUME NEW op, op # "uploadProfilePicture", NEW p, NEW want, Send(k, t, op, p, want)
      PROVE  PicInv'
  <2>1. OthersMove(k) /\ UNCHANGED <<users, files>> /\ Arriving /\ accountCall[k].at = "idle"
    BY <1>1, SetMoves DEF Send, Come, NoAccountCall
  <2> QED
    BY <2>1, NothingTouched, QuietPictures
<1>2. ASSUME NEW n \in 1..Len(apiKeys), RevokeApiKey(k, t, n) PROVE PicInv'
  <2>1. OthersMove(k) /\ UNCHANGED <<users, files>> /\ Arriving /\ accountCall[k].at = "idle"
    BY <1>2, SetMoves DEF RevokeApiKey, Come, NoAccountCall
  <2> QED
    BY <2>1, NothingTouched, QuietPictures
<1> QED
  BY <1>1, <1>2 DEF SubmitKYC, UpdateProfile, CreateApiKey, VerifyKYC, UpdateUserStatus, DeleteUser

\* The handlers that have nothing to do with pictures, and the use of API keys.
LEMMA HandlersPictures ==
  ASSUME AInv, PicInv, NEW k \in Calls, UNCHANGED edited,
         \/ ReadUser(k) \/ WriteUser(k) \/ WriteLog(k)
         \/ AddApiKey(k) \/ FindApiKey(k) \/ Revoke(k) \/ IdentifyApiKey(k) \/ TouchApiKey(k)
         \/ \E n \in 1..Len(apiKeys) : UseApiKey(k, n)
  PROVE  PicInv'
<1>1. PICK c \in AccountCalls : c = accountCall[k] /\ AccountCallFits(c)
  BY DEF AInv, AccountTypeOK, AccountCallsFit
<1>2. files' = files /\ (Arriving \/ Working)
  BY DEF ReadUser, WriteUser, WriteLog, AddApiKey, FindApiKey, Revoke, IdentifyApiKey,
         TouchApiKey, UseApiKey, RestOfAccounts, Come
<1>3. OthersMove(k) /\ c.at # "storing"
  <2>1. CASE ReadUser(k)
    <3>1. [c EXCEPT !.at = "writing", !.seen = Row(k).kyc].op = c.op
      BY DEF AccountCalls
    <3> QED
      BY <2>1, <3>1, <1>1, LeaveMoves, SetMoves DEF ReadUser
  <2>2. CASE WriteUser(k)
    <3>1. c.op \in RowOps /\ c.at = "writing"
      BY <2>2, <1>1, WrittenRow
    <3> QED
      BY <2>2, <3>1, <1>1, LeaveMoves, StepMoves DEF WriteUser, RowOps, AccountStages
  <2>3. CASE WriteLog(k) \/ AddApiKey(k) \/ Revoke(k) \/ TouchApiKey(k)
    BY <2>3, <1>1, LeaveMoves DEF WriteLog, AddApiKey, Revoke, TouchApiKey, Doing
  <2>4. CASE FindApiKey(k)
    BY <2>4, <1>1, LeaveMoves, StepMoves DEF FindApiKey, Doing, AccountStages
  <2>5. CASE IdentifyApiKey(k)
    BY <2>5, <1>1, LeaveMoves, StepMoves DEF IdentifyApiKey, AccountCallFits, AccountStages
  <2>6. CASE \E n \in 1..Len(apiKeys) : UseApiKey(k, n)
    BY <2>6, <1>1, SetMoves DEF UseApiKey, Come, NoAccountCall
  <2> QED
    BY <2>1, <2>2, <2>3, <2>4, <2>5, <2>6
<1>4. PicturesStay
  <2>1. CASE WriteUser(k)
    <3>1. /\ c.user \in Phones /\ Exists(c.user) /\ users[c.user] \in UserRows
          /\ c.op \in RowOps /\ c.at = "writing"
          /\ users'[c.user] = Decided(users[c.user], c)
          /\ \A q \in Phones \ {c.user} : users'[q] = users[q]
      BY <2>1, <1>1, WrittenRow
    <3>2. Decided(users[c.user], c).picture = users[c.user].picture
      BY <3>1, <1>1, Decision DEF AccountCallFits, SentStages
    <3> QED
      BY <3>1, <3>2 DEF PicturesStay, Exists
  <2>2. CASE users' = users
    BY <2>2, NothingTouched
  <2> QED
    BY <2>1, <2>2 DEF ReadUser, WriteLog, AddApiKey, FindApiKey, Revoke, IdentifyApiKey,
       TouchApiKey, UseApiKey, RestOfAccounts, Come
<1> QED
  BY <1>1, <1>2, <1>3, <1>4, QuietPictures

\* A body may name any picture but an upload that is under way.
LEMMA ProfilePictures ==
  ASSUME AInv, PicInv, NEW k \in Calls, WriteProfile(k)
  PROVE  PicInv'
<1>1. PICK c \in AccountCalls : c = accountCall[k]
  BY DEF AInv, AccountTypeOK
<1>2. PICK column \in Columns, row \in UserRows :
        /\ c.user \in Phones /\ Exists(c.user) /\ users[c.user] \in UserRows
        /\ row \in ProfileRows(users[c.user], column)
        /\ edited' = edited \cup {<<c.user, column>>}
        /\ users'[c.user] = row /\ \A q \in Phones \ {c.user} : users'[q] = users[q]
  BY <1>1, ProfileWritten
<1>3. /\ column # "picture" => row.picture = users[c.user].picture
      /\ column = "picture" => row.picture \in {0, Elsewhere}
  BY <1>2, ProfileRow
<1>4. PicturesStay
  BY <1>2, <1>3 DEF PicturesStay, Exists
<1>5. OthersMove(k) /\ files' = files /\ Working /\ accountCall[k].at # "storing"
  BY LeaveMoves DEF WriteProfile, Doing
<1> QED
  BY <1>4, <1>5, QuietPictures

\* The pictures stay apart when an upload goes on with what it brought, and no row changes.
LEMMA UploadStaysApart ==
  ASSUME AInv, PicturesApart, NEW k \in Calls, NEW c \in AccountCalls, c = accountCall[k],
         c.op = "uploadProfilePicture", NEW d \in AccountCalls, Set(k, d),
         d.op = c.op, d.new = c.new,
         d.old = c.old \/ \E p \in Phones : Exists(p) /\ d.old = users[p].picture,
         UNCHANGED <<users, edited>>, BudgetOK', requests <= requests'
  PROVE  PicturesApart'
<1>1. requests \in Nat
  BY DEF AInv, AccountTypeOK, BudgetOK
<1>2. accountCall'[k] = d /\ \A j \in Calls \ {k} : accountCall'[j] = accountCall[j]
  BY DEF Set, AInv, AccountTypeOK
<1>3. Uploading(k) /\ \A j \in Calls : Uploading(j)' => Uploading(j) /\ accountCall'[j].new = accountCall[j].new
  BY <1>2 DEF Uploading
<1>4. \A j \in Calls : Uploading(j) => d.old # accountCall[j].new
  BY <1>3 DEF PicturesApart
<1>5. ASSUME NEW i \in Calls, NEW j \in Calls, Uploading(i)', Uploading(j)'
      PROVE  /\ accountCall'[i].old # accountCall'[j].new
             /\ i # j => accountCall'[i].new # accountCall'[j].new
  <2>1. CASE i = k
    BY <2>1, <1>2, <1>3, <1>4, <1>5 DEF PicturesApart
  <2>2. CASE i # k
    BY <2>2, <1>2, <1>3, <1>5 DEF PicturesApart
  <2> QED
    BY <2>1, <2>2
<1>6. ASSUME NEW p \in Phones, users'[p] # Nil
      PROVE  /\ users'[p].picture \in Pictures'
             /\ \A j \in Calls : Uploading(j)' => users'[p].picture # accountCall'[j].new
  BY <1>1, <1>3, <1>6 DEF PicturesApart, Exists, Pictures, BudgetOK
<1> QED
  BY <1>5, <1>6 DEF PicturesApart, Uploading, Exists

\* An upload arrives: its number is a new one.
LEMMA UploadComes ==
  ASSUME AInv, PicInv, NEW k \in Calls, NEW t \in tokens, UploadProfilePicture(k, t), UNCHANGED edited
  PROVE  PicInv'
<1>1. PICK n \in Nat : n = requests + 1
  BY DEF AInv, AccountTypeOK, BudgetOK
<1>2. /\ accountCall'[k].op = "uploadProfilePicture" /\ accountCall'[k].at = "authenticating"
      /\ accountCall'[k].old = 0 /\ accountCall'[k].new = n
      /\ \A j \in Calls \ {k} : accountCall'[j] = accountCall[j]
      /\ UNCHANGED <<users, files>> /\ Arriving /\ accountCall[k].at = "idle"
  BY <1>1 DEF UploadProfilePicture, Send, Come, Set, NoAccountCall, AInv, AccountTypeOK
<1>3. requests' = n /\ requests \in Nat /\ n # Elsewhere
  BY <1>1, <1>2 DEF Arriving, AInv, AccountTypeOK, BudgetOK, Elsewhere
<1>4. \A j \in Calls : Uploading(j) =>
        accountCall[j].new \in 1..requests /\ accountCall[j].old \in Pictures
  BY DEF Uploading, AInv, AccountCallsFit, AccountCallFits
<1>5. PicturesApart'
  <2>1. ASSUME NEW i \in Calls, NEW j \in Calls, Uploading(i)', Uploading(j)'
        PROVE  /\ accountCall'[i].old # accountCall'[j].new
               /\ i # j => accountCall'[i].new # accountCall'[j].new
    <3>1. CASE i # k /\ j # k
      BY <2>1, <3>1, <1>2 DEF PicInv, PicturesApart, Uploading
    <3>2. CASE i = k /\ j = k
      BY <3>2, <1>1, <1>2, <1>3
    <3>3. CASE i = k /\ j # k
      BY <2>1, <3>3, <1>1, <1>2, <1>3, <1>4 DEF Uploading, Pictures
    <3>4. CASE i # k /\ j = k
      BY <2>1, <3>4, <1>1, <1>2, <1>3, <1>4 DEF Uploading, Pictures
    <3> QED
      BY <3>1, <3>2, <3>3, <3>4
  <2>2. ASSUME NEW p \in Phones, users'[p] # Nil
        PROVE  /\ users'[p].picture \in Pictures'
               /\ \A j \in Calls : Uploading(j)' => users'[p].picture # accountCall'[j].new
    <3>1. /\ users[p].picture \in Pictures
          /\ \A j \in Calls : Uploading(j) => users[p].picture # accountCall[j].new
      BY <2>2, <1>2 DEF PicInv, PicturesApart, Exists
    <3>2. users'[p].picture = users[p].picture
      BY <1>2
    <3>3. users[p].picture # n
      BY <3>1, <1>1, <1>3 DEF Pictures
    <3> QED
      BY <3>1, <3>2, <3>3, <1>1, <1>2, <1>3 DEF Uploading, Pictures
  <2> QED
    BY <2>1, <2>2 DEF PicturesApart, Uploading, Exists
<1>6. faults' = faults /\ crashes' = crashes
  BY <1>2 DEF Arriving
<1>7. UploadsOnDisk'
  BY <1>2, <1>6 DEF PicInv, UploadsOnDisk, Uploading, FileStages
<1>8. PictureExists'
  BY <1>2, <1>6 DEF PicInv, PictureExists, NamedByUploads, Exists
<1> QED
  BY <1>5, <1>7, <1>8 DEF PicInv

\* The sender is checked: an upload is on disk from then on.
LEMMA AuthenticatePictures ==
  ASSUME AInv, PicInv, NEW k \in Calls, Authenticate(k), UNCHANGED edited
  PROVE  PicInv'
<1>1. PICK c \in AccountCalls : c = accountCall[k]
  BY DEF AInv, AccountTypeOK
<1>2. c.at = "authenticating" /\ Working /\ users' = users
  BY <1>1 DEF Authenticate
<1>3. CASE ~ (Admitted(c) /\ c.op = "uploadProfilePicture")
  <2>1. OthersMove(k) /\ files' = files
    BY <1>1, <1>3, LeaveMoves, StepMoves DEF Authenticate, AccountStages
  <2> QED
    BY <2>1, <1>1, <1>2, NothingTouched, QuietPictures
<1>4. CASE Admitted(c) /\ c.op = "uploadProfilePicture"
  <2>1. PICK d \in AccountCalls :
           /\ Set(k, d) /\ d.at = "handling" /\ d.op = c.op /\ d.user = c.user /\ d.old = c.old
           /\ d.new = c.new
    BY <1>1, <1>4, StepOn DEF AccountStages, Authenticate
  <2>2. requests' = requests /\ faults' = faults /\ crashes' = crashes /\ requests \in Nat
    BY <1>2 DEF Working, budgetVars, AInv, AccountTypeOK, BudgetOK
  <2>3. PicturesApart'
    BY <2>1, <2>2, <1>1, <1>2, <1>4, UploadStaysApart, AccountBudgetKept
    DEF PicInv, AInv, AccountTypeOK
  <2>4. c.user \in Phones /\ c.by = c.user
    BY <1>1, <1>4, UploadThere
  <2>5. /\ c.new \in files'[c.user]
        /\ \A p \in Phones : files[p] \subseteq files'[p]
    BY <2>4, <1>1, <1>4 DEF Authenticate, AInv, AccountTypeOK
  <2>6. accountCall'[k] = d /\ \A j \in Calls \ {k} : accountCall'[j] = accountCall[j]
    BY <2>1 DEF Set, AInv, AccountTypeOK
  <2>7. UploadsOnDisk'
    <3> SUFFICES ASSUME faults + crashes = 0, NEW j \in Calls, Uploading(j)'
                 PROVE  /\ accountCall'[j].at # "cleaning"
                        /\ accountCall'[j].at \in FileStages =>
                             accountCall'[j].new \in files'[accountCall'[j].user]
      BY <2>2 DEF UploadsOnDisk, Uploading
    <3>1. CASE j = k
      BY <3>1, <2>1, <2>5, <2>6
    <3>2. CASE j # k
      <4>1. Uploading(j) /\ accountCall'[j] = accountCall[j] /\ accountCall[j].user \in Phones
        BY <3>2, <2>6, UploadThere DEF Uploading, AInv, AccountTypeOK
      <4> QED
        BY <4>1, <2>5 DEF PicInv, UploadsOnDisk
    <3> QED
      BY <3>1, <3>2
  <2>8. PictureExists'
    <3> SUFFICES ASSUME faults + crashes = 0, NamedByUploads, NEW p \in Phones,
                        Exists(p), users[p].picture # 0
                 PROVE  \/ users[p].picture \in files'[p]
                        \/ \E j \in Calls : accountCall'[j].at = "storing" /\ accountCall'[j].user = p
      BY <2>2, <1>2 DEF PictureExists, NamedByUploads, Exists
    <3>1. \/ users[p].picture \in files[p]
          \/ \E j \in Calls : accountCall[j].at = "storing" /\ accountCall[j].user = p
      BY DEF PicInv, PictureExists
    <3> QED
      BY <3>1, <2>5, <2>6, <1>1, <1>2
  <2> QED
    BY <2>3, <2>7, <2>8 DEF PicInv
<1> QED
  BY <1>3, <1>4

\* The picture of the row is read.
LEMMA ReadPicturePictures ==
  ASSUME AInv, PicInv, NEW k \in Calls, ReadPicture(k), UNCHANGED edited
  PROVE  PicInv'
<1>1. PICK c \in AccountCalls : c = accountCall[k] /\ c.op = "uploadProfilePicture" /\ c.at = "handling"
  BY DEF AInv, AccountTypeOK, ReadPicture, Doing
<1>2. c.user \in Phones /\ Exists(c.user)
  BY <1>1, UploadThere
<1>3. PICK old \in Nat : old = users[c.user].picture
  BY <1>1, <1>2, UploadThere DEF UserRows
<1>4. PICK stage \in {"storing", "replacing"} : stage = IF old = 0 THEN "storing" ELSE "replacing"
  OBVIOUS
<1> DEFINE d == [c EXCEPT !.at = stage, !.old = old]
<1>5. /\ d \in AccountCalls /\ d.op = c.op /\ d.at = stage
      /\ d.user = c.user /\ d.new = c.new /\ d.old = old
  BY DEF AccountCalls, AccountStages
<1>6. Set(k, d)
  BY <1>1, <1>3, <1>4 DEF ReadPicture, Row
<1> HIDE DEF d
<1>7. /\ requests' = requests /\ faults' = faults /\ crashes' = crashes /\ requests \in Nat
      /\ users' = users /\ files' = files
  BY DEF ReadPicture, Working, budgetVars, AInv, AccountTypeOK, BudgetOK
<1>8. PicturesApart'
  BY <1>1, <1>2, <1>3, <1>5, <1>6, <1>7, UploadStaysApart, AccountBudgetKept
  DEF PicInv, ReadPicture, AInv, AccountTypeOK
<1>9. accountCall'[k] = d /\ \A j \in Calls \ {k} : accountCall'[j] = accountCall[j]
  BY <1>6 DEF Set, AInv, AccountTypeOK
<1>10. UploadsOnDisk'
  BY <1>1, <1>5, <1>7, <1>9 DEF PicInv, UploadsOnDisk, Uploading, FileStages
<1>11. PictureExists'
  BY <1>1, <1>7, <1>9 DEF PicInv, PictureExists, NamedByUploads, Exists
<1> QED
  BY <1>8, <1>10, <1>11 DEF PicInv

\* The old file is deleted: nobody brought it again, and the row will name another.
LEMMA DeletePicturePictures ==
  ASSUME AInv, PicInv, NEW k \in Calls, DeletePicture(k), UNCHANGED edited
  PROVE  PicInv'
<1>1. PICK c \in AccountCalls : c = accountCall[k] /\ c.op = "uploadProfilePicture" /\ c.at = "replacing"
  BY DEF AInv, AccountTypeOK, DeletePicture, AccountCallsFit, AccountCallFits
<1>2. c.user \in Phones
  BY <1>1, UploadThere
<1>3. PICK d \in AccountCalls :
         /\ Set(k, d) /\ d.at = "storing" /\ d.op = c.op /\ d.user = c.user /\ d.old = c.old
         /\ d.new = c.new
  BY <1>1, StepOn DEF AccountStages, DeletePicture
<1>4. /\ requests' = requests /\ faults' = faults /\ crashes' = crashes /\ requests \in Nat
      /\ users' = users
  BY DEF DeletePicture, Working, budgetVars, AInv, AccountTypeOK, BudgetOK
<1>5. PicturesApart'
  BY <1>1, <1>3, <1>4, UploadStaysApart, AccountBudgetKept
  DEF PicInv, DeletePicture, AInv, AccountTypeOK
<1>6. accountCall'[k] = d /\ \A j \in Calls \ {k} : accountCall'[j] = accountCall[j]
  BY <1>3 DEF Set, AInv, AccountTypeOK
<1>7. /\ files'[c.user] = files[c.user] \ {c.old}
      /\ \A p \in Phones \ {c.user} : files'[p] = files[p]
  BY <1>1, <1>2 DEF DeletePicture, AInv, AccountTypeOK
<1>8. \A j \in Calls : Uploading(j) => c.old # accountCall[j].new
  BY <1>1 DEF PicInv, PicturesApart, Uploading
<1>9. UploadsOnDisk'
  <2> SUFFICES ASSUME faults + crashes = 0, NEW j \in Calls, Uploading(j)'
               PROVE  /\ accountCall'[j].at # "cleaning"
                      /\ accountCall'[j].at \in FileStages =>
                           accountCall'[j].new \in files'[accountCall'[j].user]
    BY <1>4 DEF UploadsOnDisk, Uploading
  <2>1. /\ Uploading(j) /\ accountCall'[j].new = accountCall[j].new
        /\ accountCall'[j].user = accountCall[j].user /\ accountCall[j].user \in Phones
        /\ accountCall'[j].at = accountCall[j].at \/ j = k
    BY <1>1, <1>2, <1>3, <1>6, UploadThere DEF Uploading, AInv, AccountTypeOK
  <2>2. accountCall'[j].at # "cleaning"
    BY <2>1, <1>3, <1>6 DEF PicInv, UploadsOnDisk
  <2>3. ASSUME accountCall'[j].at \in FileStages
        PROVE  accountCall[j].new \in files[accountCall[j].user]
    BY <2>1, <2>3, <1>1 DEF PicInv, UploadsOnDisk, FileStages
  <2>4. ASSUME accountCall[j].new \in files[accountCall[j].user]
        PROVE  accountCall[j].new \in files'[accountCall[j].user]
    BY <2>1, <2>4, <1>7, <1>8
  <2> QED
    BY <2>1, <2>2, <2>3, <2>4
<1>10. PictureExists'
  <2> SUFFICES ASSUME faults + crashes = 0, NamedByUploads, NEW p \in Phones,
                      Exists(p), users[p].picture # 0
               PROVE  \/ users[p].picture \in files'[p]
                      \/ \E j \in Calls : accountCall'[j].at = "storing" /\ accountCall'[j].user = p
    BY <1>4 DEF PictureExists, NamedByUploads, Exists
  <2>1. CASE p = c.user
    BY <2>1, <1>3, <1>6
  <2>2. CASE p # c.user
    <3>1. \/ users[p].picture \in files[p]
          \/ \E j \in Calls : accountCall[j].at = "storing" /\ accountCall[j].user = p
      BY DEF PicInv, PictureExists
    <3> QED
      BY <2>2, <3>1, <1>1, <1>6, <1>7
  <2> QED
    BY <2>1, <2>2
<1> QED
  BY <1>5, <1>9, <1>10 DEF PicInv

\* The row names what its upload brought.
LEMMA StorePicturePictures ==
  ASSUME AInv, PicInv, NEW k \in Calls, StorePicture(k), UNCHANGED edited
  PROVE  PicInv'
<1>1. PICK c \in AccountCalls : c = accountCall[k] /\ c.at = "storing"
  BY DEF AInv, AccountTypeOK, StorePicture
<1>2. /\ c.op = "uploadProfilePicture" /\ c.user \in Phones /\ c.new \in 1..requests
      /\ users'[c.user].picture = c.new
      /\ \A q \in Phones \ {c.user} : users'[q] = users[q]
  BY <1>1, StoredRow
<1>3. /\ requests' = requests /\ faults' = faults /\ crashes' = crashes /\ requests \in Nat
      /\ files' = files
  BY DEF StorePicture, Working, budgetVars, AInv, AccountTypeOK, BudgetOK
<1>4. OthersMove(k)
  BY LeaveMoves DEF StorePicture
<1>5. \A j \in Calls : Uploading(j)' => Uploading(j) /\ j # k /\ accountCall'[j] = accountCall[j]
  BY <1>4 DEF OthersMove, Uploading
<1>6. ASSUME NEW i \in Calls, NEW j \in Calls, Uploading(i)', Uploading(j)'
      PROVE  /\ accountCall'[i].old # accountCall'[j].new
             /\ i # j => accountCall'[i].new # accountCall'[j].new
  BY <1>5, <1>6 DEF PicInv, PicturesApart
<1>7. ASSUME NEW p \in Phones, users'[p] # Nil
      PROVE  /\ users'[p].picture \in Pictures'
             /\ \A j \in Calls : Uploading(j)' => users'[p].picture # accountCall'[j].new
  <2>1. CASE p = c.user
    <3>1. Uploading(k)
      BY <1>1, <1>2 DEF Uploading
    <3>2. \A j \in Calls : Uploading(j)' => c.new # accountCall'[j].new
      BY <3>1, <1>1, <1>5 DEF PicInv, PicturesApart
    <3> QED
      BY <2>1, <3>2, <1>2, <1>3 DEF Pictures
  <2>2. CASE p # c.user
    BY <2>2, <1>2, <1>3, <1>5, <1>7 DEF PicInv, PicturesApart, Exists, Pictures
  <2> QED
    BY <2>1, <2>2
<1>8. PicturesApart'
  BY <1>6, <1>7 DEF PicturesApart, Uploading, Exists
<1>9. UploadsOnDisk'
  BY <1>3, <1>5 DEF PicInv, UploadsOnDisk, Uploading
<1>10. PictureExists'
  <2> SUFFICES ASSUME faults + crashes = 0, NamedByUploads, NEW p \in Phones,
                      users'[p] # Nil, users'[p].picture # 0
               PROVE  \/ users'[p].picture \in files[p]
                      \/ \E j \in Calls : accountCall'[j].at = "storing" /\ accountCall'[j].user = p
    BY <1>3 DEF PictureExists, NamedByUploads, Exists
  <2>1. CASE p = c.user
    BY <2>1, <1>1, <1>2 DEF PicInv, UploadsOnDisk, Uploading, FileStages
  <2>2. CASE p # c.user
    <3>1. \/ users[p].picture \in files[p]
          \/ \E j \in Calls : accountCall[j].at = "storing" /\ accountCall[j].user = p
      BY <2>2, <1>2 DEF PicInv, PictureExists, Exists
    <3> QED
      BY <2>2, <3>1, <1>1, <1>2, <1>4 DEF OthersMove
  <2> QED
    BY <2>1, <2>2
<1> QED
  BY <1>8, <1>9, <1>10 DEF PicInv

\* After a failure nothing is claimed of the disk, and the pictures stay apart.
LEMMA FailurePictures ==
  ASSUME AInv, PicInv, NEW k \in Calls, AccountDatabaseFails(k) \/ CleanUp(k), UNCHANGED edited
  PROVE  PicInv'
<1>1. PICK c \in AccountCalls : c = accountCall[k]
  BY DEF AInv, AccountTypeOK
<1>2. /\ users' = users /\ (Failing \/ Working) /\ requests' = requests /\ requests \in Nat
      /\ BudgetOK'
  BY DEF AccountDatabaseFails, CleanUp, Failing, Working, budgetVars, AInv, AccountTypeOK, BudgetOK
<1>3. PicturesApart'
  <2>1. CASE Leave(k)
    BY <2>1, <1>2, LeaveMoves, NothingTouched, ApartStays DEF PicInv
  <2>2. CASE c.op = "uploadProfilePicture" /\ Step(k, "cleaning")
    <3>1. PICK d \in AccountCalls : Set(k, d) /\ d.op = c.op /\ d.old = c.old /\ d.new = c.new
      BY <1>1, <2>2, StepOn DEF AccountStages
    <3> QED
      BY <3>1, <1>1, <1>2, <2>2, UploadStaysApart DEF PicInv
  <2> QED
    BY <2>1, <2>2, <1>1 DEF AccountDatabaseFails, CleanUp
<1>4. faults' + crashes' # 0
  <2>1. CASE AccountDatabaseFails(k)
    BY <2>1 DEF AccountDatabaseFails, Failing, AInv, AccountTypeOK, BudgetOK
  <2>2. CASE CleanUp(k)
    <3>1. c.op = "uploadProfilePicture" /\ c.at = "cleaning"
      BY <2>2, <1>1 DEF CleanUp, AInv, AccountCallsFit, AccountCallFits
    <3>2. faults + crashes # 0
      BY <3>1, <1>1 DEF PicInv, UploadsOnDisk, Uploading
    <3> QED
      BY <2>2, <3>2 DEF CleanUp, Working, budgetVars
  <2> QED
    BY <2>1, <2>2
<1> QED
  BY <1>3, <1>4 DEF PicInv, UploadsOnDisk, PictureExists

\* A start of the server leaves no upload; nothing at all leaves what there is.
LEMMA RestPictures ==
  ASSUME AInv, PicInv, (RestartAccounts /\ UNCHANGED edited) \/ UNCHANGED accountVars
  PROVE  PicInv'
<1>1. CASE RestartAccounts
  <2>1. \A j \in Calls : ~ Uploading(j)'
    BY <1>1 DEF RestartAccounts, Uploading, NoAccountCall
  <2>2. users' = users /\ requests' = requests /\ faults' + crashes' # 0
    BY <1>1 DEF RestartAccounts, Crashing, AInv, AccountTypeOK, BudgetOK
  <2> QED
    BY <2>1, <2>2 DEF PicInv, PicturesApart, UploadsOnDisk, PictureExists, Exists, Pictures
<1>2. CASE UNCHANGED accountVars
  BY <1>2 DEF PicInv, PicturesApart, UploadsOnDisk, PictureExists, NamedByUploads, Exists,
     Uploading, Pictures,
     accountVars, accountState, budgetVars
<1> QED
  BY <1>1, <1>2

\* Every step keeps what is known of pictures.
LEMMA PicInvKept ==
  ASSUME AInv, PicInv, [AccountNext]_accountVars
  PROVE  PicInv'
<1>1. ASSUME NEW k \in Calls, Serving(k), UNCHANGED edited PROVE PicInv'
  BY <1>1, SentPictures, UploadComes, AuthenticatePictures, HandlersPictures,
     ReadPicturePictures, DeletePicturePictures, StorePicturePictures, FailurePictures DEF Serving
<1>2. ASSUME NEW k \in Calls, UsingKeys(k), UNCHANGED edited PROVE PicInv'
  BY <1>2, SentPictures, HandlersPictures DEF UsingKeys
<1> QED
  BY <1>1, <1>2, JoiningPictures, ProfilePictures, FailurePictures, RestPictures DEF AccountNext

-----------------------------------------------------------------------------
(* The theorems.                                                           *)

\* At the start there are accounts, with a token each, and no request.
LEMMA InvAtStart ==
  ASSUME AccountInit
  PROVE  AInv /\ PicInv
<1>1. users = [p \in Phones |-> IF p \in DOMAIN FirstAccounts THEN FirstAccounts[p] ELSE Nil]
  BY DEF AccountInit
<1>2. users \in [Phones -> UserRows \cup {Nil}]
  BY <1>1
<1>3. ASSUME NEW t \in tokens PROVE t \in Tokens /\ Exists(t.user) /\ users[t.user].role = t.role
  <2>1. PICK p \in DOMAIN FirstAccounts :
          t = [user |-> p, role |-> FirstAccounts[p].role, kind |-> "access"]
    BY DEF AccountInit
  <2>2. p \in Phones /\ users[p] = FirstAccounts[p] /\ FirstAccounts[p] \in UserRows
    BY <1>1
  <2>3. FirstAccounts[p].role \in Roles
    BY <2>2 DEF UserRows
  <2>4. t \in Tokens /\ t.user = p /\ t.role = FirstAccounts[p].role
    BY <2>1, <2>2, <2>3 DEF Tokens
  <2> QED
    BY <2>2, <2>4 DEF Exists
<1>4. \A k \in Calls : accountCall[k] = NoAccountCall
  BY DEF AccountInit
<1>5. AccountCallsFit
  BY <1>4, AccountNobodyFits DEF AccountCallsFit
<1>6. BudgetOK
  BY DEF AccountInit, BudgetInit, BudgetOK
<1>7. files \in [Phones -> SUBSET (1..MaxRequests)] /\ apiKeys \in Seq(ApiKeys)
  BY DEF AccountInit
<1>8. accountCall \in [Calls -> AccountCalls]
  BY AccountNobodyFits DEF AccountInit
<1>9. AccountTypeOK /\ TokensMatchAccounts
  BY <1>2, <1>3, <1>6, <1>7, <1>8 DEF AccountTypeOK, TokensMatchAccounts, AccountInit
<1>10. \A k \in Calls : ~ Uploading(k)
  BY <1>4 DEF Uploading, NoAccountCall
<1>11. \A p \in Phones : Exists(p) => users[p].picture = 0
  BY <1>1 DEF Exists
<1>12. 0 \in Pictures
  BY DEF AccountInit, BudgetInit, Pictures
<1>13. PicInv
  BY <1>10, <1>11, <1>12 DEF PicInv, PicturesApart, UploadsOnDisk, PictureExists
<1> QED
  BY <1>5, <1>9, <1>13 DEF AInv

\* What is known of the rows, the tokens, the requests and the pictures holds always.
THEOREM AccountsInvariant == AccountSpec => [](AInv /\ PicInv)
<1>1. AccountInit => AInv /\ PicInv
  BY InvAtStart
<1>2. (AInv /\ PicInv) /\ [AccountNext]_accountVars => (AInv /\ PicInv)'
  BY AInvKept, PicInvKept DEF PicInv
<1> QED
  BY <1>1, <1>2, PTL DEF AccountSpec

\* The variables of the accounts keep their types.
THEOREM AccountTypes == AccountSpec => []AccountTypeOK
<1>1. AInv /\ PicInv => AccountTypeOK
  BY DEF AInv
<1> QED
  BY <1>1, AccountsInvariant, PTL

\* Every token that was given out has the role of the account it names, also when it was made
\* of a row read long before, unless the user wrote the role: requireRole trusts the token.
THEOREM TokensAreTrue == AccountSpec => []TokensMatchAccounts
<1>1. AInv /\ PicInv => TokensMatchAccounts
  BY DEF AInv
<1> QED
  BY <1>1, AccountsInvariant, PTL

\* While nothing fails and no profile update names a picture, the one a row names is on
\* disk or about to be stored, however many uploads overlap (updateProfilePicture deletes
\* before it writes).
THEOREM PicturesAreThere == AccountSpec => []PictureExists
<1>1. AInv /\ PicInv => PictureExists
  BY DEF PicInv
<1> QED
  BY <1>1, AccountsInvariant, PTL

\* A row that is there changes only by its user's profile update, by a handler's write, or
\* by an upload that is stored.
LEMMA RowsChange ==
  ASSUME AInv, AccountNext, NEW p \in Phones, Exists(p), users'[p] # users[p]
  PROVE  \/ \E k \in Calls : WriteProfile(k) /\ Editing(k, p)
         \/ /\ UNCHANGED edited
            /\ \E k \in Calls : (WriteUser(k) \/ StorePicture(k)) /\ accountCall[k].user = p
<1>1. ASSUME NEW k \in Calls, UNCHANGED edited, WriteUser(k) \/ StorePicture(k)
      PROVE  accountCall[k].user = p
  <2>1. PICK c \in AccountCalls : c = accountCall[k]
    BY DEF AInv, AccountTypeOK
  <2>2. \A q \in Phones \ {c.user} : users'[q] = users[q]
    BY <1>1, <2>1, WrittenRow, StoredRow
  <2> QED
    BY <2>1, <2>2
<1>2. ASSUME NEW k \in Calls, CreateUser(k) \/ CreateAdmin(k) PROVE FALSE
  BY <1>2 DEF CreateUser, CreateAdmin, Insert, UpdateUser, Exists, AInv, AccountTypeOK
<1>3. ~ UNCHANGED users
  OBVIOUS
<1>4. ASSUME NEW k \in Calls, WriteProfile(k) PROVE Editing(k, p)
  <2>1. PICK c \in AccountCalls : c = accountCall[k]
    BY DEF AInv, AccountTypeOK
  <2>2. \A q \in Phones \ {c.user} : users'[q] = users[q]
    BY <1>4, <2>1, ProfileWritten
  <2>3. c.user = p
    BY <2>2
  <2>4. c.op = "updateProfile" /\ c.at = "handling" /\ accountCall'[k].at = "idle"
    BY <1>4, <2>1 DEF WriteProfile, Doing, Leave, Set, NoAccountCall, AInv, AccountTypeOK
  <2> QED
    BY <2>1, <2>3, <2>4 DEF Editing
<1>5. \/ \E k \in Calls : WriteProfile(k)
      \/ /\ UNCHANGED edited
         /\ \E k \in Calls : WriteUser(k) \/ StorePicture(k) \/ CreateUser(k) \/ CreateAdmin(k)
  <2>1. ASSUME NEW k \in Calls, Joining(k) PROVE CreateUser(k) \/ CreateAdmin(k)
    BY <1>3, <2>1 DEF Joining, Register, Login, RefreshToken, CheckUnknown, ComparePassword,
       CheckRefresh, Renew, Boot, CountAdmins, Come
  <2>2. ASSUME NEW k \in Calls, Serving(k) PROVE WriteUser(k) \/ StorePicture(k)
    BY <1>3, <2>2 DEF Serving, SubmitKYC, UpdateProfile, UploadProfilePicture, VerifyKYC,
       UpdateUserStatus, DeleteUser, Send, Come, Authenticate, ReadUser, WriteLog, ReadPicture,
       DeletePicture, CleanUp
  <2>3. ASSUME NEW k \in Calls, UsingKeys(k) PROVE FALSE
    BY <1>3, <2>3 DEF UsingKeys, CreateApiKey, UseApiKey, RevokeApiKey, Send, Come, AddApiKey,
       FindApiKey, Revoke, IdentifyApiKey, TouchApiKey, RestOfAccounts
  <2> QED
    BY <1>3, <2>1, <2>2, <2>3 DEF AccountNext, AccountDatabaseFails, RestartAccounts
<1> QED
  BY <1>1, <1>2, <1>4, <1>5

\* Nobody but its user changes what an account is: no other request and no start of a server
\* that makes the first administrator takes a row away or gives it another role.
THEOREM RolesAreTheirUsers == AccountSpec => RoleIsItsUsers
<1>1. ASSUME AInv, AccountNext, NEW p \in Phones, Exists(p)
      PROVE  /\ users'[p] # Nil
             /\ users'[p].role # users[p].role => \E k \in Calls : Editing(k, p)
  <2>1. CASE users'[p] = users[p]
    BY <2>1, <1>1 DEF Exists
  <2>2. CASE users'[p] # users[p]
    <3>1. ASSUME NEW k \in Calls, WriteProfile(k), Editing(k, p) PROVE RowsKeep
      BY <3>1, <1>1, ProfileWritten DEF AInv, AccountTypeOK
    <3>2. ASSUME NEW k \in Calls, UNCHANGED edited, WriteUser(k) \/ StorePicture(k),
                 accountCall[k].user = p
          PROVE  users'[p] # Nil /\ users'[p].role = users[p].role
      <4>1. PICK c \in AccountCalls : c = accountCall[k]
        BY <1>1 DEF AInv, AccountTypeOK
      <4>2. CASE WriteUser(k)
        <5>1. /\ users'[c.user] = Decided(users[c.user], c)
              /\ Decided(users[c.user], c) \in UserRows
              /\ Decided(users[c.user], c).role = users[c.user].role
          BY <4>1, <4>2, <3>2, <1>1, WrittenRow
        <5> QED
          BY <5>1, <4>1, <3>2
      <4>3. CASE StorePicture(k)
        BY <4>1, <4>3, <3>2, <1>1, StoredRow
      <4> QED
        BY <4>2, <4>3, <3>2
    <3> QED
      BY <3>1, <3>2, <2>2, <1>1, RowsChange DEF RowsKeep
  <2> QED
    BY <2>1, <2>2
<1>2. AInv /\ PicInv /\ [AccountNext]_accountVars =>
        [\A p \in Phones :
           Exists(p) =>
             /\ users'[p] # Nil
             /\ users'[p].role # users[p].role => \E k \in Calls : Editing(k, p)]_accountVars
  BY <1>1
<1> QED
  BY <1>2, AccountsInvariant, PTL DEF AccountSpec, RoleIsItsUsers

\* An account becomes ACTIVE only by its user's own profile update, or by the write of
\* somebody whose account is an administrator's or a verifier's, or who wrote its role.
THEOREM StaffActivates == AccountSpec => ActivatedByStaff
<1>1. ASSUME AInv, AccountNext, NEW p \in Phones,
             Exists(p) /\ users[p].status # "ACTIVE" /\ users'[p].status = "ACTIVE"
      PROVE  \E k \in Calls :
               \/ Editing(k, p)
               \/ /\ accountCall[k].at = "writing" /\ accountCall'[k].at # "writing"
                  /\ \/ users[accountCall[k].by].role \in {"ADMIN", "VERIFIER"}
                     \/ <<accountCall[k].by, "role">> \in edited
  <2>1. CASE \E k \in Calls : Editing(k, p)
    BY <2>1
  <2>2. CASE ~ \E k \in Calls : Editing(k, p)
    <3>1. PICK k \in Calls :
            UNCHANGED edited /\ (WriteUser(k) \/ StorePicture(k)) /\ accountCall[k].user = p
      BY <2>2, <1>1, RowsChange
    <3>2. PICK c \in AccountCalls : c = accountCall[k]
      BY <1>1 DEF AInv, AccountTypeOK
    <3>3. ~ StorePicture(k)
      BY <3>1, <3>2, <1>1, StoredRow
    <3>4. WriteUser(k)
      BY <3>1, <3>3
    <3>5. /\ c.user \in Phones /\ users[c.user] \in UserRows /\ c.op \in RowOps /\ c.at = "writing"
          /\ AccountCallFits(c) /\ users'[c.user] = Decided(users[c.user], c)
      BY <3>1, <3>2, <3>4, <1>1, WrittenRow
    <3>6. c.op \in {"verifyKYC", "updateUserStatus"}
      BY <3>1, <3>2, <3>5, <1>1, Decision DEF AccountCallFits, SentStages
    <3>7. /\ c.role \in {"ADMIN", "VERIFIER"}
          /\ <<c.by, "role">> \notin edited => users[c.by].role = c.role
      BY <3>5, <3>6 DEF AccountCallFits, SentStages, HasRole, RolesFor
    <3>8. accountCall'[k].at # "writing"
      <4>1. CASE Leave(k)
        BY <4>1, <1>1 DEF Leave, Set, NoAccountCall, AInv, AccountTypeOK
      <4>2. CASE Step(k, "logging")
        <5>1. PICK d \in AccountCalls : Set(k, d) /\ d.at = "logging"
          BY <4>2, <3>2, <1>1, StepOn DEF AccountStages
        <5> QED
          BY <5>1, <1>1 DEF Set, AInv, AccountTypeOK
      <4> QED
        BY <3>4, <4>1, <4>2 DEF WriteUser
    <3> QED
      BY <3>2, <3>5, <3>7, <3>8
  <2> QED
    BY <2>1, <2>2
<1>2. AInv /\ PicInv /\ [AccountNext]_accountVars =>
        [\A p \in Phones :
           Exists(p) /\ users[p].status # "ACTIVE" /\ users'[p].status = "ACTIVE" =>
             \E k \in Calls :
               \/ Editing(k, p)
               \/ /\ accountCall[k].at = "writing" /\ accountCall'[k].at # "writing"
                  /\ \/ users[accountCall[k].by].role \in {"ADMIN", "VERIFIER"}
                     \/ <<accountCall[k].by, "role">> \in edited]_accountVars
  BY <1>1
<1> QED
  BY <1>2, AccountsInvariant, PTL DEF AccountSpec, ActivatedByStaff

\* An approved KYC is undone only by its user's own profile update, or by a request that
\* read the row before it was approved.
THEOREM ApprovalsAreKept == AccountSpec => ApprovalIsKept
<1>1. ASSUME AInv, AccountNext, NEW p \in Phones,
             Exists(p) /\ users[p].kyc = "APPROVED" /\ users'[p].kyc # "APPROVED"
      PROVE  \E k \in Calls :
               \/ Editing(k, p)
               \/ /\ accountCall[k].user = p /\ accountCall[k].at = "writing"
                  /\ accountCall[k].seen # "APPROVED"
  <2>1. CASE \E k \in Calls : Editing(k, p)
    BY <2>1
  <2>2. CASE ~ \E k \in Calls : Editing(k, p)
    <3>1. PICK k \in Calls :
            UNCHANGED edited /\ (WriteUser(k) \/ StorePicture(k)) /\ accountCall[k].user = p
      BY <2>2, <1>1, RowsChange
    <3>2. PICK c \in AccountCalls : c = accountCall[k]
      BY <1>1 DEF AInv, AccountTypeOK
    <3>3. WriteUser(k)
      BY <3>1, <3>2, <1>1, StoredRow
    <3>4. /\ c.user \in Phones /\ users[c.user] \in UserRows /\ c.op \in RowOps /\ c.at = "writing"
          /\ AccountCallFits(c) /\ users'[c.user] = Decided(users[c.user], c)
      BY <3>1, <3>2, <3>3, <1>1, WrittenRow
    <3>5. c.op \in {"submitKYC", "verifyKYC"}
      BY <3>1, <3>2, <3>4, <1>1, Decision DEF AccountCallFits, SentStages
    <3> QED
      BY <3>1, <3>2, <3>4, <3>5 DEF AccountCallFits
  <2> QED
    BY <2>1, <2>2
<1>2. AInv /\ PicInv /\ [AccountNext]_accountVars =>
        [\A p \in Phones :
           Exists(p) /\ users[p].kyc = "APPROVED" /\ users'[p].kyc # "APPROVED" =>
             \E k \in Calls :
               \/ Editing(k, p)
               \/ /\ accountCall[k].user = p /\ accountCall[k].at = "writing"
                  /\ accountCall[k].seen # "APPROVED"]_accountVars
  BY <1>1
<1> QED
  BY <1>2, AccountsInvariant, PTL DEF AccountSpec, ApprovalIsKept

\* A revoked API key is never active again.
THEOREM RevokedStaysRevoked == AccountSpec => RevokedForGood
<1>1. ASSUME AInv, AccountNext, NEW n \in 1..Len(apiKeys), ~ apiKeys[n].isActive
      PROVE  ~ apiKeys'[n].isActive
  <2>1. CASE UNCHANGED apiKeys
    BY <2>1, <1>1
  <2>2. CASE \E k \in Calls : AddApiKey(k) \/ Revoke(k) \/ TouchApiKey(k)
    BY <2>2, <1>1, KeyRows
  <2> QED
    BY <2>1, <2>2, <1>1 DEF AccountNext, WriteProfile, UsingKeys, CreateApiKey, UseApiKey, RevokeApiKey,
       FindApiKey, IdentifyApiKey
<1>2. AInv /\ PicInv /\ [AccountNext]_accountVars =>
        [\A n \in 1..Len(apiKeys) : ~ apiKeys[n].isActive => ~ apiKeys'[n].isActive]_accountVars
  BY <1>1
<1> QED
  BY <1>2, AccountsInvariant, PTL DEF AccountSpec, RevokedForGood
=============================================================================

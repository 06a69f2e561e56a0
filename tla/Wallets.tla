------------------------------ MODULE Wallets ------------------------------
(***************************************************************************)
(* Custodial wallets: createUserWallet and getUserWallet of                *)
(* stellar.service.ts, what readyCollector and ensurePointAddress of       *)
(* onchain-collection.service.ts build on them, and the re-encryption of   *)
(* old secrets at every start (bootstrap.service.ts, wallet-secret.util);  *)
(* and the profile and collection point updates that may write the same    *)
(* columns (user.service.ts, collection-point.service.ts).                 *)
(*                                                                         *)
(* A Stellar key is the number of the key pair among those made for its    *)
(* user, or given by it: the public key and the secret of a pair are the   *)
(* same number.                                                            *)
(***************************************************************************)
EXTENDS Service, Sequences, FiniteSets

CONSTANT Users

ASSUME WalletAssumption == Nil \notin Calls

VARIABLES
  account,        \* the wallet columns of the User rows
  keys,           \* user -> the key pairs made for it, and what the network knows of them
  preparing,      \* user -> the call whose run of readyCollector others share, or Nil
  point,          \* stellarAddress of a collection point, 0 for null
  booted,         \* whether migrateWalletSecrets has read the rows since the start
  legacy,         \* user -> the old secret it still has to re-encrypt, 0 for none
  jwtRotated,     \* whether the JWT secret is another than the old secrets were sealed with
  edits,          \* history: user -> how often it wrote a wallet column itself
  pointEdited,    \* history: whether an administrator wrote the point's address
  walletCall

walletState ==
  <<account, keys, preparing, point, booted, legacy, jwtRotated, edits, pointEdited, walletCall>>

walletVars == <<walletState, budgetVars>>

\* pub is 0 for null, scheme "none" for a secret that is null.  secret is what the
\* stored value decrypts to under the key it was sealed with; 0 is no Stellar secret.
WalletColumns == [pub : Nat, secret : Nat, scheme : {"none", "legacy", "v2"}]

\* Whether the account exists on the network, the collector's status in the
\* registry, the statuses it may yet get by invocations that were given up on, and
\* whether a collection was paid to it.
KeyPairs ==
  [funded : BOOLEAN, registry : {"none", "pending", "active"},
   late : SUBSET {"pending", "active"}, paid : BOOLEAN]

NewKeyPair == [funded |-> FALSE, registry |-> "none", late |-> {}, paid |-> FALSE]

WalletStages ==
  {"idle", "fetching", "looking", "writing", "funding", "paying", "sharing", "ensuring",
   "asking", "existing", "registering", "registered", "activating", "activated",
   "setting", "rereading"}

\* key is what the call works with; an idle call with a key was answered with it.
WalletCalls ==
  [op : {"none", "create", "pay", "ready", "point"}, at : WalletStages,
   user : Users \cup {Nil}, key : Nat]

NoWalletCall == [op |-> "none", at |-> "idle", user |-> Nil, key |-> 0]

WalletTypeOK ==
  /\ account \in [Users -> WalletColumns]
  /\ keys \in [Users -> Seq(KeyPairs)]
  /\ preparing \in [Users -> Calls \cup {Nil}]
  /\ point \in 0..MaxRequests
  /\ booted \in BOOLEAN /\ jwtRotated \in BOOLEAN
  /\ legacy \in [Users -> Nat]
  /\ edits \in [Users -> 0..MaxRequests] /\ pointEdited \in BOOLEAN
  /\ walletCall \in [Calls -> WalletCalls]
  /\ BudgetOK

\* A user has no wallet, or one that was written before WALLET_ENCRYPTION_KEY existed.
WalletInit ==
  /\ \E old \in SUBSET Users :
       /\ account = [u \in Users |->
            IF u \in old THEN [pub |-> 1, secret |-> 1, scheme |-> "legacy"]
            ELSE [pub |-> 0, secret |-> 0, scheme |-> "none"]]
       /\ keys = [u \in Users |->
            IF u \in old THEN <<[NewKeyPair EXCEPT !.funded = TRUE]>> ELSE <<>>]
  /\ preparing = [u \in Users |-> Nil]
  /\ point = 0
  /\ booted = FALSE /\ jwtRotated = FALSE
  /\ legacy = [u \in Users |-> 0]
  /\ edits = [u \in Users |-> 0] /\ pointEdited = FALSE
  /\ walletCall = [k \in Calls |-> NoWalletCall]
  /\ BudgetInit

-----------------------------------------------------------------------------

Stage(k) == walletCall[k].at

User(k) == walletCall[k].user

Key(k) == walletCall[k].key

Proceed(k, stage, key) ==
  walletCall' = [walletCall EXCEPT ![k].at = stage, ![k].key = key]

\* The calls that await the same run of readyCollector as k.
Sharing(k) ==
  IF walletCall[k].op # "ready" THEN {k}
  ELSE {k} \cup {j \in Calls : Stage(j) = "sharing" /\ User(j) = User(k)}

\* A call ends with a key, or with an exception (0): so does every call that shares it.
Answer(k, key) ==
  /\ walletCall' = [j \in Calls |->
       IF j \notin Sharing(k) THEN walletCall[j]
       ELSE [walletCall[j] EXCEPT !.at = "idle", !.key = key]]
  /\ preparing' = IF walletCall[k].op = "ready"
                  THEN [preparing EXCEPT ![User(k)] = Nil] ELSE preparing

Unprepared == UNCHANGED preparing

SetKey(u, n, field) == keys' = [keys EXCEPT ![u][n] = field]

RestOfWallets == UNCHANGED <<point, booted, legacy, jwtRotated, edits, pointEdited>>

-----------------------------------------------------------------------------
(* createUserWallet, and what its three callers do before and after.       *)

StartWalletCall(k, op, u) ==
  /\ Stage(k) = "idle" /\ Arriving
  /\ walletCall' = [walletCall EXCEPT ![k] = [op |-> op, user |-> u, key |-> 0,
       at |-> IF op = "pay" THEN "fetching" ELSE "looking"]]
  /\ Unprepared /\ RestOfWallets /\ UNCHANGED <<account, keys>>

\* Mutant of ReadyCollector: every caller starts a run.
ReadyCollectorAlone(k, u) ==
  /\ Stage(k) = "idle" /\ Arriving
  /\ walletCall' = [walletCall EXCEPT ![k] =
                      [op |-> "ready", user |-> u, key |-> 0, at |-> "looking"]]
  /\ preparing' = [preparing EXCEPT ![u] = k]
  /\ RestOfWallets /\ UNCHANGED <<account, keys>>

\* readyCollector: the first caller starts a run, the others await it.
ReadyCollector(k, u) ==
  /\ Stage(k) = "idle" /\ Arriving
  /\ walletCall' = [walletCall EXCEPT ![k] = [op |-> "ready", user |-> u, key |-> 0,
       at |-> IF preparing[u] = Nil THEN "looking" ELSE "sharing"]]
  /\ preparing' = IF preparing[u] = Nil THEN [preparing EXCEPT ![u] = k] ELSE preparing
  /\ RestOfWallets /\ UNCHANGED <<account, keys>>

\* A wallet is one if it has both columns.
HasWallet(u) == account[u].pub # 0 /\ account[u].scheme # "none"

\* What WalletSecretUtil.decrypt gives for a stored value: its secret, or garbage (0),
\* also for an old value under another JWT secret.
Decrypt(scheme, secret) == IF scheme = "legacy" /\ jwtRotated THEN 0 ELSE secret

\* Where a call goes on once it has a wallet.  readyCollector works with the secret's
\* key, and a key pair cannot be made of garbage.
WithWallet(k, key, secret) ==
  CASE walletCall[k].op = "create" -> Answer(k, key)
    [] walletCall[k].op = "pay"    -> Proceed(k, "paying", key) /\ Unprepared
    [] walletCall[k].op = "ready"  -> IF secret = 0 THEN Answer(k, 0)
                                      ELSE Proceed(k, "ensuring", secret) /\ Unprepared

\* The new scheme never decrypts to garbage: it throws; the old one does either.
UseWallet(k) ==
  LET stored == account[User(k)]
      secret == Decrypt(stored.scheme, stored.secret)
  IN  \/ /\ secret # 0 \/ stored.scheme = "legacy"
         /\ WithWallet(k, stored.pub, secret)
      \/ secret = 0 /\ Answer(k, 0)

\* getUserWallet in processWasteCollectionPayment.
FetchWallet(k) ==
  /\ Stage(k) = "fetching"
  /\ IF HasWallet(User(k)) THEN UseWallet(k) ELSE Proceed(k, "looking", 0) /\ Unprepared
  /\ Working /\ RestOfWallets /\ UNCHANGED <<account, keys>>

\* Mutant of LookForWallet: a wallet that is there is not looked for.
LookForWalletNot(k) ==
  /\ Stage(k) = "looking"
  /\ Proceed(k, "writing", 0) /\ Unprepared
  /\ Working /\ RestOfWallets /\ UNCHANGED <<account, keys>>

LookForWallet(k) ==
  /\ Stage(k) = "looking"
  /\ IF HasWallet(User(k)) THEN UseWallet(k) ELSE Proceed(k, "writing", 0) /\ Unprepared
  /\ Working /\ RestOfWallets /\ UNCHANGED <<account, keys>>

\* A new key pair is written over whatever is there by now.
WriteWallet(k) ==
  LET u == User(k)  n == Len(keys[u]) + 1
  IN  /\ Stage(k) = "writing"
      /\ keys' = [keys EXCEPT ![u] = Append(@, NewKeyPair)]
      /\ account' = [account EXCEPT ![u] = [pub |-> n, secret |-> n, scheme |-> "v2"]]
      /\ Proceed(k, "funding", n)
      /\ Working /\ Unprepared /\ RestOfWallets

\* Friendbot; a failure is logged and forgotten.
FundWallet(k) ==
  LET u == User(k)
  IN  /\ Stage(k) = "funding"
      /\ \/ SetKey(u, Key(k), [keys[u][Key(k)] EXCEPT !.funded = TRUE]) /\ Working
         \/ UNCHANGED keys /\ Failing
      /\ WithWallet(k, Key(k), Key(k))
      /\ RestOfWallets /\ UNCHANGED account

\* sendPayment needs the account to exist, and may fail for reasons of its own.
PayWallet(k) ==
  LET u == User(k)  n == Key(k)
  IN  /\ Stage(k) = "paying"
      /\ \/ /\ keys[u][n].funded /\ SetKey(u, n, [keys[u][n] EXCEPT !.paid = TRUE])
            /\ Answer(k, n)
            /\ Working
         \/ ~ keys[u][n].funded /\ Answer(k, 0) /\ Working /\ UNCHANGED keys
         \/ Failing /\ Answer(k, 0) /\ UNCHANGED keys
      /\ RestOfWallets /\ UNCHANGED account

-----------------------------------------------------------------------------
(* The rest of readyCollector: ensureAccount, ensureRegistered.            *)

\* An account that is missing is asked of Friendbot; any of it may fail.
EnsureAccount(k) ==
  LET u == User(k)  n == Key(k)
  IN  /\ Stage(k) = "ensuring"
      /\ \/ /\ SetKey(u, n, [keys[u][n] EXCEPT !.funded = TRUE]) /\ Working
            /\ Proceed(k, "asking", n) /\ Unprepared
         \/ /\ SetKey(u, n, [keys[u][n] EXCEPT !.funded = TRUE]) \/ UNCHANGED keys
            /\ Failing /\ Answer(k, 0)
      /\ RestOfWallets /\ UNCHANGED account

\* Mutant of CheckActive: being registered counts as active.
CheckRegistered(k) ==
  /\ Stage(k) = "asking"
  /\ IF keys[User(k)][Key(k)].registry # "none" THEN Answer(k, Key(k))
     ELSE Proceed(k, "existing", Key(k)) /\ Unprepared
  /\ Working /\ RestOfWallets /\ UNCHANGED <<account, keys>>

CheckActive(k) ==
  /\ Stage(k) = "asking"
  /\ IF keys[User(k)][Key(k)].registry = "active" THEN Answer(k, Key(k))
     ELSE Proceed(k, "existing", Key(k)) /\ Unprepared
  /\ Working /\ RestOfWallets /\ UNCHANGED <<account, keys>>

CheckExists(k) ==
  /\ Stage(k) = "existing"
  /\ Proceed(k, IF keys[User(k)][Key(k)].registry = "none" THEN "registering" ELSE "activating",
             Key(k))
  /\ Working /\ Unprepared /\ RestOfWallets /\ UNCHANGED <<account, keys>>

\* The contract registers a key once, and activates only what is registered.
Accepts(pair, status) == (pair.registry = "none") = (status = "pending")

\* The status that the invocation of a call gives, once it is sent.
Sent(k) == IF Stage(k) = "registered" THEN "pending" ELSE "active"

Outstanding(k) == Stage(k) \in {"registered", "activated"}

GivenUp(pair, status) == [pair EXCEPT !.late = @ \cup {status}]

\* An invocation is simulated, which refuses what the contract would, and sent; when
\* the answer is lost, it may be included all the same.
Invoke(k, status, stage) ==
  LET u == User(k)  n == Key(k)
  IN  /\ IF ~ Accepts(keys[u][n], status) THEN Answer(k, 0) /\ Working /\ UNCHANGED keys
         ELSE \/ Proceed(k, stage, n) /\ Unprepared /\ Working /\ UNCHANGED keys
              \/ /\ Failing /\ Answer(k, 0)
                 /\ UNCHANGED keys \/ SetKey(u, n, GivenUp(keys[u][n], status))
      /\ RestOfWallets /\ UNCHANGED account

RegisterCollector(k) == Stage(k) = "registering" /\ Invoke(k, "pending", "registered")

ActivateCollector(k) == Stage(k) = "activating" /\ Invoke(k, "active", "activated")

\* The network includes an invocation that its call polls for.
Confirm(k) ==
  LET u == User(k)  n == Key(k)
  IN  /\ Outstanding(k)
      /\ IF ~ Accepts(keys[u][n], Sent(k)) THEN UNCHANGED keys /\ Answer(k, 0)
         ELSE /\ SetKey(u, n, [keys[u][n] EXCEPT !.registry = Sent(k)])
              /\ IF Stage(k) = "activated" THEN Answer(k, n)
                 ELSE Proceed(k, "activating", n) /\ Unprepared
      /\ Working /\ RestOfWallets /\ UNCHANGED account

\* The poll ends before the transaction's time does.
GiveUp(k) ==
  LET u == User(k)  n == Key(k)
  IN  /\ Outstanding(k)
      /\ SetKey(u, n, GivenUp(keys[u][n], Sent(k)))
      /\ Failing /\ Answer(k, 0) /\ RestOfWallets /\ UNCHANGED account

\* An invocation that nobody polls for is included, or its time is over.
Settle(u, n, status) ==
  LET pair == [keys[u][n] EXCEPT !.late = @ \ {status}]
  IN  /\ status \in keys[u][n].late
      /\ \/ SetKey(u, n, pair)
         \/ Accepts(pair, status) /\ SetKey(u, n, [pair EXCEPT !.registry = status])
      /\ Working /\ Unprepared /\ RestOfWallets /\ UNCHANGED <<account, walletCall>>

-----------------------------------------------------------------------------
(* ensurePointAddress                                                      *)

RestOfPoint ==
  UNCHANGED <<account, keys, preparing, booted, legacy, jwtRotated, edits, pointEdited>>

\* The collection is loaded with its point, some time before the address is needed.
LoadPoint(k) ==
  /\ Stage(k) = "idle" /\ Arriving
  /\ walletCall' = [walletCall EXCEPT ![k] = [op |-> "point", user |-> Nil, key |-> point,
       at |-> IF point = 0 THEN "setting" ELSE "idle"]]
  /\ RestOfPoint /\ UNCHANGED point

\* Mutant of SetPointAddress: update without the condition on null.
SetPointAddressAnyway(k) ==
  /\ Stage(k) = "setting"
  /\ \E address \in 1..MaxRequests : point' = address
  /\ Proceed(k, "rereading", 0) /\ Working /\ RestOfPoint

\* updateMany where stellarAddress is null, with a random address.
SetPointAddress(k) ==
  /\ Stage(k) = "setting"
  /\ IF point = 0 THEN \E address \in 1..MaxRequests : point' = address ELSE UNCHANGED point
  /\ Proceed(k, "rereading", 0) /\ Working /\ RestOfPoint

ReadPointAddress(k) ==
  /\ Stage(k) = "rereading"
  /\ Proceed(k, "idle", point) /\ Working /\ RestOfPoint /\ UNCHANGED point

-----------------------------------------------------------------------------
(* updateProfile and updateCollectionPoint: their bodies are written as    *)
(* they came                                                               *)

\* A user writes null, a key of its own, or what was its key before.
WritePublicKey(u) ==
  /\ \/ \E n \in 0..Len(keys[u]) :
          account' = [account EXCEPT ![u].pub = n] /\ UNCHANGED keys
     \/ /\ keys' = [keys EXCEPT ![u] = Append(@, NewKeyPair)]
        /\ account' = [account EXCEPT ![u].pub = Len(keys[u]) + 1]

\* A user writes null or anything; WALLET_ENCRYPTION_KEY and the JWT secret are not its.
WriteSecretKey(u) ==
  /\ \E scheme \in {"none", "legacy", "v2"} :
       account' = [account EXCEPT ![u].secret = 0, ![u].scheme = scheme]
  /\ UNCHANGED keys

EditWallet(u) ==
  /\ Arriving
  /\ WritePublicKey(u) \/ WriteSecretKey(u)
  /\ edits' = [edits EXCEPT ![u] = @ + 1]
  /\ UNCHANGED <<preparing, point, booted, legacy, jwtRotated, pointEdited, walletCall>>

EditPoint ==
  /\ Arriving
  /\ point' \in 0..MaxRequests /\ pointEdited' = TRUE
  /\ UNCHANGED <<account, keys, preparing, booted, legacy, jwtRotated, edits, walletCall>>

-----------------------------------------------------------------------------
(* migrateWalletSecrets, while requests are already being served           *)

RestOfMigration == UNCHANGED <<keys, preparing, point, jwtRotated, edits, pointEdited, walletCall>>

ReadLegacy ==
  /\ ~ booted /\ booted' = TRUE
  /\ legacy' = [u \in Users |-> IF account[u].scheme = "legacy" THEN account[u].secret ELSE 0]
  /\ Working /\ RestOfMigration /\ UNCHANGED account

\* Mutant of MigrateSecret: what decrypts to no key is stored.
MigrateSecretBlindly(u) ==
  /\ legacy[u] # 0
  /\ legacy' = [legacy EXCEPT ![u] = 0]
  /\ account' = [account EXCEPT ![u].secret = Decrypt("legacy", legacy[u]), ![u].scheme = "v2"]
  /\ Working /\ RestOfMigration /\ UNCHANGED booted

\* A value that decrypts to no key is left as it is.
MigrateSecret(u) ==
  /\ legacy[u] # 0
  /\ legacy' = [legacy EXCEPT ![u] = 0]
  /\ LET secret == Decrypt("legacy", legacy[u])
     IN  account' = IF secret = 0 THEN account
                    ELSE [account EXCEPT ![u].secret = secret, ![u].scheme = "v2"]
  /\ Working /\ RestOfMigration /\ UNCHANGED booted

-----------------------------------------------------------------------------

\* A failed read or write of the database, or of the registry, ends the call.
WalletReadFails(k) ==
  /\ Stage(k) \in {"fetching", "looking", "writing", "asking", "existing", "setting", "rereading"}
  /\ Failing /\ Answer(k, 0) /\ RestOfWallets /\ UNCHANGED <<account, keys>>

\* The server starts again, with the same JWT secret or another.  Nobody polls for what
\* was sent.
RestartWallets ==
  /\ Crashing
  /\ keys' = [u \in Users |-> [n \in 1..Len(keys[u]) |->
       [keys[u][n] EXCEPT !.late = @ \cup {Sent(k) : k \in {j \in Calls :
          Outstanding(j) /\ User(j) = u /\ Key(j) = n}}]]]
  /\ walletCall' = [k \in Calls |-> NoWalletCall]
  /\ preparing' = [u \in Users |-> Nil]
  /\ booted' = FALSE /\ legacy' = [u \in Users |-> 0]
  /\ jwtRotated' \in {jwtRotated, TRUE}
  /\ UNCHANGED <<account, point, edits, pointEdited>>

WalletNext ==
  \/ \E k \in Calls, u \in Users :
       StartWalletCall(k, "create", u) \/ StartWalletCall(k, "pay", u) \/ ReadyCollector(k, u)
  \/ \E k \in Calls :
       \/ FetchWallet(k) \/ LookForWallet(k) \/ WriteWallet(k) \/ FundWallet(k) \/ PayWallet(k)
       \/ EnsureAccount(k) \/ CheckActive(k) \/ CheckExists(k)
       \/ RegisterCollector(k) \/ ActivateCollector(k) \/ Confirm(k) \/ GiveUp(k)
       \/ LoadPoint(k) \/ SetPointAddress(k) \/ ReadPointAddress(k)
       \/ WalletReadFails(k)
  \/ \E u \in Users :
       \E n \in 1..Len(keys[u]), status \in {"pending", "active"} : Settle(u, n, status)
  \/ (\E u \in Users : EditWallet(u)) \/ EditPoint
  \/ ReadLegacy \/ (\E u \in Users : MigrateSecret(u)) \/ RestartWallets

WalletSpec == WalletInit /\ [][WalletNext]_walletVars

-----------------------------------------------------------------------------
(* Properties                                                              *)

\* A stored secret is the secret of the stored public key, unless its user wrote one of
\* them: across creations that race, re-encryption at a start that serves requests
\* already, and a JWT secret that changed before the old secrets were migrated (lines
\* 77-112 of bootstrap.service.ts must never overwrite with what does not decrypt).
WalletIsWhole == \A u \in Users : edits[u] = 0 => account[u].secret = account[u].pub

\* createUserWallet checks, awaits and writes: requests that overlap may each write a
\* key of their own, and the last one stays.  It goes no further than that: however many
\* requests come, only as many more keys are made as its user writes wallet columns,
\* each time one of its own and one by each request that then finds no wallet.
WalletsBounded ==
  \A u \in Users :
    Len(keys[u]) <= Cardinality(Calls) + edits[u] * (Cardinality(Calls) + 1)

\* A collector that readyCollector returned exists on the network and is active
\* in the registry, also when an earlier run registered it and could not
\* activate it, or when the answer of an invocation was lost.
ReadyIsActive ==
  \A k \in Calls :
    walletCall[k].op = "ready" /\ Stage(k) = "idle" /\ Key(k) # 0 =>
      keys[User(k)][Key(k)].funded /\ keys[User(k)][Key(k)].registry = "active"

\* Callers for the same collector share one run: no two of them register it at a time,
\* and a key the registry has is asked to be registered only after a failure or a
\* restart, when an earlier invocation may be included after all (invoke lines 118-132).
RegistersOnce ==
  \A k \in Calls :
    Stage(k) \in {"registering", "registered"} =>
      /\ \A j \in Calls \ {k} :
           User(j) = User(k) => Stage(j) \notin {"registering", "registered"}
      /\ keys[User(k)][Key(k)].registry # "none" => faults + crashes > 0

\* Everyone who was given a collection point's address was given the one that
\* is stored, though all of them may have seen it missing, unless an administrator
\* wrote another.
PointAddressKept ==
  \A k \in Calls :
    walletCall[k].op = "point" /\ Stage(k) = "idle" /\ Key(k) # 0 /\ ~ pointEdited =>
      Key(k) = point
=============================================================================

--------------------------- MODULE Wallets_proofs ---------------------------
(***************************************************************************)
(* Theorems about Wallets, for every number of users, requests, failures   *)
(* and restarts.                                                           *)
(***************************************************************************)
EXTENDS Wallets, SequenceTheorems, FiniteSetTheorems, TLAPS

USE ServiceAssumption, WalletAssumption

-----------------------------------------------------------------------------
(* The inductive invariant.                                                *)

\* The stages of a run of readyCollector once it has a wallet that exists.
ReadyStages == {"asking", "existing", "registering", "registered", "activating", "activated"}

Registering == {"registering", "registered"}

KeyStages == {"funding", "paying", "ensuring"} \cup ReadyStages

WalletOps == {"create", "pay", "ready"}

\* Something failed, or the server started again.
Faulted == faults + crashes > 0

\* What a user's row is known to be.  Unless its user wrote one of the columns, a value
\* still to be re-encrypted is the one that is stored: nobody writes a new wallet over one
\* that is there.
WalletFits(u) ==
  /\ account[u].pub \in 0..Len(keys[u]) /\ account[u].secret \in 0..Len(keys[u])
  /\ legacy[u] \in 0..Len(keys[u])
  /\ edits[u] <= requests
  /\ edits[u] = 0 =>
       /\ account[u].secret = account[u].pub
       /\ (account[u].pub = 0) = (account[u].scheme = "none")
       /\ legacy[u] # 0 => legacy[u] = account[u].pub /\ account[u].scheme = "legacy"

\* A user without a wallet: nothing to re-encrypt.
Unsealed(u) == legacy[u] = 0 /\ account[u].scheme # "legacy"

\* The run of readyCollector that others share.
Runs(s) == s.op = "ready" /\ s.at \notin {"idle", "sharing"}

\* What a request that was answered, or goes on, is known to be.
WalletCallFits(k, s) ==
  /\ s.at \notin {"idle", "setting", "rereading"} => s.op \in WalletOps /\ s.user \in Users
  /\ s.at \in {"fetching", "paying"} => s.op = "pay"
  /\ s.at \in {"sharing", "ensuring"} \cup ReadyStages => s.op = "ready"
  /\ s.at \in {"setting", "rereading"} => s.op = "point"
  /\ s.at = "writing" /\ edits[s.user] = 0 => Unsealed(s.user)
  /\ s.at \in KeyStages => s.key \in 1..Len(keys[s.user])
  /\ s.at \in ReadyStages => keys[s.user][s.key].funded
  /\ s.at \in Registering => keys[s.user][s.key].registry = "none" \/ Faulted
  /\ Runs(s) => preparing[s.user] = k
  /\ s.op = "ready" /\ s.at = "idle" /\ s.key # 0 =>
       /\ s.user \in Users /\ s.key \in 1..Len(keys[s.user])
       /\ keys[s.user][s.key].funded /\ keys[s.user][s.key].registry = "active"
  /\ s.op = "point" /\ s.at = "idle" /\ s.key # 0 /\ ~ pointEdited => s.key = point

PreparedBy(u) ==
  preparing[u] # Nil =>
    Runs(walletCall[preparing[u]]) /\ walletCall[preparing[u]].user = u

WalletsFit == \A u \in Users : WalletFits(u) /\ PreparedBy(u)

WalletCallsFit == \A k \in Calls : WalletCallFits(k, walletCall[k])

\* Only an invocation that was given up on may be included late.
LateFits == \A u \in Users : \A n \in 1..Len(keys[u]) : keys[u][n].late # {} => Faulted

WInv == WalletTypeOK /\ WalletsFit /\ LateFits /\ WalletCallsFit

\* The requests about to write a wallet.
Writers(u) == {k \in Calls : Stage(k) = "writing" /\ User(k) = u}

\* The keys a user may have while it has no wallet: none, or what came of its own writes.
Spent(u) == edits[u] * (Cardinality(Calls) + 1)

\* There is a key for each request that wrote a wallet, and no more.
KeysFit ==
  \A u \in Users :
    /\ Len(keys[u]) + Cardinality(Writers(u)) <= Cardinality(Calls) + Spent(u)
    /\ ~ HasWallet(u) => Len(keys[u]) <= Spent(u)

-----------------------------------------------------------------------------
(* What a step leaves of the requests that do not take it.                 *)

\* Keys are made, funded and registered, and nothing of that is taken back.
KeysGrow ==
  \A u \in Users :
    /\ Len(keys[u]) <= Len(keys'[u])
    /\ \A n \in 1..Len(keys[u]) :
         /\ keys[u][n].funded => keys'[u][n].funded
         /\ keys[u][n].registry = "active" => keys'[u][n].registry = "active"

\* Unless its user writes it, a row that is sealed under no old scheme is never sealed
\* under it again.
SealsStay ==
  \A u \in Users : edits'[u] = 0 => edits[u] = 0 /\ (Unsealed(u) => Unsealed(u)')

\* A step of k changes no key that another request registers, if nothing ever failed.
RegistersAlone(k) ==
  \A j \in Calls \ {k} :
    Stage(j) \in Registering =>
      keys'[User(j)][Key(j)].registry = keys[User(j)][Key(j)].registry \/ Faulted'

\* Unless an administrator writes it, an address that is there stays.
PointStays == ~ pointEdited' => ~ pointEdited /\ (point # 0 => point' = point)

CallUndisturbed(k) ==
  KeysGrow /\ SealsStay /\ RegistersAlone(k) /\ PointStays /\ (Faulted => Faulted')

\* What is known of a request still holds of it when only others moved.
LEMMA WalletFitStays ==
  ASSUME NEW j \in Calls, NEW s \in WalletCalls, WalletCallFits(j, s),
         KeysGrow, SealsStay, PointStays, Faulted => Faulted',
         s.at \in Registering =>
           keys'[s.user][s.key].registry = keys[s.user][s.key].registry \/ Faulted',
         Runs(s) => preparing'[s.user] = j
  PROVE  WalletCallFits(j, s)'
<1> USE DEF ReadyStages, Registering, KeyStages, WalletOps
<1>1. s.at \in KeyStages => s.user \in Users
  BY DEF WalletCallFits
<1>2. s.at \in KeyStages =>
        s.key \in 1..Len(keys[s.user]) /\ Len(keys[s.user]) <= Len(keys'[s.user])
  BY <1>1 DEF WalletCallFits, KeysGrow
<1>3. s.at \in KeyStages => s.key \in 1..Len(keys'[s.user])
  BY <1>2
<1>4. s.at \in ReadyStages => keys'[s.user][s.key].funded
  BY <1>1, <1>2 DEF WalletCallFits, KeysGrow
<1>5. s.op = "ready" /\ s.at = "idle" /\ s.key # 0 =>
        /\ s.key \in 1..Len(keys[s.user]) /\ Len(keys[s.user]) <= Len(keys'[s.user])
        /\ s.user \in Users /\ keys'[s.user][s.key].funded
        /\ keys'[s.user][s.key].registry = "active"
  BY DEF WalletCallFits, KeysGrow
<1>6. s.op = "ready" /\ s.at = "idle" /\ s.key # 0 => s.key \in 1..Len(keys'[s.user])
  BY <1>5
<1>7. s.op = "point" /\ s.at = "idle" /\ s.key # 0 /\ ~ pointEdited' => s.key = point'
  BY DEF WalletCallFits, PointStays
<1>8. s.at = "writing" => s.user \in Users
  BY DEF WalletCallFits
<1>9. s.at = "writing" /\ edits'[s.user] = 0 => Unsealed(s.user)'
  BY <1>8 DEF WalletCallFits, SealsStay
<1>10. s.at \in Registering => keys'[s.user][s.key].registry = "none" \/ Faulted'
  BY DEF WalletCallFits
<1> QED
  BY <1>3, <1>4, <1>5, <1>6, <1>7, <1>9, <1>10 DEF WalletCallFits

\* The same, for a request in its place.
LEMMA OthersFit ==
  ASSUME WInv, NEW k \in Calls, CallUndisturbed(k), NEW j \in Calls, j # k,
         walletCall'[j] = walletCall[j],
         Runs(walletCall[j]) => preparing'[User(j)] = j
  PROVE  WalletCallFits(j, walletCall[j])'
<1>1. PICK s \in WalletCalls : s = walletCall[j]
  BY DEF WInv, WalletTypeOK
<1>2. WalletCallFits(j, s)
  BY <1>1 DEF WInv, WalletCallsFit
<1>3. s.at \in Registering =>
        keys'[s.user][s.key].registry = keys[s.user][s.key].registry \/ Faulted'
  BY <1>1 DEF CallUndisturbed, RegistersAlone, Stage, User, Key
<1>4. Runs(s) => preparing'[s.user] = j
  BY <1>1 DEF User
<1>5. WalletCallFits(j, s)'
  BY <1>2, <1>3, <1>4, WalletFitStays DEF CallUndisturbed
<1>6. s = walletCall'[j]
  BY <1>1
<1> QED
  BY <1>5, <1>6 DEF WalletCallFits, Runs, Unsealed

-----------------------------------------------------------------------------
(* How a request goes on, and how it ends.                                 *)

\* The requests' part of the invariant.
CallsOK ==
  /\ walletCall \in [Calls -> WalletCalls]
  /\ preparing \in [Users -> Calls \cup {Nil}]
  /\ \A u \in Users : PreparedBy(u)
  /\ WalletCallsFit

\* The run of a collector that others share is one.
LEMMA RunsAlone ==
  ASSUME WInv, NEW k \in Calls, NEW j \in Calls, Runs(walletCall[k]), Runs(walletCall[j]),
         User(j) = User(k)
  PROVE  j = k
BY DEF WInv, WalletCallsFit, WalletCallFits, User

\* A request that goes on keeps what is known, if that is true of where it goes on.
LEMMA ProceedKeeps ==
  ASSUME WInv, NEW k \in Calls, NEW stage \in WalletStages, NEW key \in Nat,
         CallUndisturbed(k), Unprepared, Proceed(k, stage, key),
         WalletCallFits(k, walletCall[k])',
         Runs(walletCall[k]) => stage \notin {"idle", "sharing"}
  PROVE  CallsOK'
<1>1. walletCall \in [Calls -> WalletCalls]
  BY DEF WInv, WalletTypeOK
<1>2. /\ walletCall'[k] = [walletCall[k] EXCEPT !.at = stage, !.key = key]
      /\ \A j \in Calls : j # k => walletCall'[j] = walletCall[j]
      /\ DOMAIN walletCall' = Calls
  BY <1>1 DEF Proceed
<1>3. [walletCall[k] EXCEPT !.at = stage, !.key = key] \in WalletCalls
  BY <1>1 DEF WalletCalls
<1>4. walletCall' \in [Calls -> WalletCalls]
  BY <1>1, <1>3 DEF Proceed
<1>5. preparing' = preparing /\ preparing \in [Users -> Calls \cup {Nil}]
  BY DEF Unprepared, WInv, WalletTypeOK
<1>6. WalletCallsFit'
  <2> SUFFICES ASSUME NEW j \in Calls PROVE WalletCallFits(j, walletCall[j])'
    BY DEF WalletCallsFit
  <2>1. CASE j = k
    BY <2>1
  <2>2. CASE j # k
    <3>1. Runs(walletCall[j]) => preparing'[User(j)] = j
      BY <1>5 DEF WInv, WalletCallsFit, WalletCallFits, User
    <3> QED
      BY <2>2, <3>1, <1>2, OthersFit
  <2> QED
    BY <2>1, <2>2
<1>7. ASSUME NEW u \in Users PROVE PreparedBy(u)'
  <2>1. SUFFICES ASSUME preparing'[u] # Nil
                 PROVE  Runs(walletCall'[preparing'[u]]) /\ walletCall'[preparing'[u]].user = u
    BY DEF PreparedBy, Runs
  <2>2. PICK p \in Calls : p = preparing[u] /\ p = preparing'[u]
    BY <2>1, <1>5
  <2>3. Runs(walletCall[p]) /\ walletCall[p].user = u
    BY <2>1, <2>2 DEF WInv, WalletsFit, PreparedBy
  <2>4. walletCall[k] \in WalletCalls
    BY <1>1
  <2>5. CASE p = k
    BY <2>2, <2>3, <2>4, <2>5, <1>2 DEF Runs, WalletCalls
  <2>6. CASE p # k
    BY <2>2, <2>3, <2>6, <1>2
  <2> QED
    BY <2>5, <2>6
<1> QED
  BY <1>4, <1>5, <1>6, <1>7 DEF CallsOK

\* What a request may be answered with: nothing; the address that is stored; for readyCollector
\* a collector that exists and is active; what createUserWallet and payments are told is free.
MayAnswer(k, key) ==
  \/ key = 0
  \/ walletCall[k].op \in {"create", "pay"}
  \/ /\ walletCall[k].op = "ready"
     /\ key \in 1..Len(keys'[User(k)])
     /\ keys'[User(k)][key].funded /\ keys'[User(k)][key].registry = "active"

\* A request that ends, with those that share its run, keeps what is known.
LEMMA AnswerKeeps ==
  ASSUME WInv, NEW k \in Calls, NEW key \in Nat, CallUndisturbed(k), Answer(k, key),
         Stage(k) \notin {"idle", "sharing"}, MayAnswer(k, key)
  PROVE  CallsOK'
<1>1. walletCall \in [Calls -> WalletCalls] /\ preparing \in [Users -> Calls \cup {Nil}]
  BY DEF WInv, WalletTypeOK
<1>2. /\ DOMAIN walletCall' = Calls
      /\ \A j \in Calls :
           walletCall'[j] = IF j \notin Sharing(k) THEN walletCall[j]
                            ELSE [walletCall[j] EXCEPT !.at = "idle", !.key = key]
      /\ walletCall' = [j \in Calls |-> IF j \notin Sharing(k) THEN walletCall[j]
                            ELSE [walletCall[j] EXCEPT !.at = "idle", !.key = key]]
  BY DEF Answer
<1>3. \A j \in Calls : [walletCall[j] EXCEPT !.at = "idle", !.key = key] \in WalletCalls
  BY <1>1 DEF WalletCalls, WalletStages
<1>4. walletCall' \in [Calls -> WalletCalls]
  <2>1. ASSUME NEW j \in Calls PROVE walletCall'[j] \in WalletCalls
    <3>1. CASE j \in Sharing(k)
      BY <3>1, <1>2, <1>3
    <3>2. CASE j \notin Sharing(k)
      BY <3>2, <1>1, <1>2
    <3> QED
      BY <3>1, <3>2
  <2> QED
    BY <2>1, <1>2
<1>5. WalletCallFits(k, walletCall[k])
  BY DEF WInv, WalletCallsFit
<1>6. walletCall[k].op = "ready" => Runs(walletCall[k]) /\ User(k) \in Users
  BY <1>5 DEF Runs, Stage, User, WalletCallFits
<1>7. \A j \in Sharing(k) :
        /\ j \in Calls /\ walletCall[j].op = walletCall[k].op
        /\ j # k => walletCall[j].at = "sharing" /\ walletCall[j].user = walletCall[k].user
        /\ j # k => walletCall[k].op = "ready"
  BY DEF Sharing, Stage, User, WInv, WalletCallsFit, WalletCallFits
<1>8. k \in Sharing(k)
  BY DEF Sharing
<1>9. preparing' \in [Users -> Calls \cup {Nil}]
  BY <1>1 DEF Answer
<1>10. \A u \in Users : preparing'[u] = IF walletCall[k].op = "ready" /\ u = User(k)
                                        THEN Nil ELSE preparing[u]
  BY <1>1 DEF Answer
<1>11. WalletCallsFit'
  <2> SUFFICES ASSUME NEW j \in Calls PROVE WalletCallFits(j, walletCall[j])'
    BY DEF WalletCallsFit
  <2>1. CASE j \in Sharing(k)
    <3>1. /\ walletCall'[j].at = "idle" /\ walletCall'[j].key = key
          /\ walletCall'[j].op = walletCall[k].op /\ walletCall'[j].user = walletCall[k].user
      <4>1. PICK r \in WalletCalls : r = walletCall[j]
        BY <1>1
      <4>2. walletCall'[j] = [r EXCEPT !.at = "idle", !.key = key]
        BY <2>1, <4>1, <1>2
      <4>3. walletCall[j].op = walletCall[k].op /\ walletCall[j].user = walletCall[k].user
        BY <2>1, <1>7
      <4> QED
        BY <4>1, <4>2, <4>3 DEF WalletCalls
    <3> USE DEF ReadyStages, Registering, KeyStages
    <3>2. CASE key = 0
      BY <3>1, <3>2 DEF WalletCallFits, Runs
    <3>3. CASE walletCall[k].op \in {"create", "pay"}
      BY <3>1, <3>3 DEF WalletCallFits, Runs
    <3>4. CASE /\ walletCall[k].op = "ready"
               /\ key \in 1..Len(keys'[User(k)])
               /\ keys'[User(k)][key].funded /\ keys'[User(k)][key].registry = "active"
      BY <3>1, <3>4, <1>6 DEF WalletCallFits, Runs, User
    <3> QED
      BY <3>2, <3>3, <3>4 DEF MayAnswer
  <2>2. CASE j \notin Sharing(k)
    <3>1. walletCall'[j] = walletCall[j] /\ j # k
      BY <2>2, <1>2, <1>8
    <3>2. ASSUME Runs(walletCall[j]) PROVE preparing'[User(j)] = j
      <4>1. preparing[User(j)] = j /\ User(j) \in Users
        BY <3>2 DEF WInv, WalletCallsFit, WalletCallFits, User, Runs
      <4>2. ~ (walletCall[k].op = "ready" /\ User(j) = User(k))
        BY <1>6, <3>1, <3>2, RunsAlone
      <4> QED
        BY <4>1, <4>2, <1>10
    <3> QED
      BY <3>1, <3>2, OthersFit
  <2> QED
    BY <2>1, <2>2
<1>12. ASSUME NEW u \in Users PROVE PreparedBy(u)'
  <2>1. SUFFICES ASSUME preparing'[u] # Nil
                 PROVE  Runs(walletCall'[preparing'[u]]) /\ walletCall'[preparing'[u]].user = u
    BY DEF PreparedBy, Runs
  <2>2. PICK p \in Calls : p = preparing[u] /\ p = preparing'[u]
    BY <2>1, <1>1, <1>10
  <2>3. Runs(walletCall[p]) /\ walletCall[p].user = u
    BY <2>1, <2>2, <1>10 DEF WInv, WalletsFit, PreparedBy
  <2>4. p \notin Sharing(k)
    <3>1. CASE p = k
      BY <2>1, <2>3, <3>1, <1>10 DEF Runs, User
    <3>2. CASE p # k
      BY <2>3, <3>2, <1>7 DEF Runs
    <3> QED
      BY <3>1, <3>2
  <2> QED
    BY <2>2, <2>3, <2>4, <1>2
<1> QED
  BY <1>4, <1>9, <1>11, <1>12 DEF CallsOK

\* A step that no request takes.
LEMMA NobodyMoves ==
  ASSUME WInv, NEW k, k \notin Calls, CallUndisturbed(k), UNCHANGED <<walletCall, preparing>>
  PROVE  CallsOK'
<1>1. WalletCallsFit'
  <2> SUFFICES ASSUME NEW j \in Calls PROVE WalletCallFits(j, walletCall[j])'
    BY DEF WalletCallsFit
  <2>1. PICK s \in WalletCalls : s = walletCall[j]
    BY DEF WInv, WalletTypeOK
  <2>2. WalletCallFits(j, s) /\ (Runs(s) => preparing'[s.user] = j)
    BY <2>1 DEF WInv, WalletCallsFit, WalletCallFits
  <2>3. s.at \in Registering =>
          keys'[s.user][s.key].registry = keys[s.user][s.key].registry \/ Faulted'
    BY <2>1 DEF CallUndisturbed, RegistersAlone, Stage, User, Key
  <2>4. WalletCallFits(j, s)'
    BY <2>2, <2>3, WalletFitStays DEF CallUndisturbed
  <2> QED
    BY <2>1, <2>4 DEF WalletCallFits, Runs, Unsealed
<1>2. ASSUME NEW u \in Users PROVE PreparedBy(u)'
  BY DEF WInv, WalletsFit, PreparedBy, Runs
<1> QED
  BY <1>1, <1>2 DEF CallsOK, WInv, WalletTypeOK

-----------------------------------------------------------------------------
(* What a step makes of the keys and of the rows.                          *)

\* The bounds of Service are kept by every step.
LEMMA WalletBudgetKept ==
  ASSUME BudgetOK, Arriving \/ Failing \/ Crashing \/ Working
  PROVE  /\ BudgetOK' /\ requests \in Nat /\ requests' \in Nat /\ requests <= requests'
         /\ Faulted => Faulted'
         /\ Failing \/ Crashing => Faulted'
BY DEF BudgetOK, Arriving, Failing, Crashing, Working, budgetVars, Faulted

\* The keys have their types and none was made; k disturbed nobody.
KeysKept(k) ==
  /\ CallUndisturbed(k) /\ LateFits'
  /\ keys' \in [Users -> Seq(KeyPairs)]
  /\ \A u \in Users : Len(keys'[u]) = Len(keys[u])

\* A step that leaves the keys and the rows alone.
LEMMA KeysStay ==
  ASSUME WInv, NEW k, UNCHANGED <<account, keys, legacy, edits>>, PointStays,
         Arriving \/ Failing \/ Working
  PROVE  KeysKept(k)
<1>1. keys \in [Users -> Seq(KeyPairs)]
  BY DEF WInv, WalletTypeOK
<1>2. \A u \in Users : Len(keys[u]) \in Nat
  BY <1>1
<1>3. Faulted => Faulted'
  BY WalletBudgetKept DEF WInv, WalletTypeOK
<1>4. LateFits'
  BY <1>3 DEF WInv, LateFits
<1> QED
  BY <1>1, <1>2, <1>3, <1>4
  DEF KeysKept, CallUndisturbed, KeysGrow, SealsStay, Unsealed, RegistersAlone

\* What is learned of a key: only that key changes.
LEMMA SetKeyKeeps ==
  ASSUME WInv, NEW u \in Users, NEW n \in 1..Len(keys[u]), NEW f \in KeyPairs,
         SetKey(u, n, f)
  PROVE  /\ keys' \in [Users -> Seq(KeyPairs)]
         /\ \A v \in Users : Len(keys'[v]) = Len(keys[v]) /\ Len(keys[v]) \in Nat
         /\ keys'[u][n] = f
         /\ \A v \in Users : \A m \in 1..Len(keys[v]) :
              v # u \/ m # n => keys'[v][m] = keys[v][m]
<1>1. keys \in [Users -> Seq(KeyPairs)]
  BY DEF WInv, WalletTypeOK
<1>2. PICK t \in Seq(KeyPairs) : t = keys[u]
  BY <1>1
<1>3. keys' = [keys EXCEPT ![u] = [t EXCEPT ![n] = f]]
  BY <1>2 DEF SetKey
<1>4. [t EXCEPT ![n] = f] \in Seq(KeyPairs) /\ Len([t EXCEPT ![n] = f]) = Len(t)
  BY <1>2, ExceptSeq
<1>5. keys'[u] = [t EXCEPT ![n] = f] /\ \A v \in Users \ {u} : keys'[v] = keys[v]
  BY <1>1, <1>3
<1>6. [t EXCEPT ![n] = f][n] = f /\ \A m \in 1..Len(t) : m # n => [t EXCEPT ![n] = f][m] = t[m]
  BY <1>2, ExceptSeq
<1>7. \A v \in Users : Len(keys'[v]) = Len(keys[v]) /\ Len(keys[v]) \in Nat
  BY <1>1, <1>2, <1>4, <1>5
<1>8. keys' \in [Users -> Seq(KeyPairs)]
  BY <1>1, <1>3, <1>4
<1> QED
  BY <1>2, <1>5, <1>6, <1>7, <1>8

\* What may change of a key: it is funded, it gets on in the registry, and an invocation
\* that is given up on may be included late.
KeyGrows(old, new) ==
  /\ old.funded => new.funded
  /\ old.registry = "active" => new.registry = "active"
  /\ new.late # {} => old.late # {} \/ Faulted'

\* A change of one key disturbs no request but k.
LEMMA KeyChanges ==
  ASSUME WInv, NEW k, NEW u \in Users, NEW n \in 1..Len(keys[u]), NEW f \in KeyPairs,
         SetKey(u, n, f), UNCHANGED <<account, legacy, edits, point, pointEdited>>,
         Failing \/ Working, KeyGrows(keys[u][n], f),
         \A j \in Calls \ {k} :
           Stage(j) \in Registering /\ User(j) = u =>
             f.registry = keys[u][n].registry \/ Faulted'
  PROVE  KeysKept(k) /\ keys'[u][n] = f
<1>1. /\ keys' \in [Users -> Seq(KeyPairs)]
      /\ \A v \in Users : Len(keys'[v]) = Len(keys[v]) /\ Len(keys[v]) \in Nat
      /\ keys'[u][n] = f
      /\ \A v \in Users : \A m \in 1..Len(keys[v]) : v # u \/ m # n => keys'[v][m] = keys[v][m]
  BY SetKeyKeeps
<1>2. Faulted => Faulted'
  BY WalletBudgetKept DEF WInv, WalletTypeOK
<1>3. ASSUME NEW v \in Users, NEW m \in 1..Len(keys[v])
      PROVE  /\ keys[v][m].funded => keys'[v][m].funded
             /\ keys[v][m].registry = "active" => keys'[v][m].registry = "active"
             /\ keys'[v][m].late # {} => Faulted'
  <2>1. keys[v][m].late # {} => Faulted
    BY DEF WInv, LateFits
  <2>2. CASE v = u /\ m = n
    BY <2>1, <2>2, <1>1, <1>2 DEF KeyGrows
  <2>3. CASE v # u \/ m # n
    BY <2>1, <2>3, <1>1, <1>2
  <2> QED
    BY <2>2, <2>3
<1>4. KeysGrow /\ LateFits'
  BY <1>1, <1>3 DEF KeysGrow, LateFits
<1>5. RegistersAlone(k)
  <2> SUFFICES ASSUME NEW j \in Calls \ {k}, Stage(j) \in Registering
               PROVE  keys'[User(j)][Key(j)].registry = keys[User(j)][Key(j)].registry \/ Faulted'
    BY DEF RegistersAlone
  <2>1. User(j) \in Users /\ Key(j) \in 1..Len(keys[User(j)])
    BY DEF WInv, WalletCallsFit, WalletCallFits, Stage, User, Key, KeyStages, ReadyStages,
           WalletOps, Registering
  <2>2. CASE User(j) = u /\ Key(j) = n
    BY <2>2, <1>1
  <2>3. CASE User(j) # u \/ Key(j) # n
    BY <2>1, <2>3, <1>1
  <2> QED
    BY <2>2, <2>3
<1> QED
  BY <1>1, <1>2, <1>4, <1>5 DEF KeysKept, CallUndisturbed, SealsStay, Unsealed, PointStays

\* The key a request works with, and what it may learn of it.
LEMMA KeyLearned ==
  ASSUME WInv, NEW k \in Calls, Stage(k) \in KeyStages, NEW f \in KeyPairs,
         SetKey(User(k), Key(k), f), UNCHANGED <<account, legacy, edits, point, pointEdited>>,
         Failing \/ Working, KeyGrows(keys[User(k)][Key(k)], f),
         f.registry = keys[User(k)][Key(k)].registry \/ Runs(walletCall[k])
  PROVE  KeysKept(k) /\ keys'[User(k)][Key(k)] = f
<1>1. PICK u \in Users, n \in Nat : n \in 1..Len(keys[u]) /\ u = User(k) /\ n = Key(k)
  <2>1. User(k) \in Users /\ Key(k) \in Nat /\ Key(k) \in 1..Len(keys[User(k)])
    BY SMTT(30)
       DEF WInv, WalletCallsFit, WalletCallFits, Stage, User, Key, KeyStages, ReadyStages, WalletOps
  <2> QED
    BY <2>1
<1>2. SetKey(u, n, f) /\ KeyGrows(keys[u][n], f)
  BY <1>1 DEF SetKey
<1>3. ASSUME NEW j \in Calls \ {k}, Stage(j) \in Registering, User(j) = u
      PROVE  f.registry = keys[u][n].registry
  <2>1. Runs(walletCall[j])
    BY <1>3 DEF WInv, WalletCallsFit, WalletCallFits, Stage, Registering, ReadyStages, Runs
  <2> QED
    BY <2>1, <1>1, <1>3, RunsAlone
<1>4. \A j \in Calls \ {k} :
        Stage(j) \in Registering /\ User(j) = u => f.registry = keys[u][n].registry \/ Faulted'
  BY <1>3
<1>5. KeysKept(k) /\ keys'[u][n] = f
  <2>1. u \in Users /\ n \in 1..Len(keys[u]) /\ f \in KeyPairs
    BY <1>1
  <2> QED
    BY <2>1, <1>2, <1>4, KeyChanges, SMTT(60)
<1> QED
  BY <1>1, <1>5

\* A step that makes no key and leaves the rows alone keeps what is known of them.
LEMMA RowsStay ==
  ASSUME WInv, NEW k, KeysKept(k), CallsOK', UNCHANGED <<account, legacy, edits>>,
         point' \in 0..MaxRequests, pointEdited' \in BOOLEAN, UNCHANGED <<booted, jwtRotated>>,
         Arriving \/ Failing \/ Working
  PROVE  WInv'
<1>1. BudgetOK' /\ requests \in Nat /\ requests' \in Nat /\ requests <= requests'
  BY WalletBudgetKept DEF WInv, WalletTypeOK
<1>2. WalletTypeOK'
  BY <1>1 DEF WInv, WalletTypeOK, CallsOK, KeysKept
<1>3. ASSUME NEW u \in Users PROVE WalletFits(u)'
  <2>1. WalletFits(u) /\ Len(keys'[u]) = Len(keys[u]) /\ edits[u] \in Nat
    BY DEF WInv, WalletTypeOK, WalletsFit, KeysKept
  <2> QED
    BY <2>1, <1>1 DEF WalletFits
<1> QED
  BY <1>2, <1>3 DEF WInv, WalletsFit, CallsOK, KeysKept

-----------------------------------------------------------------------------
(* The steps of createUserWallet and of payments.                          *)

\* A request that begins.
LEMMA BeginKeeps ==
  ASSUME WInv, NEW k \in Calls, NEW r \in WalletCalls, Stage(k) = "idle", CallUndisturbed(k),
         walletCall' = [walletCall EXCEPT ![k] = r],
         \/ Unprepared
         \/ /\ Runs(r) /\ r.user \in Users /\ preparing[r.user] = Nil
            /\ preparing' = [preparing EXCEPT ![r.user] = k],
         WalletCallFits(k, r)'
  PROVE  CallsOK'
<1>1. walletCall \in [Calls -> WalletCalls] /\ preparing \in [Users -> Calls \cup {Nil}]
  BY DEF WInv, WalletTypeOK
<1>2. /\ walletCall' \in [Calls -> WalletCalls] /\ walletCall'[k] = r
      /\ \A j \in Calls \ {k} : walletCall'[j] = walletCall[j]
  BY <1>1
<1>3. /\ preparing' \in [Users -> Calls \cup {Nil}]
      /\ \A u \in Users :
           \/ preparing'[u] = preparing[u]
           \/ preparing[u] = Nil /\ preparing'[u] = k /\ Runs(r) /\ r.user = u
  BY <1>1 DEF Unprepared
<1>4. WalletCallsFit'
  <2> SUFFICES ASSUME NEW j \in Calls PROVE WalletCallFits(j, walletCall[j])'
    BY DEF WalletCallsFit
  <2>1. CASE j = k
    BY <2>1, <1>2 DEF WalletCallFits, Runs, Unsealed
  <2>2. CASE j # k
    <3>1. Runs(walletCall[j]) => preparing[User(j)] = j /\ User(j) \in Users
      BY DEF WInv, WalletCallsFit, WalletCallFits, User, Runs
    <3>2. Runs(walletCall[j]) => preparing'[User(j)] = j
      BY <3>1, <1>3
    <3> QED
      BY <2>2, <3>2, <1>2, OthersFit
  <2> QED
    BY <2>1, <2>2
<1>5. ASSUME NEW u \in Users PROVE PreparedBy(u)'
  <2>1. CASE preparing'[u] = preparing[u]
    <3>1. preparing[u] # Nil => preparing[u] \in Calls \ {k} /\ Runs(walletCall[preparing[u]])
            /\ walletCall[preparing[u]].user = u
      BY <1>1 DEF WInv, WalletsFit, PreparedBy, Runs, Stage
    <3> QED
      BY <2>1, <3>1, <1>2 DEF PreparedBy, Runs
  <2>2. CASE preparing'[u] = k /\ Runs(r) /\ r.user = u
    BY <2>2, <1>2 DEF PreparedBy, Runs
  <2> QED
    BY <2>1, <2>2, <1>3
<1> QED
  BY <1>2, <1>3, <1>4, <1>5 DEF CallsOK

\* A request to make a wallet or to pay a collector begins.
LEMMA StartKeeps ==
  ASSUME WInv, NEW k \in Calls, NEW u \in Users, NEW op \in {"create", "pay"},
         StartWalletCall(k, op, u)
  PROVE  WInv'
<1> DEFINE r == [op |-> op, user |-> u, key |-> 0,
                 at |-> IF op = "pay" THEN "fetching" ELSE "looking"]
<1>1. r \in WalletCalls
  BY DEF WalletCalls, WalletStages
<1>2. KeysKept(k)
  BY KeysStay DEF StartWalletCall, RestOfWallets, PointStays
<1>3. WalletCallFits(k, r)'
  BY DEF WalletCallFits, KeyStages, ReadyStages, Registering, WalletOps, Runs
<1>4. walletCall' = [walletCall EXCEPT ![k] = r] /\ Stage(k) = "idle" /\ Unprepared
  BY DEF StartWalletCall
<1> HIDE DEF r
<1>5. CallsOK'
  BY <1>1, <1>2, <1>3, <1>4, BeginKeeps DEF KeysKept
<1> QED
  BY <1>2, <1>5, RowsStay DEF StartWalletCall, RestOfWallets, WInv, WalletTypeOK

\* readyCollector begins, or joins the run there is.
LEMMA ReadyKeeps ==
  ASSUME WInv, NEW k \in Calls, NEW u \in Users, ReadyCollector(k, u)
  PROVE  WInv'
<1>1. PICK stage \in {"looking", "sharing"} :
        stage = IF preparing[u] = Nil THEN "looking" ELSE "sharing"
  OBVIOUS
<1> DEFINE r == [op |-> "ready", user |-> u, key |-> 0, at |-> stage]
<1>2. r \in WalletCalls
  BY DEF WalletCalls, WalletStages
<1>3. KeysKept(k)
  BY KeysStay DEF ReadyCollector, RestOfWallets, PointStays
<1>4. preparing \in [Users -> Calls \cup {Nil}]
  BY DEF WInv, WalletTypeOK
<1>5. stage = "looking" => preparing'[u] = k
  BY <1>1, <1>4 DEF ReadyCollector
<1>6. WalletCallFits(k, r)'
  BY <1>5 DEF WalletCallFits, KeyStages, ReadyStages, Registering, WalletOps, Runs
<1>7. walletCall' = [walletCall EXCEPT ![k] = r] /\ Stage(k) = "idle"
  BY <1>1 DEF ReadyCollector
<1>8. \/ Unprepared
      \/ /\ Runs(r) /\ r.user \in Users /\ preparing[r.user] = Nil
         /\ preparing' = [preparing EXCEPT ![r.user] = k]
  BY <1>1 DEF ReadyCollector, Unprepared, Runs
<1> HIDE DEF r
<1>9. CallsOK'
  BY <1>2, <1>3, <1>6, <1>7, <1>8, BeginKeeps DEF KeysKept
<1> QED
  BY <1>3, <1>9, RowsStay DEF ReadyCollector, RestOfWallets, WInv, WalletTypeOK

\* Where a request goes on once it has a wallet.
LEMMA WithWalletKeeps ==
  ASSUME WInv, NEW k \in Calls, NEW key \in Nat, NEW secret \in Nat, KeysKept(k),
         Stage(k) \in {"fetching", "looking", "funding"},
         key \in 1..Len(keys'[User(k)]), secret \in 0..Len(keys'[User(k)]),
         WithWallet(k, key, secret)
  PROVE  CallsOK'
<1>1. PICK s \in WalletCalls : s = walletCall[k]
  BY DEF WInv, WalletTypeOK
<1>2. WalletCallFits(k, s) /\ s.op \in WalletOps /\ s.user \in Users
  BY <1>1 DEF WInv, WalletCallsFit, WalletCallFits, Stage
<1>3. CallUndisturbed(k)
  BY DEF KeysKept
<1>4. CASE Answer(k, key) /\ s.op = "create"
  BY <1>1, <1>3, <1>4, AnswerKeeps DEF MayAnswer
<1>5. CASE Answer(k, 0)
  BY <1>3, <1>5, AnswerKeeps DEF MayAnswer
<1>6. ASSUME NEW stage \in {"paying", "ensuring"}, NEW n \in Nat, n \in 1..Len(keys'[User(k)]),
             Proceed(k, stage, n), Unprepared,
             s.op = IF stage = "paying" THEN "pay" ELSE "ready"
      PROVE  CallsOK'
  <2>1. walletCall'[k] = [s EXCEPT !.at = stage, !.key = n]
    BY <1>1, <1>6 DEF Proceed, WInv, WalletTypeOK
  <2>2. PICK r \in WalletCalls : /\ r = walletCall'[k]
                                 /\ r.at = stage /\ r.key = n /\ r.op = s.op /\ r.user = s.user
    BY <2>1 DEF WalletCalls, WalletStages
  <2>3. Runs(r) => preparing'[r.user] = k
    BY <2>2, <1>1, <1>2, <1>6 DEF Runs, WalletCallFits, Unprepared, Stage
  <2>4. WalletCallFits(k, r)'
    BY <2>2, <2>3, <1>1, <1>2, <1>6
       DEF WalletCallFits, KeyStages, ReadyStages, Registering, WalletOps, User
  <2>5. WalletCallFits(k, walletCall[k])'
    BY <2>2, <2>4 DEF WalletCallFits, Runs, Unsealed
  <2> QED
    BY <2>5, <1>3, <1>6, ProceedKeeps DEF WalletStages
<1>7. CASE s.op = "ready" /\ secret # 0 /\ Proceed(k, "ensuring", secret) /\ Unprepared
  <2>1. secret \in 1..Len(keys'[User(k)])
    BY <1>7
  <2> QED
    BY <2>1, <1>6, <1>7
<1> QED
  BY <1>1, <1>2, <1>4, <1>5, <1>6, <1>7 DEF WithWallet, WalletOps

\* A request that finds a wallet uses it.
LEMMA UseKeeps ==
  ASSUME WInv, NEW k \in Calls, Stage(k) \in {"fetching", "looking"}, KeysKept(k),
         HasWallet(User(k)), UseWallet(k)
  PROVE  CallsOK'
<1>1. User(k) \in Users /\ CallUndisturbed(k)
  BY DEF WInv, WalletCallsFit, WalletCallFits, Stage, User, KeysKept
<1>2. /\ account[User(k)] \in WalletColumns /\ WalletFits(User(k))
      /\ Len(keys[User(k)]) \in Nat /\ Len(keys'[User(k)]) = Len(keys[User(k)])
  BY <1>1 DEF WInv, WalletTypeOK, WalletsFit, KeysKept
<1>3. PICK key \in Nat, secret \in Nat :
        /\ key = account[User(k)].pub
        /\ secret = Decrypt(account[User(k)].scheme, account[User(k)].secret)
  BY <1>2 DEF WalletColumns, Decrypt
<1>4. key \in 1..Len(keys'[User(k)])
  BY <1>2, <1>3 DEF WalletFits, HasWallet
<1>5. secret \in 0..Len(keys'[User(k)])
  BY <1>2, <1>3 DEF WalletFits, Decrypt
<1>6. WithWallet(k, key, secret) \/ Answer(k, 0)
  BY <1>3 DEF UseWallet
<1>7. CASE WithWallet(k, key, secret)
  BY <1>4, <1>5, <1>7, WithWalletKeeps
<1>8. CASE Answer(k, 0)
  BY <1>1, <1>8, AnswerKeeps DEF MayAnswer
<1> QED
  BY <1>6, <1>7, <1>8

\* A payment reads the collector's wallet.
LEMMA FetchKeeps ==
  ASSUME WInv, NEW k \in Calls, FetchWallet(k)
  PROVE  WInv'
<1>1. KeysKept(k) /\ Stage(k) = "fetching" /\ CallUndisturbed(k)
  BY KeysStay DEF FetchWallet, RestOfWallets, KeysKept, PointStays
<1> SUFFICES CallsOK'
  BY <1>1, RowsStay DEF FetchWallet, RestOfWallets, WInv, WalletTypeOK
<1>2. CASE Proceed(k, "looking", 0) /\ Unprepared
  <2>1. PICK s \in WalletCalls : s = walletCall[k]
    BY DEF WInv, WalletTypeOK
  <2>2. s.op = "pay" /\ s.user \in Users
    BY <2>1, <1>1 DEF WInv, WalletCallsFit, WalletCallFits, Stage
  <2>3. walletCall'[k] = [s EXCEPT !.at = "looking", !.key = 0]
    BY <2>1, <1>2 DEF Proceed, WInv, WalletTypeOK
  <2>4. walletCall'[k].at = "looking" /\ walletCall'[k].op = "pay" /\ walletCall'[k].user = s.user
    BY <2>2, <2>3 DEF WalletCalls
  <2>5. WalletCallFits(k, walletCall[k])'
    BY <2>2, <2>4 DEF WalletCallFits, KeyStages, ReadyStages, Registering, WalletOps, Runs
  <2> QED
    BY <2>5, <1>1, <1>2, ProceedKeeps DEF WalletStages
<1>3. CASE HasWallet(User(k)) /\ UseWallet(k)
  BY <1>1, <1>3, UseKeeps
<1> QED
  BY <1>2, <1>3 DEF FetchWallet

\* createUserWallet looks whether there is a wallet.
LEMMA LookKeeps ==
  ASSUME WInv, NEW k \in Calls, LookForWallet(k)
  PROVE  WInv'
<1>1. KeysKept(k) /\ Stage(k) = "looking" /\ CallUndisturbed(k)
  BY KeysStay DEF LookForWallet, RestOfWallets, KeysKept, PointStays
<1> SUFFICES CallsOK'
  BY <1>1, RowsStay DEF LookForWallet, RestOfWallets, WInv, WalletTypeOK
<1>2. CASE ~ HasWallet(User(k)) /\ Proceed(k, "writing", 0) /\ Unprepared
  <2>1. PICK s \in WalletCalls : s = walletCall[k]
    BY DEF WInv, WalletTypeOK
  <2>2. s.at = "looking" /\ s.op \in WalletOps /\ s.user \in Users /\ WalletCallFits(k, s)
    BY <2>1, <1>1 DEF WInv, WalletCallsFit, WalletCallFits, Stage
  <2>3. walletCall'[k] = [s EXCEPT !.at = "writing", !.key = 0]
    BY <2>1, <1>2 DEF Proceed, WInv, WalletTypeOK
  <2>4. PICK r \in WalletCalls : /\ r = walletCall'[k] /\ r.at = "writing" /\ r.op = s.op
                                 /\ r.user = s.user /\ r.key = 0
    BY <2>2, <2>3 DEF WalletCalls, WalletStages
  <2>5. edits[s.user] = 0 => Unsealed(s.user)
    BY <2>1, <2>2, <1>2 DEF WInv, WalletsFit, WalletFits, Unsealed, User, HasWallet
  <2>6. edits'[r.user] = 0 => Unsealed(r.user)'
    BY <2>2, <2>4, <2>5, <1>1 DEF CallUndisturbed, SealsStay
  <2>7. Runs(r) => preparing'[r.user] = k
    BY <2>2, <2>4, <1>2 DEF Runs, WalletCallFits, Unprepared
  <2>8. WalletCallFits(k, r)'
    BY <2>2, <2>4, <2>6, <2>7 DEF WalletCallFits, KeyStages, ReadyStages, Registering, WalletOps
  <2>9. WalletCallFits(k, walletCall[k])'
    BY <2>4, <2>8 DEF WalletCallFits, Runs, Unsealed
  <2> QED
    BY <2>9, <1>1, <1>2, ProceedKeeps DEF WalletStages
<1>3. CASE HasWallet(User(k)) /\ UseWallet(k)
  BY <1>1, <1>3, UseKeeps
<1> QED
  BY <1>2, <1>3 DEF LookForWallet

\* A request that goes on with its key keeps what is known, if it may go there.
LEMMA WalletCallGoesOn ==
  ASSUME WInv, NEW k \in Calls, KeysKept(k), Stage(k) \in KeyStages,
         NEW stage \in ReadyStages, Proceed(k, stage, Key(k)), Unprepared,
         walletCall[k].op = "ready", keys'[User(k)][Key(k)].funded,
         stage \in Registering => keys'[User(k)][Key(k)].registry = "none" \/ Faulted'
  PROVE  CallsOK'
<1>1. PICK s \in WalletCalls : s = walletCall[k]
  BY DEF WInv, WalletTypeOK
<1>2. /\ s.op = "ready" /\ s.user \in Users /\ WalletCallFits(k, s) /\ s.at \in KeyStages
      /\ s.key \in 1..Len(keys[s.user])
  BY <1>1 DEF WInv, WalletCallsFit, WalletCallFits, Stage, KeyStages, ReadyStages
<1>3. walletCall'[k] = [s EXCEPT !.at = stage, !.key = s.key]
  BY <1>1 DEF Proceed, WInv, WalletTypeOK, Key
<1>4. PICK r \in WalletCalls : /\ r = walletCall'[k] /\ r.at = stage /\ r.op = "ready"
                               /\ r.user = s.user /\ r.key = s.key
  BY <1>2, <1>3 DEF WalletCalls, WalletStages, ReadyStages
<1>5. r.key \in 1..Len(keys'[r.user])
  BY <1>2, <1>4 DEF KeysKept
<1>6. preparing'[r.user] = k
  BY <1>2, <1>4 DEF WalletCallFits, Unprepared, Runs, KeyStages, ReadyStages
<1>7. /\ keys'[r.user][r.key].funded
      /\ r.at \in Registering => keys'[r.user][r.key].registry = "none" \/ Faulted'
  BY <1>1, <1>4 DEF User, Key
<1>8. WalletCallFits(k, r)'
  BY <1>2, <1>4, <1>5, <1>6, <1>7 DEF WalletCallFits, KeyStages, ReadyStages, Registering, WalletOps
<1>9. WalletCallFits(k, walletCall[k])'
  BY <1>4, <1>8 DEF WalletCallFits, Runs, Unsealed
<1>10. Runs(walletCall[k]) => stage \notin {"idle", "sharing"}
  BY DEF ReadyStages
<1>11. stage \in WalletStages /\ Key(k) \in Nat
  BY <1>1 DEF WalletStages, ReadyStages, WalletCalls, Key
<1> QED
  BY <1>9, <1>10, <1>11, ProceedKeeps DEF KeysKept

\* The row and the keys of a request that has a key.
LEMMA KeyThere ==
  ASSUME WInv, NEW k \in Calls, Stage(k) \in KeyStages
  PROVE  /\ User(k) \in Users /\ Key(k) \in 1..Len(keys[User(k)]) /\ Key(k) \in Nat
         /\ keys[User(k)][Key(k)] \in KeyPairs
<1>1. User(k) \in Users /\ Key(k) \in 1..Len(keys[User(k)]) /\ Key(k) \in Nat
  BY DEF WInv, WalletCallsFit, WalletCallFits, Stage, User, Key, KeyStages, ReadyStages, WalletOps,
         WalletTypeOK, WalletCalls
<1>2. keys[User(k)] \in Seq(KeyPairs)
  BY <1>1 DEF WInv, WalletTypeOK
<1> QED
  BY <1>1, <1>2

\* A key pair is added, and what is known of the others stays.
LEMMA KeyAdded ==
  ASSUME WInv, NEW u \in Users, keys' = [keys EXCEPT ![u] = Append(keys[u], NewKeyPair)],
         Faulted => Faulted'
  PROVE  /\ keys' \in [Users -> Seq(KeyPairs)] /\ Len(keys'[u]) = Len(keys[u]) + 1
         /\ \A v \in Users : Len(keys[v]) \in Nat /\ (v # u => Len(keys'[v]) = Len(keys[v]))
         /\ KeysGrow /\ LateFits' /\ \A k : RegistersAlone(k)
<1>1. keys \in [Users -> Seq(KeyPairs)] /\ NewKeyPair \in KeyPairs /\ NewKeyPair.late = {}
  BY DEF WInv, WalletTypeOK, NewKeyPair, KeyPairs
<1>2. PICK t \in Seq(KeyPairs) : t = keys[u]
  BY <1>1
<1>3. /\ Append(t, NewKeyPair) \in Seq(KeyPairs) /\ Len(Append(t, NewKeyPair)) = Len(t) + 1
      /\ \A m \in 1..Len(t) : Append(t, NewKeyPair)[m] = t[m]
      /\ Append(t, NewKeyPair)[Len(t) + 1] = NewKeyPair
  BY <1>1
<1>4. /\ keys' \in [Users -> Seq(KeyPairs)] /\ keys'[u] = Append(t, NewKeyPair)
      /\ \A v \in Users \ {u} : keys'[v] = keys[v]
  BY <1>1, <1>2, <1>3
<1>5. \A v \in Users : Len(keys[v]) \in Nat /\ (v # u => Len(keys'[v]) = Len(keys[v]))
  BY <1>1, <1>4
<1>6. Len(keys'[u]) = Len(keys[u]) + 1
  BY <1>2, <1>3, <1>4
<1>7. \A v \in Users : \A m \in 1..Len(keys[v]) : keys'[v][m] = keys[v][m]
  BY <1>2, <1>3, <1>4
<1>8. \A v \in Users : Len(keys[v]) <= Len(keys'[v])
  BY <1>5, <1>6
<1>9. KeysGrow
  BY <1>7, <1>8 DEF KeysGrow
<1>10. LateFits'
  <2> SUFFICES ASSUME NEW v \in Users, NEW m \in 1..Len(keys'[v]), keys'[v][m].late # {}
               PROVE  Faulted'
    BY DEF LateFits
  <2>1. CASE m \in 1..Len(keys[v])
    BY <2>1, <1>7 DEF WInv, LateFits
  <2>2. CASE m \notin 1..Len(keys[v])
    <3>1. v = u /\ m = Len(t) + 1
      BY <2>2, <1>2, <1>5, <1>6
    <3> QED
      BY <3>1, <1>1, <1>3, <1>4
  <2> QED
    BY <2>1, <2>2
<1>11. ASSUME NEW k PROVE RegistersAlone(k)
  <2> SUFFICES ASSUME NEW j \in Calls \ {k}, Stage(j) \in Registering
               PROVE  keys'[User(j)][Key(j)].registry = keys[User(j)][Key(j)].registry
    BY DEF RegistersAlone
  <2>1. User(j) \in Users /\ Key(j) \in 1..Len(keys[User(j)])
    BY KeyThere DEF KeyStages, ReadyStages, Registering
  <2> QED
    BY <2>1, <1>7
<1> QED
  BY <1>4, <1>5, <1>6, <1>9, <1>10, <1>11

\* A new key pair takes the place of whatever is there.
LEMMA WriteKeeps ==
  ASSUME WInv, NEW k \in Calls, WriteWallet(k)
  PROVE  WInv'
<1>1. PICK s \in WalletCalls : s = walletCall[k]
  BY DEF WInv, WalletTypeOK
<1>2. /\ s.at = "writing" /\ s.op \in WalletOps /\ s.user \in Users /\ WalletCallFits(k, s)
      /\ edits[s.user] = 0 => Unsealed(s.user)
  BY <1>1 DEF WInv, WalletCallsFit, WalletCallFits, Stage, WriteWallet
<1>3. PICK u \in Users : u = s.user /\ u = User(k)
  BY <1>1, <1>2 DEF User
<1>4. keys \in [Users -> Seq(KeyPairs)] /\ account \in [Users -> WalletColumns]
  BY DEF WInv, WalletTypeOK
<1>5. PICK n \in Nat : n = Len(keys[u]) + 1
  BY <1>4
<1>6. /\ keys' = [keys EXCEPT ![u] = Append(keys[u], NewKeyPair)]
      /\ account' = [account EXCEPT ![u] = [pub |-> n, secret |-> n, scheme |-> "v2"]]
      /\ Proceed(k, "funding", n) /\ Working /\ Unprepared
      /\ UNCHANGED <<point, booted, legacy, jwtRotated, edits, pointEdited>>
  BY <1>3, <1>5 DEF WriteWallet, RestOfWallets
<1>7. /\ BudgetOK' /\ (Faulted => Faulted') /\ requests' = requests
  BY <1>6, WalletBudgetKept DEF WInv, WalletTypeOK, Working, budgetVars
<1>8. /\ keys' \in [Users -> Seq(KeyPairs)] /\ Len(keys'[u]) = n
      /\ \A v \in Users : Len(keys[v]) \in Nat /\ (v # u => Len(keys'[v]) = Len(keys[v]))
      /\ KeysGrow /\ LateFits' /\ RegistersAlone(k)
  BY <1>5, <1>6, <1>7, KeyAdded
<1>9. /\ account' \in [Users -> WalletColumns]
      /\ account'[u] = [pub |-> n, secret |-> n, scheme |-> "v2"]
      /\ \A v \in Users \ {u} : account'[v] = account[v]
  BY <1>4, <1>6 DEF WalletColumns
<1>10. SealsStay
  <2> SUFFICES ASSUME NEW v \in Users, Unsealed(v) PROVE Unsealed(v)'
    BY <1>6 DEF SealsStay
  <2>1. CASE v = u
    BY <2>1, <1>6, <1>9 DEF Unsealed
  <2>2. CASE v # u
    BY <2>2, <1>6, <1>9 DEF Unsealed
  <2> QED
    BY <2>1, <2>2
<1>11. CallUndisturbed(k)
  BY <1>6, <1>7, <1>8, <1>10 DEF CallUndisturbed, PointStays
<1>12. walletCall'[k] = [s EXCEPT !.at = "funding", !.key = n]
  BY <1>1, <1>6 DEF Proceed, WInv, WalletTypeOK
<1>13. PICK r \in WalletCalls : /\ r = walletCall'[k] /\ r.at = "funding" /\ r.op = s.op
                                /\ r.user = u /\ r.key = n
  BY <1>3, <1>12 DEF WalletCalls, WalletStages
<1>14. Runs(r) => preparing'[r.user] = k
  BY <1>2, <1>3, <1>6, <1>13 DEF Runs, WalletCallFits, Unprepared
<1>15. r.key \in 1..Len(keys'[r.user])
  BY <1>5, <1>4, <1>8, <1>13
<1>16. WalletCallFits(k, r)'
  BY <1>2, <1>13, <1>14, <1>15 DEF WalletCallFits, KeyStages, ReadyStages, Registering, WalletOps
<1>17. WalletCallFits(k, walletCall[k])'
  BY <1>13, <1>16 DEF WalletCallFits, Runs, Unsealed
<1>18. CallsOK'
  BY <1>6, <1>11, <1>17, ProceedKeeps DEF WalletStages
<1>19. WalletTypeOK'
  BY <1>6, <1>7, <1>8, <1>9, <1>18 DEF WInv, WalletTypeOK, CallsOK
<1>20. ASSUME NEW v \in Users PROVE WalletFits(v)'
  <2>1. WalletFits(v) /\ legacy \in [Users -> Nat]
    BY DEF WInv, WalletsFit, WalletTypeOK
  <2>2. CASE v = u
    <3>1. edits[u] = 0 => legacy[u] = 0
      BY <1>2, <1>3 DEF Unsealed
    <3>2. legacy[u] \in 0..n
      BY <2>1, <2>2, <1>4, <1>5 DEF WalletFits
    <3> QED
      BY <3>1, <3>2, <2>1, <2>2, <1>5, <1>4, <1>6, <1>7, <1>8, <1>9 DEF WalletFits
  <2>3. CASE v # u
    BY <2>1, <2>3, <1>6, <1>7, <1>8, <1>9 DEF WalletFits
  <2> QED
    BY <2>2, <2>3
<1> QED
  BY <1>8, <1>18, <1>19, <1>20 DEF WInv, WalletsFit, CallsOK

\* Friendbot pays a new wallet, or fails.
LEMMA FundKeeps ==
  ASSUME WInv, NEW k \in Calls, FundWallet(k)
  PROVE  WInv'
<1>1. /\ User(k) \in Users /\ Key(k) \in 1..Len(keys[User(k)]) /\ Key(k) \in Nat
      /\ keys[User(k)][Key(k)] \in KeyPairs /\ Stage(k) \in KeyStages
  BY KeyThere DEF FundWallet, KeyStages
<1>2. UNCHANGED <<account, legacy, edits, point, pointEdited>> /\ (Failing \/ Working)
  BY DEF FundWallet, RestOfWallets
<1>3. PICK f \in KeyPairs : f = [keys[User(k)][Key(k)] EXCEPT !.funded = TRUE]
  BY <1>1 DEF KeyPairs
<1>4. f.registry = keys[User(k)][Key(k)].registry /\ KeyGrows(keys[User(k)][Key(k)], f)
  BY <1>1, <1>3 DEF KeyPairs, KeyGrows
<1>5. SetKey(User(k), Key(k), f) => KeysKept(k)
  BY <1>1, <1>2, <1>4, KeyLearned
<1>6. UNCHANGED keys => KeysKept(k)
  BY <1>2, KeysStay DEF PointStays
<1>7. KeysKept(k)
  BY <1>3, <1>5, <1>6 DEF FundWallet
<1>8. Key(k) \in 1..Len(keys'[User(k)])
  BY <1>1, <1>7 DEF KeysKept
<1>9. CallsOK'
  <2>1. Key(k) \in 0..Len(keys'[User(k)])
    BY <1>8
  <2> QED
    BY <2>1, <1>1, <1>7, <1>8, WithWalletKeeps DEF FundWallet
<1> QED
  BY <1>7, <1>9, RowsStay DEF FundWallet, RestOfWallets, WInv, WalletTypeOK

\* A request that works with a key ends.
LEMMA EndsWithKey ==
  ASSUME WInv, NEW k \in Calls, KeysKept(k), Stage(k) \in KeyStages, NEW key \in Nat,
         Answer(k, key), MayAnswer(k, key)
  PROVE  CallsOK'
BY AnswerKeeps DEF KeysKept, KeyStages, ReadyStages

\* A payment is sent, or is not.
LEMMA PayKeeps ==
  ASSUME WInv, NEW k \in Calls, PayWallet(k)
  PROVE  WInv'
<1>1. /\ User(k) \in Users /\ Key(k) \in 1..Len(keys[User(k)]) /\ Key(k) \in Nat
      /\ keys[User(k)][Key(k)] \in KeyPairs /\ Stage(k) \in KeyStages
  BY KeyThere DEF PayWallet, KeyStages
<1>2. walletCall[k].op = "pay"
  BY DEF PayWallet, WInv, WalletCallsFit, WalletCallFits, Stage
<1>3. UNCHANGED <<account, legacy, edits, point, pointEdited>> /\ (Failing \/ Working)
  BY DEF PayWallet, RestOfWallets
<1>4. PICK f \in KeyPairs : f = [keys[User(k)][Key(k)] EXCEPT !.paid = TRUE]
  BY <1>1 DEF KeyPairs
<1>5. f.registry = keys[User(k)][Key(k)].registry /\ KeyGrows(keys[User(k)][Key(k)], f)
  BY <1>1, <1>4 DEF KeyPairs, KeyGrows
<1>6. SetKey(User(k), Key(k), f) => KeysKept(k)
  BY <1>1, <1>3, <1>5, KeyLearned
<1>7. UNCHANGED keys => KeysKept(k)
  BY <1>3, KeysStay DEF PointStays
<1>8. KeysKept(k)
  BY <1>4, <1>6, <1>7 DEF PayWallet
<1>9. \A key \in Nat : MayAnswer(k, key)
  BY <1>2 DEF MayAnswer
<1>10. Answer(k, Key(k)) \/ Answer(k, 0)
  BY DEF PayWallet
<1>11. CallsOK'
  BY <1>1, <1>8, <1>9, <1>10, EndsWithKey
<1> QED
  BY <1>8, <1>11, RowsStay DEF PayWallet, RestOfWallets, WInv, WalletTypeOK

-----------------------------------------------------------------------------
(* The steps of readyCollector.                                            *)

\* A run makes sure that the collector's account exists.
LEMMA EnsureKeeps ==
  ASSUME WInv, NEW k \in Calls, EnsureAccount(k)
  PROVE  WInv'
<1>1. /\ User(k) \in Users /\ Key(k) \in 1..Len(keys[User(k)]) /\ Key(k) \in Nat
      /\ keys[User(k)][Key(k)] \in KeyPairs /\ Stage(k) \in KeyStages
  BY KeyThere DEF EnsureAccount, KeyStages
<1>2. walletCall[k].op = "ready"
  BY DEF EnsureAccount, WInv, WalletCallsFit, WalletCallFits, Stage
<1>3. UNCHANGED <<account, legacy, edits, point, pointEdited>> /\ (Failing \/ Working)
  BY DEF EnsureAccount, RestOfWallets
<1>4. PICK f \in KeyPairs : f = [keys[User(k)][Key(k)] EXCEPT !.funded = TRUE]
  BY <1>1 DEF KeyPairs
<1>5. /\ f.funded /\ f.registry = keys[User(k)][Key(k)].registry
      /\ KeyGrows(keys[User(k)][Key(k)], f)
  BY <1>1, <1>4 DEF KeyPairs, KeyGrows
<1>6. SetKey(User(k), Key(k), f) => KeysKept(k) /\ keys'[User(k)][Key(k)] = f
  BY <1>1, <1>3, <1>5, KeyLearned
<1>7. ASSUME SetKey(User(k), Key(k), f) /\ Proceed(k, "asking", Key(k)) /\ Unprepared
      PROVE  KeysKept(k) /\ CallsOK'
  BY <1>1, <1>2, <1>5, <1>6, <1>7, WalletCallGoesOn DEF ReadyStages, Registering
<1>8. UNCHANGED keys => KeysKept(k)
  BY <1>3, KeysStay DEF PointStays
<1>9. ASSUME (SetKey(User(k), Key(k), f) \/ UNCHANGED keys) /\ Answer(k, 0)
      PROVE  KeysKept(k) /\ CallsOK'
  BY <1>1, <1>6, <1>8, <1>9, EndsWithKey DEF MayAnswer
<1>10. KeysKept(k) /\ CallsOK'
  BY <1>4, <1>6, <1>7, <1>8, <1>9 DEF EnsureAccount
<1> QED
  BY <1>10, RowsStay DEF EnsureAccount, RestOfWallets, WInv, WalletTypeOK

\* A run asks the registry whether the collector is active.
LEMMA AskKeeps ==
  ASSUME WInv, NEW k \in Calls, CheckActive(k)
  PROVE  WInv'
<1>1. /\ User(k) \in Users /\ Key(k) \in 1..Len(keys[User(k)]) /\ Key(k) \in Nat
      /\ keys[User(k)][Key(k)] \in KeyPairs /\ Stage(k) \in KeyStages
  BY KeyThere DEF CheckActive, KeyStages, ReadyStages
<1>2. walletCall[k].op = "ready" /\ keys[User(k)][Key(k)].funded
  BY DEF CheckActive, WInv, WalletCallsFit, WalletCallFits, Stage, User, Key, ReadyStages
<1>3. KeysKept(k) /\ keys' = keys
  BY KeysStay DEF CheckActive, RestOfWallets, PointStays
<1> SUFFICES CallsOK'
  BY <1>3, RowsStay DEF CheckActive, RestOfWallets, WInv, WalletTypeOK
<1>4. CASE keys[User(k)][Key(k)].registry = "active" /\ Answer(k, Key(k))
  <2>1. MayAnswer(k, Key(k))
    BY <1>1, <1>2, <1>3, <1>4 DEF MayAnswer
  <2> QED
    BY <2>1, <1>1, <1>3, <1>4, EndsWithKey
<1>5. CASE Proceed(k, "existing", Key(k)) /\ Unprepared
  BY <1>1, <1>2, <1>3, <1>5, WalletCallGoesOn DEF ReadyStages, Registering
<1> QED
  BY <1>4, <1>5 DEF CheckActive

\* A run asks the registry whether it knows the collector.
LEMMA ExistsKeeps ==
  ASSUME WInv, NEW k \in Calls, CheckExists(k)
  PROVE  WInv'
<1>1. Stage(k) \in KeyStages
  BY DEF CheckExists, KeyStages, ReadyStages
<1>2. walletCall[k].op = "ready" /\ keys[User(k)][Key(k)].funded
  BY DEF CheckExists, WInv, WalletCallsFit, WalletCallFits, Stage, User, Key, ReadyStages
<1>3. KeysKept(k) /\ keys' = keys
  BY KeysStay DEF CheckExists, RestOfWallets, PointStays
<1> SUFFICES CallsOK'
  BY <1>3, RowsStay DEF CheckExists, RestOfWallets, WInv, WalletTypeOK
<1>4. CASE keys[User(k)][Key(k)].registry = "none"
  BY <1>1, <1>2, <1>3, <1>4, WalletCallGoesOn DEF CheckExists, ReadyStages, Registering
<1>5. CASE keys[User(k)][Key(k)].registry # "none"
  BY <1>1, <1>2, <1>3, <1>5, WalletCallGoesOn DEF CheckExists, ReadyStages, Registering
<1> QED
  BY <1>4, <1>5

\* The run of a request that registers or activates its collector.
LEMMA RegistryRun ==
  ASSUME WInv, NEW k \in Calls,
         Stage(k) \in {"registering", "registered", "activating", "activated"}
  PROVE  /\ User(k) \in Users /\ Key(k) \in 1..Len(keys[User(k)]) /\ Key(k) \in Nat
         /\ keys[User(k)][Key(k)] \in KeyPairs /\ Stage(k) \in KeyStages
         /\ walletCall[k].op = "ready" /\ Runs(walletCall[k]) /\ keys[User(k)][Key(k)].funded
<1>1. /\ User(k) \in Users /\ Key(k) \in 1..Len(keys[User(k)]) /\ Key(k) \in Nat
      /\ keys[User(k)][Key(k)] \in KeyPairs /\ Stage(k) \in KeyStages
  BY KeyThere DEF KeyStages, ReadyStages
<1>2. walletCall[k].op = "ready" /\ Runs(walletCall[k]) /\ keys[User(k)][Key(k)].funded
  BY DEF WInv, WalletCallsFit, WalletCallFits, Stage, User, Key, ReadyStages, Runs
<1> QED
  BY <1>1, <1>2

\* A request that ends without a collector, and what it was about may happen late.
LEMMA LateKeeps ==
  ASSUME WInv, NEW k \in Calls, NEW status \in {"pending", "active"},
         Stage(k) \in {"registering", "registered", "activating", "activated"},
         SetKey(User(k), Key(k), GivenUp(keys[User(k)][Key(k)], status)), Failing,
         Answer(k, 0), RestOfWallets, UNCHANGED account
  PROVE  KeysKept(k) /\ CallsOK'
<1>1. keys[User(k)][Key(k)] \in KeyPairs /\ Stage(k) \in KeyStages
  BY RegistryRun
<1>2. PICK f \in KeyPairs : f = GivenUp(keys[User(k)][Key(k)], status)
  BY <1>1 DEF KeyPairs, GivenUp
<1>3. Faulted'
  BY WalletBudgetKept DEF WInv, WalletTypeOK
<1>4. f.registry = keys[User(k)][Key(k)].registry /\ KeyGrows(keys[User(k)][Key(k)], f)
  BY <1>1, <1>2, <1>3 DEF KeyPairs, KeyGrows, GivenUp
<1>5. KeysKept(k)
  BY <1>1, <1>2, <1>4, KeyLearned DEF RestOfWallets
<1> QED
  BY <1>1, <1>5, EndsWithKey DEF MayAnswer

\* An invocation is refused, is sent, or its answer is lost.
LEMMA InvokeKeeps ==
  ASSUME WInv, NEW k \in Calls, RegisterCollector(k) \/ ActivateCollector(k)
  PROVE  WInv'
<1>1. PICK status \in {"pending", "active"}, stage \in {"registered", "activated"} :
        /\ Invoke(k, status, stage)
        /\ Stage(k) \in {"registering", "activating"}
        /\ stage = "registered" => status = "pending"
  BY DEF RegisterCollector, ActivateCollector
<1>2. /\ Stage(k) \in KeyStages /\ walletCall[k].op = "ready" /\ keys[User(k)][Key(k)].funded
      /\ RestOfWallets /\ UNCHANGED account /\ (Failing \/ Working)
  BY <1>1, RegistryRun DEF Invoke
<1>3. UNCHANGED keys => KeysKept(k)
  BY <1>2, KeysStay DEF RestOfWallets, PointStays
<1>4. ASSUME UNCHANGED keys /\ Answer(k, 0) PROVE KeysKept(k) /\ CallsOK'
  BY <1>2, <1>3, <1>4, EndsWithKey DEF MayAnswer
<1>5. ASSUME /\ Accepts(keys[User(k)][Key(k)], status) /\ UNCHANGED keys
             /\ Proceed(k, stage, Key(k)) /\ Unprepared
      PROVE  KeysKept(k) /\ CallsOK'
  <2>1. stage \in Registering => keys'[User(k)][Key(k)].registry = "none"
    BY <1>1, <1>5 DEF Accepts, Registering
  <2>2. stage \in ReadyStages /\ keys'[User(k)][Key(k)].funded
    BY <1>2, <1>5 DEF ReadyStages
  <2> QED
    BY <2>1, <2>2, <1>2, <1>3, <1>5, WalletCallGoesOn
<1>6. ASSUME /\ SetKey(User(k), Key(k), GivenUp(keys[User(k)][Key(k)], status))
             /\ Failing /\ Answer(k, 0)
      PROVE  KeysKept(k) /\ CallsOK'
  BY <1>1, <1>2, <1>6, LateKeeps
<1>7. KeysKept(k) /\ CallsOK'
  BY <1>1, <1>4, <1>5, <1>6 DEF Invoke
<1> QED
  BY <1>2, <1>7, RowsStay DEF RestOfWallets, WInv, WalletTypeOK

\* What was sent is included, and answered.
LEMMA ConfirmKeeps ==
  ASSUME WInv, NEW k \in Calls, Confirm(k)
  PROVE  WInv'
<1>1. /\ User(k) \in Users /\ Key(k) \in 1..Len(keys[User(k)]) /\ Key(k) \in Nat
      /\ keys[User(k)][Key(k)] \in KeyPairs /\ Stage(k) \in KeyStages
      /\ walletCall[k].op = "ready" /\ Runs(walletCall[k]) /\ keys[User(k)][Key(k)].funded
  BY RegistryRun DEF Confirm, Outstanding
<1>2. RestOfWallets /\ UNCHANGED account /\ Working /\ Stage(k) \in {"registered", "activated"}
  BY DEF Confirm, Outstanding
<1>3. PICK f \in KeyPairs : f = [keys[User(k)][Key(k)] EXCEPT !.registry = Sent(k)]
  BY <1>1 DEF KeyPairs, Sent
<1>4. f.funded /\ f.registry = Sent(k) /\ f.late = keys[User(k)][Key(k)].late
  BY <1>1, <1>3 DEF KeyPairs
<1>5. ASSUME Accepts(keys[User(k)][Key(k)], Sent(k)), SetKey(User(k), Key(k), f)
      PROVE  KeysKept(k) /\ keys'[User(k)][Key(k)] = f
  <2>1. KeyGrows(keys[User(k)][Key(k)], f)
    BY <1>4, <1>5 DEF KeyGrows, Accepts, Sent
  <2> QED
    BY <2>1, <1>1, <1>2, <1>5, KeyLearned DEF RestOfWallets
<1>6. ASSUME UNCHANGED keys, Answer(k, 0) PROVE KeysKept(k) /\ CallsOK'
  <2>1. KeysKept(k)
    BY <1>2, <1>6, KeysStay DEF RestOfWallets, PointStays
  <2> QED
    BY <2>1, <1>1, <1>6, EndsWithKey DEF MayAnswer
<1>7. ASSUME Accepts(keys[User(k)][Key(k)], Sent(k)), SetKey(User(k), Key(k), f),
             Stage(k) = "activated", Answer(k, Key(k))
      PROVE  KeysKept(k) /\ CallsOK'
  <2>1. KeysKept(k) /\ keys'[User(k)][Key(k)] = f /\ f.registry = "active"
    BY <1>4, <1>5, <1>7 DEF Sent
  <2>2. MayAnswer(k, Key(k))
    BY <2>1, <1>1, <1>4 DEF MayAnswer, KeysKept
  <2> QED
    BY <2>1, <2>2, <1>1, <1>7, EndsWithKey
<1>8. ASSUME Accepts(keys[User(k)][Key(k)], Sent(k)), SetKey(User(k), Key(k), f),
             Proceed(k, "activating", Key(k)), Unprepared
      PROVE  KeysKept(k) /\ CallsOK'
  <2>1. KeysKept(k) /\ keys'[User(k)][Key(k)].funded
    BY <1>4, <1>5, <1>8
  <2> QED
    BY <2>1, <1>1, <1>8, WalletCallGoesOn DEF ReadyStages, Registering
<1>9. KeysKept(k) /\ CallsOK'
  BY <1>3, <1>6, <1>7, <1>8 DEF Confirm
<1> QED
  BY <1>2, <1>9, RowsStay DEF RestOfWallets, WInv, WalletTypeOK

\* A poll ends without an answer.
LEMMA GiveUpKeeps ==
  ASSUME WInv, NEW k \in Calls, GiveUp(k)
  PROVE  WInv'
<1>1. KeysKept(k) /\ CallsOK'
  BY LateKeeps DEF GiveUp, Outstanding, Sent
<1> QED
  BY <1>1, RowsStay DEF GiveUp, RestOfWallets, WInv, WalletTypeOK

\* What nobody polls for any more is included, or never will be.
LEMMA SettleKeeps ==
  ASSUME WInv, NEW u \in Users, NEW n \in 1..Len(keys[u]), NEW status \in {"pending", "active"},
         Settle(u, n, status)
  PROVE  WInv'
<1>1. keys[u][n] \in KeyPairs /\ Faulted
  <2>1. keys[u] \in Seq(KeyPairs)
    BY DEF WInv, WalletTypeOK
  <2> QED
    BY <2>1 DEF Settle, WInv, LateFits
<1>2. Faulted'
  BY <1>1, WalletBudgetKept DEF Settle, WInv, WalletTypeOK
<1>3. PICK f \in KeyPairs : SetKey(u, n, f) /\ KeyGrows(keys[u][n], f)
  <2>1. PICK pair \in KeyPairs : /\ pair = [keys[u][n] EXCEPT !.late = @ \ {status}]
                                 /\ KeyGrows(keys[u][n], pair)
    <3>1. [keys[u][n] EXCEPT !.late = @ \ {status}] \in KeyPairs
      BY <1>1 DEF KeyPairs
    <3>2. KeyGrows(keys[u][n], [keys[u][n] EXCEPT !.late = @ \ {status}])
      BY <1>1, <1>2 DEF KeyPairs, KeyGrows
    <3> QED
      BY <3>1, <3>2
  <2>2. CASE SetKey(u, n, pair)
    BY <2>1, <2>2
  <2>3. CASE Accepts(pair, status) /\ SetKey(u, n, [pair EXCEPT !.registry = status])
    <3>1. PICK f \in KeyPairs : f = [pair EXCEPT !.registry = status]
      BY <2>1 DEF KeyPairs
    <3>2. KeyGrows(keys[u][n], f)
      BY <3>1, <2>1, <2>3, <1>1, <1>2 DEF KeyGrows, Accepts, KeyPairs
    <3> QED
      BY <3>1, <3>2, <2>3
  <2> QED
    BY <2>1, <2>2, <2>3 DEF Settle
<1>4. KeysKept(Nil)
  BY <1>2, <1>3, KeyChanges DEF Settle, RestOfWallets
<1>5. CallsOK'
  BY <1>4, NobodyMoves DEF Settle, Unprepared, KeysKept
<1> QED
  BY <1>4, <1>5, RowsStay DEF Settle, RestOfWallets, WInv, WalletTypeOK

-----------------------------------------------------------------------------
(* The steps of ensurePointAddress.                                        *)

\* A collection is loaded with its point.
LEMMA LoadKeeps ==
  ASSUME WInv, NEW k \in Calls, LoadPoint(k)
  PROVE  WInv'
<1>1. PICK p \in Nat : p = point
  BY DEF WInv, WalletTypeOK
<1>2. PICK stage \in {"setting", "idle"} : stage = IF p = 0 THEN "setting" ELSE "idle"
  OBVIOUS
<1> DEFINE r == [op |-> "point", user |-> Nil, key |-> p, at |-> stage]
<1>3. r \in WalletCalls
  BY DEF WalletCalls, WalletStages
<1>4. KeysKept(k)
  BY KeysStay DEF LoadPoint, RestOfPoint, PointStays
<1>5. WalletCallFits(k, r)'
  BY <1>1 DEF WalletCallFits, KeyStages, ReadyStages, Registering, WalletOps, Runs, LoadPoint
<1>6. walletCall' = [walletCall EXCEPT ![k] = r] /\ Stage(k) = "idle" /\ Unprepared
  BY <1>1, <1>2 DEF LoadPoint, RestOfPoint, Unprepared
<1> HIDE DEF r
<1>7. CallsOK'
  BY <1>3, <1>4, <1>5, <1>6, BeginKeeps DEF KeysKept
<1> QED
  BY <1>4, <1>7, RowsStay DEF LoadPoint, RestOfPoint, WInv, WalletTypeOK

\* A request for a point's address takes its next step.
LEMMA PointGoesOn ==
  ASSUME WInv, NEW k \in Calls, Stage(k) \in {"setting", "rereading"}, NEW stage \in {"rereading", "idle"},
         NEW key \in Nat, Proceed(k, stage, key), Working, RestOfPoint,
         point' \in 0..MaxRequests, point # 0 => point' = point,
         stage = "idle" => key = point'
  PROVE  WInv'
<1>1. PICK s \in WalletCalls : s = walletCall[k]
  BY DEF WInv, WalletTypeOK
<1>2. s.op = "point" /\ WalletCallFits(k, s)
  BY <1>1 DEF WInv, WalletCallsFit, WalletCallFits, Stage
<1>3. KeysKept(k) /\ Unprepared
  BY KeysStay DEF RestOfPoint, Unprepared, PointStays
<1>4. walletCall'[k] = [s EXCEPT !.at = stage, !.key = key]
  BY <1>1 DEF Proceed, WInv, WalletTypeOK
<1>5. PICK r \in WalletCalls : /\ r = walletCall'[k] /\ r.at = stage /\ r.op = "point" /\ r.key = key
  BY <1>2, <1>4 DEF WalletCalls, WalletStages
<1>6. WalletCallFits(k, r)'
  BY <1>5 DEF WalletCallFits, KeyStages, ReadyStages, Registering, WalletOps, Runs
<1>7. WalletCallFits(k, walletCall[k])'
  BY <1>5, <1>6 DEF WalletCallFits, Runs, Unsealed
<1>8. ~ Runs(walletCall[k]) /\ CallUndisturbed(k)
  BY <1>1, <1>2, <1>3 DEF Runs, KeysKept
<1>9. CallsOK'
  BY <1>3, <1>7, <1>8, ProceedKeeps DEF WalletStages
<1> QED
  BY <1>3, <1>9, RowsStay DEF RestOfPoint, WInv, WalletTypeOK

\* A missing address is set, one that is there is left.
LEMMA SetPointKeeps ==
  ASSUME WInv, NEW k \in Calls, SetPointAddress(k)
  PROVE  WInv'
<1>1. point' \in 0..MaxRequests /\ (point # 0 => point' = point)
  BY DEF SetPointAddress, WInv, WalletTypeOK
<1> QED
  BY <1>1, PointGoesOn DEF SetPointAddress

\* The address that is stored is read again.
LEMMA ReadPointKeeps ==
  ASSUME WInv, NEW k \in Calls, ReadPointAddress(k)
  PROVE  WInv'
<1>1. PICK key \in Nat : key = point /\ key = point'
  BY DEF ReadPointAddress, WInv, WalletTypeOK
<1>2. point' \in 0..MaxRequests
  BY DEF ReadPointAddress, WInv, WalletTypeOK
<1> QED
  BY <1>1, <1>2, PointGoesOn DEF ReadPointAddress

-----------------------------------------------------------------------------
(* Failures, the migration and restarts.                                   *)

\* A read or a write fails.
LEMMA WalletFailureKeeps ==
  ASSUME WInv, NEW k \in Calls, WalletReadFails(k)
  PROVE  WInv'
<1>1. KeysKept(k) /\ CallUndisturbed(k)
  BY KeysStay DEF WalletReadFails, RestOfWallets, KeysKept, PointStays
<1>2. CallsOK'
  BY <1>1, AnswerKeeps DEF WalletReadFails, MayAnswer
<1> QED
  BY <1>1, <1>2, RowsStay DEF WalletReadFails, RestOfWallets, WInv, WalletTypeOK

\* A step of the migration: it moves no request and no key.
LEMMA MigrationKeeps ==
  ASSUME WInv, RestOfMigration, Working,
         booted' \in BOOLEAN, account' \in [Users -> WalletColumns],
         legacy' \in [Users -> Nat],
         \A u \in Users : WalletFits(u)' /\ (edits[u] = 0 /\ Unsealed(u) => Unsealed(u)')
  PROVE  WInv'
<1>1. keys \in [Users -> Seq(KeyPairs)]
  BY DEF WInv, WalletTypeOK
<1>2. \A u \in Users : Len(keys[u]) \in Nat
  BY <1>1
<1>3. BudgetOK' /\ (Faulted => Faulted')
  BY WalletBudgetKept DEF WInv, WalletTypeOK
<1>4. CallUndisturbed(Nil)
  BY <1>2, <1>3
  DEF CallUndisturbed, KeysGrow, SealsStay, RegistersAlone, PointStays, RestOfMigration
<1>5. CallsOK'
  BY <1>4, NobodyMoves DEF RestOfMigration
<1>6. LateFits'
  BY <1>3 DEF WInv, LateFits, RestOfMigration
<1> QED
  BY <1>3, <1>5, <1>6 DEF WInv, WalletTypeOK, WalletsFit, CallsOK, RestOfMigration

\* The migration reads the rows it has to re-encrypt.
LEMMA ReadLegacyKeeps ==
  ASSUME WInv, ReadLegacy
  PROVE  WInv'
<1>1. account \in [Users -> WalletColumns]
  BY DEF WInv, WalletTypeOK
<1>2. \A u \in Users :
        legacy'[u] = IF account[u].scheme = "legacy" THEN account[u].secret ELSE 0
  BY DEF ReadLegacy
<1>3. legacy' \in [Users -> Nat]
  BY <1>1 DEF ReadLegacy, WalletColumns
<1>4. ASSUME NEW u \in Users PROVE WalletFits(u)' /\ (edits[u] = 0 /\ Unsealed(u) => Unsealed(u)')
  <2>1. WalletFits(u) /\ Len(keys[u]) \in Nat
    BY DEF WInv, WalletsFit, WalletTypeOK
  <2> QED
    BY <2>1, <1>2 DEF WalletFits, Unsealed, ReadLegacy, RestOfMigration, Working, budgetVars
<1> QED
  BY <1>1, <1>3, <1>4, MigrationKeeps DEF ReadLegacy

\* A secret is re-encrypted, or left when it decrypts to no key.
LEMMA MigrateKeeps ==
  ASSUME WInv, NEW u \in Users, MigrateSecret(u)
  PROVE  WInv'
<1>1. account \in [Users -> WalletColumns] /\ legacy \in [Users -> Nat]
  BY DEF WInv, WalletTypeOK
<1>2. WalletFits(u) /\ legacy[u] # 0 /\ Len(keys[u]) \in Nat
  BY DEF WInv, WalletsFit, MigrateSecret, WalletTypeOK
<1>3. legacy' = [legacy EXCEPT ![u] = 0] /\ UNCHANGED <<keys, edits, requests>>
  BY DEF MigrateSecret, RestOfMigration, Working, budgetVars
<1>4. \/ account' = account
      \/ account' = [account EXCEPT ![u].secret = legacy[u], ![u].scheme = "v2"]
  BY DEF MigrateSecret, Decrypt
<1>5. PICK old \in WalletColumns : old = account[u]
  BY <1>1
<1>6. PICK n \in Nat : n = legacy[u] /\ n \in 0..Len(keys[u]) /\ (edits[u] = 0 => n = old.pub)
  BY <1>1, <1>2, <1>5 DEF WalletFits
<1>7. PICK new \in WalletColumns :
        new.pub = old.pub /\ new.secret = n /\ new.scheme = "v2"
        /\ new = [old EXCEPT !.secret = n, !.scheme = "v2"]
  <2>1. [old EXCEPT !.secret = n, !.scheme = "v2"] \in WalletColumns
    BY DEF WalletColumns
  <2> QED
    BY <2>1 DEF WalletColumns
<1>8. \/ account' = account
      \/ account' = [account EXCEPT ![u] = new]
  BY <1>1, <1>4, <1>5, <1>6, <1>7
<1>9. account' \in [Users -> WalletColumns] /\ legacy' \in [Users -> Nat]
  BY <1>1, <1>3, <1>8
<1>10. ASSUME NEW v \in Users
       PROVE  WalletFits(v)' /\ (edits[v] = 0 /\ Unsealed(v) => Unsealed(v)')
  <2>1. CASE v = u
    <3>1. legacy'[v] = 0
      BY <2>1, <1>1, <1>3
    <3>2. CASE account'[v] = account[v]
      BY <2>1, <3>1, <3>2, <1>2, <1>3 DEF WalletFits, Unsealed
    <3>3. CASE account'[v] = new
      BY <2>1, <3>1, <3>3, <1>2, <1>3, <1>5, <1>6, <1>7 DEF WalletFits, Unsealed
    <3> QED
      BY <2>1, <3>2, <3>3, <1>1, <1>8
  <2>2. CASE v # u
    <3>1. account'[v] = account[v] /\ legacy'[v] = legacy[v] /\ WalletFits(v)
      BY <2>2, <1>1, <1>3, <1>8 DEF WInv, WalletsFit
    <3> QED
      BY <3>1, <1>3 DEF WalletFits, Unsealed
  <2> QED
    BY <2>1, <2>2
<1> QED
  BY <1>9, <1>10, MigrationKeeps DEF MigrateSecret, WInv, WalletTypeOK

\* A user writes a wallet column.
LEMMA EditWalletKeeps ==
  ASSUME WInv, NEW u \in Users, EditWallet(u)
  PROVE  WInv'
<1>1. /\ keys \in [Users -> Seq(KeyPairs)] /\ account \in [Users -> WalletColumns]
      /\ edits \in [Users -> 0..MaxRequests] /\ legacy \in [Users -> Nat]
  BY DEF WInv, WalletTypeOK
<1>2. /\ edits' = [edits EXCEPT ![u] = edits[u] + 1]
      /\ UNCHANGED <<preparing, point, booted, legacy, jwtRotated, pointEdited, walletCall>>
  BY DEF EditWallet
<1>3. /\ BudgetOK' /\ (Faulted => Faulted') /\ requests \in Nat /\ requests' = requests + 1
      /\ requests' <= MaxRequests
  BY WalletBudgetKept DEF EditWallet, Arriving, WInv, WalletTypeOK, BudgetOK
<1>4. /\ keys' \in [Users -> Seq(KeyPairs)] /\ KeysGrow /\ LateFits' /\ RegistersAlone(Nil)
      /\ \A v \in Users : v # u => Len(keys'[v]) = Len(keys[v])
      /\ Len(keys'[u]) = Len(keys[u]) \/ Len(keys'[u]) = Len(keys[u]) + 1
  <2>1. CASE keys' = keys
    <3>1. \A v \in Users : Len(keys[v]) \in Nat
      BY <1>1
    <3> QED
      BY <2>1, <3>1, <1>1, <1>3 DEF KeysGrow, RegistersAlone, WInv, LateFits
  <2>2. CASE keys' = [keys EXCEPT ![u] = Append(keys[u], NewKeyPair)]
    BY <2>2, <1>3, KeyAdded
  <2> QED
    BY <2>1, <2>2 DEF EditWallet, WritePublicKey, WriteSecretKey
<1>5. PICK old \in WalletColumns, len \in Nat : old = account[u] /\ len = Len(keys[u])
  BY <1>1
<1>6. PICK new \in WalletColumns :
        /\ account' = [account EXCEPT ![u] = new]
        /\ new.pub \in 0..Len(keys'[u]) /\ new.secret \in 0..Len(keys'[u])
  <2>1. old.pub \in 0..len /\ old.secret \in 0..len
    BY <1>5 DEF WInv, WalletsFit, WalletFits
  <2>2. CASE \E n \in 0..Len(keys[u]) : account' = [account EXCEPT ![u].pub = n] /\ keys' = keys
    <3>1. PICK n \in 0..len : account' = [account EXCEPT ![u].pub = n] /\ keys' = keys
      BY <2>2, <1>5
    <3>2. n \in Nat /\ n \in 0..Len(keys'[u]) /\ Len(keys'[u]) = len
      BY <3>1, <1>5
    <3>3. [old EXCEPT !.pub = n] \in WalletColumns
      BY <3>2 DEF WalletColumns
    <3>4. [old EXCEPT !.pub = n].pub = n /\ [old EXCEPT !.pub = n].secret = old.secret
      BY DEF WalletColumns
    <3>5. account' = [account EXCEPT ![u] = [old EXCEPT !.pub = n]]
      BY <3>1, <1>1, <1>5
    <3> QED
      BY <3>2, <3>3, <3>4, <3>5, <2>1
  <2>3. CASE /\ keys' = [keys EXCEPT ![u] = Append(keys[u], NewKeyPair)]
             /\ account' = [account EXCEPT ![u].pub = Len(keys[u]) + 1]
    <3>1. PICK new \in WalletColumns : /\ new = [old EXCEPT !.pub = len + 1]
                                       /\ new.pub = len + 1 /\ new.secret = old.secret
      <4>1. [old EXCEPT !.pub = len + 1] \in WalletColumns
        BY DEF WalletColumns
      <4> QED
        BY <4>1 DEF WalletColumns
    <3>2. Len(keys'[u]) = len + 1
      BY <2>3, <1>3, <1>5, KeyAdded
    <3>3. account' = [account EXCEPT ![u] = new]
      BY <2>3, <3>1, <1>1, <1>5
    <3>4. new.pub \in 0..Len(keys'[u]) /\ new.secret \in 0..Len(keys'[u])
      BY <3>1, <3>2, <2>1
    <3> QED
      BY <3>3, <3>4
  <2>4. CASE WriteSecretKey(u)
    <3>1. PICK scheme \in {"none", "legacy", "v2"} :
            account' = [account EXCEPT ![u].secret = 0, ![u].scheme = scheme] /\ keys' = keys
      BY <2>4 DEF WriteSecretKey
    <3>2. PICK new \in WalletColumns : /\ new = [old EXCEPT !.secret = 0, !.scheme = scheme]
                                       /\ new.pub = old.pub /\ new.secret = 0
      <4>1. [old EXCEPT !.secret = 0, !.scheme = scheme] \in WalletColumns
        BY DEF WalletColumns
      <4> QED
        BY <4>1 DEF WalletColumns
    <3>3. account' = [account EXCEPT ![u] = new]
      BY <3>1, <3>2, <1>1, <1>5
    <3>4. new.pub \in 0..Len(keys'[u]) /\ new.secret \in 0..Len(keys'[u])
      BY <3>1, <3>2, <2>1, <1>5
    <3> QED
      BY <3>3, <3>4
  <2> QED
    BY <2>2, <2>3, <2>4 DEF EditWallet, WritePublicKey
<1>7. edits[u] <= requests /\ edits[u] \in Nat
  BY <1>1 DEF WInv, WalletsFit, WalletFits
<1>8. edits' \in [Users -> 0..MaxRequests]
  <2>1. edits[u] + 1 \in 0..MaxRequests
    BY <1>3, <1>7
  <2> QED
    BY <2>1, <1>1, <1>2
<1>9. SealsStay
  <2> SUFFICES ASSUME NEW v \in Users, edits'[v] = 0
               PROVE  edits[v] = 0 /\ (Unsealed(v) => Unsealed(v)')
    BY DEF SealsStay
  <2>1. v # u
    BY <1>1, <1>2, <1>7
  <2> QED
    BY <2>1, <1>1, <1>2, <1>6 DEF Unsealed
<1>10. CallUndisturbed(Nil)
  BY <1>2, <1>3, <1>4, <1>9 DEF CallUndisturbed, PointStays
<1>11. CallsOK'
  BY <1>2, <1>10, NobodyMoves
<1>12. account' \in [Users -> WalletColumns]
  BY <1>1, <1>6
<1>13. WalletTypeOK'
  BY <1>2, <1>3, <1>4, <1>8, <1>11, <1>12 DEF WInv, WalletTypeOK, CallsOK
<1>14. ASSUME NEW v \in Users PROVE WalletFits(v)'
  <2>1. WalletFits(v) /\ edits[v] \in Nat /\ Len(keys[v]) \in Nat
    BY <1>1 DEF WInv, WalletsFit
  <2>2. CASE v = u
    <3>1. account'[u] = new /\ edits'[u] = edits[u] + 1
      BY <1>1, <1>2, <1>6
    <3>2. legacy'[u] \in 0..Len(keys'[u])
      BY <2>1, <2>2, <1>2, <1>4 DEF WalletFits
    <3> QED
      BY <2>2, <3>1, <3>2, <1>3, <1>6, <1>7 DEF WalletFits
  <2>3. CASE v # u
    <3>1. /\ account'[v] = account[v] /\ legacy'[v] = legacy[v] /\ edits'[v] = edits[v]
          /\ Len(keys'[v]) = Len(keys[v])
      BY <2>3, <1>1, <1>2, <1>4, <1>6
    <3> QED
      BY <3>1, <2>1, <1>3 DEF WalletFits
  <2> QED
    BY <2>2, <2>3
<1> QED
  BY <1>4, <1>11, <1>13, <1>14 DEF WInv, WalletsFit, CallsOK

\* An administrator writes a point's address.
LEMMA EditPointKeeps ==
  ASSUME WInv, EditPoint
  PROVE  WInv'
<1>1. KeysKept(Nil)
  BY KeysStay DEF EditPoint, PointStays
<1>2. CallsOK'
  BY <1>1, NobodyMoves DEF EditPoint, KeysKept
<1> QED
  BY <1>1, <1>2, RowsStay DEF EditPoint

\* A restart makes no key; what was sent may be included all the same.
LEMMA RestartedKeys ==
  ASSUME WInv, RestartWallets
  PROVE  /\ keys' \in [Users -> Seq(KeyPairs)]
         /\ \A u \in Users : Len(keys'[u]) = Len(keys[u]) /\ Len(keys[u]) \in Nat
<1>1. keys \in [Users -> Seq(KeyPairs)]
  BY DEF WInv, WalletTypeOK
<1>2. ASSUME NEW u \in Users
      PROVE  keys'[u] \in Seq(KeyPairs) /\ Len(keys'[u]) = Len(keys[u]) /\ Len(keys[u]) \in Nat
  <2>1. PICK t \in Seq(KeyPairs) : t = keys[u]
    BY <1>1
  <2> DEFINE Lost(n) == {Sent(k) : k \in {j \in Calls :
                          Outstanding(j) /\ User(j) = u /\ Key(j) = n}}
  <2>2. keys'[u] = [n \in 1..Len(t) |-> [t[n] EXCEPT !.late = @ \cup Lost(n)]]
    BY <2>1 DEF RestartWallets
  <2>3. ASSUME NEW n \in 1..Len(t) PROVE [t[n] EXCEPT !.late = @ \cup Lost(n)] \in KeyPairs
    <3>1. Lost(n) \subseteq {"pending", "active"}
      BY DEF Sent
    <3>2. t[n] \in KeyPairs
      OBVIOUS
    <3> HIDE DEF Lost
    <3>3. t[n].late \cup Lost(n) \in SUBSET {"pending", "active"}
      BY <3>1, <3>2 DEF KeyPairs
    <3> QED
      BY <3>2, <3>3 DEF KeyPairs
  <2> HIDE DEF Lost
  <2>4. PICK len \in Nat : len = Len(t)
    OBVIOUS
  <2>5. keys'[u] \in [1..len -> KeyPairs]
    BY <2>2, <2>3, <2>4
  <2>6. keys'[u] \in Seq(KeyPairs) /\ Len(keys'[u]) = len
    BY <2>5
  <2> QED
    BY <2>1, <2>4, <2>6
<1>3. keys' \in [Users -> Seq(KeyPairs)]
  BY <1>2 DEF RestartWallets
<1> QED
  BY <1>2, <1>3

\* The server starts again: every request is gone, the rows and the keys are not.
LEMMA WalletRestartKeeps ==
  ASSUME WInv, RestartWallets
  PROVE  WInv'
<1>1. NoWalletCall \in WalletCalls
  BY DEF NoWalletCall, WalletCalls, WalletStages
<1>2. /\ walletCall' = [k \in Calls |-> NoWalletCall] /\ preparing' = [u \in Users |-> Nil]
      /\ legacy' = [u \in Users |-> 0] /\ booted' = FALSE /\ jwtRotated' \in BOOLEAN
      /\ UNCHANGED <<account, point, edits, pointEdited>>
  BY DEF RestartWallets, WInv, WalletTypeOK
<1>3. BudgetOK' /\ Faulted' /\ requests' = requests
  BY WalletBudgetKept DEF WInv, WalletTypeOK, RestartWallets, Crashing
<1>4. /\ keys' \in [Users -> Seq(KeyPairs)]
      /\ \A u \in Users : Len(keys'[u]) = Len(keys[u]) /\ Len(keys[u]) \in Nat
  BY RestartedKeys
<1>5. WalletTypeOK'
  BY <1>1, <1>2, <1>3, <1>4 DEF WInv, WalletTypeOK
<1>6. ASSUME NEW u \in Users PROVE WalletFits(u)' /\ PreparedBy(u)'
  BY <1>2, <1>3, <1>4 DEF WInv, WalletsFit, WalletFits, PreparedBy, Runs
<1>7. ASSUME NEW k \in Calls PROVE WalletCallFits(k, walletCall[k])'
  BY <1>2 DEF WalletCallFits, NoWalletCall, KeyStages, ReadyStages, Registering, Runs
<1> QED
  BY <1>3, <1>5, <1>6, <1>7 DEF WInv, WalletsFit, WalletCallsFit, LateFits

-----------------------------------------------------------------------------
(* The invariant.                                                          *)

\* At a start there are no requests, and wallets sealed under the JWT secret at most.
LEMMA WInvAtStart ==
  ASSUME WalletInit
  PROVE  WInv
<1>1. NoWalletCall \in WalletCalls /\ NewKeyPair \in KeyPairs
  BY DEF NoWalletCall, WalletCalls, WalletStages, NewKeyPair, KeyPairs
<1>2. PICK old \in SUBSET Users :
        /\ account = [u \in Users |->
             IF u \in old THEN [pub |-> 1, secret |-> 1, scheme |-> "legacy"]
             ELSE [pub |-> 0, secret |-> 0, scheme |-> "none"]]
        /\ keys = [u \in Users |->
             IF u \in old THEN <<[NewKeyPair EXCEPT !.funded = TRUE]>> ELSE <<>>]
  BY DEF WalletInit
<1>3. [NewKeyPair EXCEPT !.funded = TRUE] \in KeyPairs
  BY DEF NewKeyPair, KeyPairs
<1>4. ASSUME NEW u \in Users
      PROVE  /\ account[u] \in WalletColumns /\ keys[u] \in Seq(KeyPairs)
             /\ account[u].secret = account[u].pub /\ account[u].pub = Len(keys[u])
             /\ (account[u].pub = 0) = (account[u].scheme = "none")
             /\ \A n \in 1..Len(keys[u]) : keys[u][n].late = {}
  <2>1. CASE u \in old
    <3>1. /\ <<[NewKeyPair EXCEPT !.funded = TRUE]>> \in Seq(KeyPairs)
          /\ Len(<<[NewKeyPair EXCEPT !.funded = TRUE]>>) = 1
          /\ \A n \in 1..1 : <<[NewKeyPair EXCEPT !.funded = TRUE]>>[n].late = {}
      <4>1. PICK f \in KeyPairs : f = [NewKeyPair EXCEPT !.funded = TRUE] /\ f.late = {}
        BY <1>3 DEF NewKeyPair
      <4>2. <<f>> \in Seq(KeyPairs) /\ Len(<<f>>) = 1 /\ <<f>>[1] = f
        OBVIOUS
      <4>3. \A n \in 1..1 : n = 1
        OBVIOUS
      <4> QED
        BY <4>1, <4>2, <4>3
    <3>2. /\ account[u] = [pub |-> 1, secret |-> 1, scheme |-> "legacy"]
          /\ keys[u] = <<[NewKeyPair EXCEPT !.funded = TRUE]>>
      BY <2>1, <1>2
    <3>3. account[u] \in WalletColumns
      BY <3>2 DEF WalletColumns
    <3>4. keys[u] \in Seq(KeyPairs) /\ Len(keys[u]) = 1 /\ \A n \in 1..1 : keys[u][n].late = {}
      BY <3>1, <3>2
    <3>5. account[u].pub = 1 /\ account[u].secret = 1 /\ account[u].scheme = "legacy"
      BY <3>2
    <3> QED
      BY <3>3, <3>4, <3>5
  <2>2. CASE u \notin old
    <3>1. /\ account[u] = [pub |-> 0, secret |-> 0, scheme |-> "none"]
          /\ keys[u] = <<>>
      BY <2>2, <1>2
    <3> QED
      BY <3>1 DEF WalletColumns
  <2> QED
    BY <2>1, <2>2
<1>5. account \in [Users -> WalletColumns] /\ keys \in [Users -> Seq(KeyPairs)]
  BY <1>2, <1>4
<1>6. WalletTypeOK
  <2>1. BudgetOK
    BY DEF WalletInit, BudgetInit, BudgetOK
  <2>2. walletCall \in [Calls -> WalletCalls] /\ preparing \in [Users -> Calls \cup {Nil}]
    BY <1>1 DEF WalletInit
  <2>3. point \in 0..MaxRequests /\ booted \in BOOLEAN /\ jwtRotated \in BOOLEAN
    <3>1. point = 0 /\ booted = FALSE /\ jwtRotated = FALSE
      BY DEF WalletInit
    <3>2. point \in 0..MaxRequests
      BY <3>1
    <3> QED
      BY <3>1, <3>2
  <2>4. legacy \in [Users -> Nat] /\ pointEdited \in BOOLEAN
    BY DEF WalletInit
  <2>5. edits \in [Users -> 0..MaxRequests]
    <3>1. 0 \in 0..MaxRequests
      OBVIOUS
    <3> QED
      BY <3>1 DEF WalletInit
  <2> QED
    BY <2>1, <2>2, <2>3, <2>4, <2>5, <1>5 DEF WalletTypeOK
<1>7. ASSUME NEW u \in Users PROVE WalletFits(u) /\ PreparedBy(u)
  <2>1. Len(keys[u]) \in Nat
    BY <1>5
  <2> QED
    BY <2>1, <1>4 DEF WalletInit, BudgetInit, WalletFits, PreparedBy
<1>8. ASSUME NEW k \in Calls PROVE WalletCallFits(k, walletCall[k])
  BY DEF WalletInit, WalletCallFits, NoWalletCall, KeyStages, ReadyStages, Registering, Runs
<1> QED
  BY <1>4, <1>6, <1>7, <1>8 DEF WInv, WalletsFit, LateFits, WalletCallsFit

\* Nothing happens.
LEMMA WalletStutterKeeps ==
  ASSUME WInv, UNCHANGED walletVars
  PROVE  WInv'
<1>1. BudgetOK'
  BY WalletBudgetKept DEF walletVars, Working, WInv, WalletTypeOK
<1>2. WalletTypeOK'
  BY <1>1 DEF WInv, WalletTypeOK, walletVars, walletState
<1>3. ASSUME NEW u \in Users PROVE WalletFits(u)' /\ PreparedBy(u)'
  BY DEF WInv, WalletsFit, WalletFits, PreparedBy, Runs, walletVars, walletState, budgetVars
<1>4. WalletCallsFit' /\ LateFits'
  BY DEF WInv, LateFits, WalletCallsFit, WalletCallFits, Runs, Unsealed, Faulted, walletVars,
         walletState, budgetVars
<1> QED
  BY <1>2, <1>3, <1>4 DEF WInv, WalletsFit

\* Every step of the wallets keeps the invariant.
LEMMA WInvKept ==
  ASSUME WInv, [WalletNext]_walletVars
  PROVE  WInv'
<1>1. ASSUME NEW k \in Calls, NEW u \in Users,
             StartWalletCall(k, "create", u) \/ StartWalletCall(k, "pay", u) \/ ReadyCollector(k, u)
      PROVE  WInv'
  BY <1>1, StartKeeps, ReadyKeeps
<1>2. ASSUME NEW k \in Calls,
             FetchWallet(k) \/ LookForWallet(k) \/ WriteWallet(k) \/ FundWallet(k) \/ PayWallet(k)
      PROVE  WInv'
  BY <1>2, FetchKeeps, LookKeeps, WriteKeeps, FundKeeps, PayKeeps
<1>3. ASSUME NEW k \in Calls,
             RegisterCollector(k) \/ ActivateCollector(k) \/ Confirm(k) \/ GiveUp(k)
      PROVE  WInv'
  BY <1>3, InvokeKeeps, ConfirmKeeps, GiveUpKeeps
<1>4. ASSUME NEW k \in Calls, EnsureAccount(k) \/ CheckActive(k) \/ CheckExists(k)
      PROVE  WInv'
  BY <1>4, EnsureKeeps, AskKeeps, ExistsKeeps
<1>5. ASSUME NEW k \in Calls,
             LoadPoint(k) \/ SetPointAddress(k) \/ ReadPointAddress(k) \/ WalletReadFails(k)
      PROVE  WInv'
  BY <1>5, LoadKeeps, SetPointKeeps, ReadPointKeeps, WalletFailureKeeps
<1>6. ASSUME NEW u \in Users, MigrateSecret(u) \/ EditWallet(u) PROVE WInv'
  BY <1>6, MigrateKeeps, EditWalletKeeps
<1>7. ASSUME NEW u \in Users, NEW n \in 1..Len(keys[u]), NEW status \in {"pending", "active"},
             Settle(u, n, status)
      PROVE  WInv'
  BY <1>7, SettleKeeps
<1> QED
  BY <1>1, <1>2, <1>3, <1>4, <1>5, <1>6, <1>7, EditPointKeeps, ReadLegacyKeeps, WalletRestartKeeps,
     WalletStutterKeeps
  DEF WalletNext

\* What is known of the rows, the keys and the requests holds always.
THEOREM WalletsInvariant == WalletSpec => []WInv
<1>1. WalletInit => WInv
  BY WInvAtStart
<1>2. WInv /\ [WalletNext]_walletVars => WInv'
  BY WInvKept
<1> QED
  BY <1>1, <1>2, PTL DEF WalletSpec

\* The variables of the wallets keep their types.
THEOREM WalletTypes == WalletSpec => []WalletTypeOK
<1>1. WInv => WalletTypeOK
  BY DEF WInv
<1> QED
  BY <1>1, WalletsInvariant, PTL

\* The stored secret of a user who wrote neither column is the secret of its stored public
\* key, whatever races, whatever is re-encrypted while requests are served, and whenever
\* the JWT secret changes (createUserWallet, migrateWalletSecrets).
THEOREM WalletsStayWhole == WalletSpec => []WalletIsWhole
<1>1. WInv => WalletIsWhole
  BY DEF WInv, WalletsFit, WalletFits, WalletIsWhole
<1> QED
  BY <1>1, WalletsInvariant, PTL

\* Whoever readyCollector answered has a collector that exists and is active.
THEOREM AnsweredIsActive == WalletSpec => []ReadyIsActive
<1>1. WInv => ReadyIsActive
  BY DEF WInv, WalletCallsFit, WalletCallFits, ReadyIsActive, Stage, User, Key
<1> QED
  BY <1>1, WalletsInvariant, PTL

\* No two requests register the same collector at a time, and the registry is asked to
\* register a key it has only after a failure or a restart (readyCollector, invoke).
THEOREM RegisteredOnceOnly == WalletSpec => []RegistersOnce
<1>1. WInv => RegistersOnce
  <2> SUFFICES ASSUME WInv, NEW k \in Calls, Stage(k) \in Registering
               PROVE  /\ \A j \in Calls \ {k} : User(j) = User(k) => Stage(j) \notin Registering
                      /\ keys[User(k)][Key(k)].registry # "none" => faults + crashes > 0
    BY DEF RegistersOnce, Registering
  <2>1. \A j \in Calls : Stage(j) \in Registering => Runs(walletCall[j])
    BY DEF WInv, WalletCallsFit, WalletCallFits, Stage, Registering, ReadyStages, Runs
  <2>2. \A j \in Calls \ {k} : User(j) = User(k) => Stage(j) \notin Registering
    BY <2>1, RunsAlone
  <2>3. keys[User(k)][Key(k)].registry # "none" => Faulted
    BY DEF WInv, WalletCallsFit, WalletCallFits, Stage, User, Key
  <2> QED
    BY <2>2, <2>3 DEF Faulted
<1> QED
  BY <1>1, WalletsInvariant, PTL

\* Every address of a collection point that was given out is the one stored, unless an
\* administrator wrote another (ensurePointAddress, updateCollectionPoint).
THEOREM OneAddressPerPoint == WalletSpec => []PointAddressKept
<1>1. WInv => PointAddressKept
  BY DEF WInv, WalletCallsFit, WalletCallFits, PointAddressKept, Stage, User, Key
<1> QED
  BY <1>1, WalletsInvariant, PTL

-----------------------------------------------------------------------------
(* How many wallets a user gets.                                           *)

\* No request comes to be about to write a wallet.
NoneJoins ==
  \A j \in Calls :
    walletCall'[j].at = "writing" =>
      walletCall[j].at = "writing" /\ walletCall'[j].user = walletCall[j].user

\* Requests are finitely many, and there is one.
LEMMA WritersAreFinite ==
  ASSUME NEW u \in Users
  PROVE  /\ Cardinality(Calls) \in Nat \ {0}
         /\ IsFiniteSet(Writers(u)) /\ Cardinality(Writers(u)) \in Nat
         /\ Cardinality(Writers(u)) <= Cardinality(Calls)
<1>1. Cardinality(Calls) \in Nat /\ Cardinality(Calls) # 0
  BY CallsAreFinite, FS_CardinalityType, FS_EmptySet
<1>2. Writers(u) \subseteq Calls
  BY DEF Writers
<1>3. IsFiniteSet(Writers(u)) /\ Cardinality(Writers(u)) <= Cardinality(Calls)
  BY <1>2, CallsAreFinite, FS_Subset
<1>4. Cardinality(Writers(u)) \in Nat
  BY <1>3, FS_CardinalityType
<1> QED
  BY <1>1, <1>3, <1>4

\* The same of the next state.
LEMMA WritersStayFinite ==
  ASSUME NEW u \in Users
  PROVE  /\ IsFiniteSet(Writers(u)') /\ Cardinality(Writers(u)') \in Nat
         /\ Cardinality(Writers(u)') <= Cardinality(Calls)
<1>1. Writers(u)' \subseteq Calls
  BY DEF Writers
<1>2. IsFiniteSet(Writers(u)') /\ Cardinality(Writers(u)') <= Cardinality(Calls)
  BY <1>1, CallsAreFinite, FS_Subset
<1> QED
  BY <1>2, FS_CardinalityType

\* When nobody joins those about to write, they are no more than they were.
LEMMA WritersFewer ==
  ASSUME NEW u \in Users, Writers(u)' \subseteq Writers(u)
  PROVE  Cardinality(Writers(u)') <= Cardinality(Writers(u))
BY WritersAreFinite, FS_Subset

\* What a user's writes may have come to is a number; each of them adds to it.
LEMMA SpentGrows ==
  ASSUME WInv, NEW u \in Users
  PROVE  /\ Spent(u) \in Nat
         /\ edits'[u] = edits[u] => Spent(u)' = Spent(u)
         /\ edits'[u] = edits[u] + 1 => Spent(u)' = Spent(u) + Cardinality(Calls) + 1
<1>1. PICK c \in Nat, e \in Nat : c = Cardinality(Calls) /\ e = edits[u]
  BY WritersAreFinite DEF WInv, WalletTypeOK
<1>2. (e + 1) * (c + 1) = e * (c + 1) + c + 1 /\ e * (c + 1) \in Nat
  OBVIOUS
<1> QED
  BY <1>1, <1>2 DEF Spent

\* A step that makes no key, lets nobody join and takes nobody's wallet away.
LEMMA QuietSteps ==
  ASSUME WInv, KeysFit, NoneJoins, \A u \in Users : Len(keys'[u]) = Len(keys[u]),
         edits' = edits, \A u \in Users : HasWallet(u) => HasWallet(u)'
  PROVE  KeysFit'
<1> SUFFICES ASSUME NEW u \in Users
             PROVE  /\ Len(keys'[u]) + Cardinality(Writers(u)') <= Cardinality(Calls) + Spent(u)'
                    /\ ~ HasWallet(u)' => Len(keys'[u]) <= Spent(u)'
  BY DEF KeysFit, Writers, Stage, User, HasWallet, Spent
<1>1. Writers(u)' \subseteq Writers(u)
  BY DEF Writers, Stage, User, NoneJoins
<1>2. Cardinality(Writers(u)') <= Cardinality(Writers(u))
  BY <1>1, WritersFewer
<1>3. /\ Len(keys[u]) + Cardinality(Writers(u)) <= Cardinality(Calls) + Spent(u)
      /\ ~ HasWallet(u) => Len(keys[u]) <= Spent(u)
  BY DEF KeysFit
<1>4. Len(keys[u]) \in Nat /\ Len(keys'[u]) = Len(keys[u])
  BY DEF WInv, WalletTypeOK
<1>5. Spent(u) \in Nat /\ Spent(u)' = Spent(u)
  BY SpentGrows
<1> QED
  BY <1>2, <1>3, <1>4, <1>5, WritersAreFinite, WritersStayFinite

\* A request that goes on elsewhere lets nobody join.
LEMMA ProceedJoinsNot ==
  ASSUME WInv, NEW k \in Calls, NEW stage, NEW key, stage # "writing", Proceed(k, stage, key)
  PROVE  NoneJoins
<1>1. PICK s \in WalletCalls : s = walletCall[k]
  BY DEF WInv, WalletTypeOK
<1>2. walletCall'[k] = [s EXCEPT !.at = stage, !.key = key]
  BY <1>1 DEF Proceed, WInv, WalletTypeOK
<1>3. walletCall'[k].at = stage
  BY <1>2 DEF WalletCalls
<1>4. \A j \in Calls \ {k} : walletCall'[j] = walletCall[j]
  BY DEF Proceed, WInv, WalletTypeOK
<1> QED
  BY <1>3, <1>4 DEF NoneJoins

\* A request that ends, with those that share its run, lets nobody join.
LEMMA AnswerJoinsNot ==
  ASSUME WInv, NEW k \in Calls, NEW key, Answer(k, key)
  PROVE  NoneJoins
<1> SUFFICES ASSUME NEW j \in Calls, walletCall'[j].at = "writing"
             PROVE  walletCall'[j] = walletCall[j]
  BY DEF NoneJoins
<1>1. PICK s \in WalletCalls : s = walletCall[j]
  BY DEF WInv, WalletTypeOK
<1>2. CASE j \in Sharing(k)
  <2>1. walletCall'[j] = [s EXCEPT !.at = "idle", !.key = key]
    BY <1>1, <1>2 DEF Answer
  <2> QED
    BY <2>1 DEF WalletCalls
<1>3. CASE j \notin Sharing(k)
  BY <1>3 DEF Answer
<1> QED
  BY <1>2, <1>3

\* A request that begins elsewhere lets nobody join.
LEMMA BeginJoinsNot ==
  ASSUME WInv, NEW k \in Calls, NEW r, r.at # "writing",
         walletCall' = [walletCall EXCEPT ![k] = r]
  PROVE  NoneJoins
<1>1. \A j \in Calls : walletCall'[j] = IF j = k THEN r ELSE walletCall[j]
  BY DEF WInv, WalletTypeOK
<1> QED
  BY <1>1 DEF NoneJoins

\* What is learned of a key makes none.
LEMMA LearnedOnly ==
  ASSUME WInv, NEW k \in Calls, Stage(k) \in KeyStages, NEW f \in KeyPairs,
         SetKey(User(k), Key(k), f) \/ UNCHANGED keys
  PROVE  \A u \in Users : Len(keys'[u]) = Len(keys[u])
BY KeyThere, SetKeyKeeps

\* What the steps may learn of a key.
LEMMA Learned ==
  ASSUME NEW f \in KeyPairs, NEW status \in {"pending", "active"}
  PROVE  /\ [f EXCEPT !.funded = TRUE] \in KeyPairs /\ [f EXCEPT !.paid = TRUE] \in KeyPairs
         /\ [f EXCEPT !.registry = status] \in KeyPairs /\ GivenUp(f, status) \in KeyPairs
         /\ [f EXCEPT !.late = @ \ {status}] \in KeyPairs
BY DEF KeyPairs, GivenUp

\* Going on with a wallet lets nobody join.
LEMMA UseJoinsNot ==
  ASSUME WInv, NEW k \in Calls, NEW key, NEW secret,
         WithWallet(k, key, secret), walletCall[k].op \in WalletOps
  PROVE  NoneJoins
BY ProceedJoinsNot, AnswerJoinsNot DEF WithWallet, WalletOps

\* The operation of a request that works at a wallet.
LEMMA WalletOpThere ==
  ASSUME WInv, NEW k \in Calls, Stage(k) \notin {"idle", "setting", "rereading"}
  PROVE  walletCall[k].op \in WalletOps /\ User(k) \in Users
BY DEF WInv, WalletCallsFit, WalletCallFits, Stage, User

\* The steps with a key.
LEMMA KeyStepsFit ==
  ASSUME WInv, KeysFit, NEW k \in Calls,
         \/ FundWallet(k) \/ PayWallet(k) \/ EnsureAccount(k) \/ CheckActive(k) \/ CheckExists(k)
         \/ RegisterCollector(k) \/ ActivateCollector(k) \/ Confirm(k) \/ GiveUp(k)
  PROVE  KeysFit'
<1>1. Stage(k) \in KeyStages
  BY DEF FundWallet, PayWallet, EnsureAccount, CheckActive, CheckExists, RegisterCollector,
         ActivateCollector, Confirm, GiveUp, Outstanding, KeyStages, ReadyStages
<1>2. keys[User(k)][Key(k)] \in KeyPairs /\ walletCall[k].op \in WalletOps
  BY <1>1, KeyThere, WalletOpThere DEF KeyStages, ReadyStages
<1>3. Sent(k) \in {"pending", "active"}
  BY DEF Sent
<1>4. \A u \in Users : Len(keys'[u]) = Len(keys[u])
  <2>1. CASE FundWallet(k)
    BY <2>1, <1>1, <1>2, LearnedOnly, Learned DEF FundWallet
  <2>2. CASE PayWallet(k)
    BY <2>2, <1>1, <1>2, LearnedOnly, Learned DEF PayWallet
  <2>3. CASE EnsureAccount(k)
    BY <2>3, <1>1, <1>2, LearnedOnly, Learned DEF EnsureAccount
  <2>4. CASE CheckActive(k) \/ CheckExists(k)
    BY <2>4 DEF CheckActive, CheckExists
  <2>5. CASE RegisterCollector(k) \/ ActivateCollector(k)
    BY <2>5, <1>1, <1>2, LearnedOnly, Learned DEF RegisterCollector, ActivateCollector, Invoke
  <2>6. CASE Confirm(k)
    BY <2>6, <1>1, <1>2, <1>3, LearnedOnly, Learned DEF Confirm
  <2>7. CASE GiveUp(k)
    BY <2>7, <1>1, <1>2, <1>3, LearnedOnly, Learned DEF GiveUp
  <2> QED
    BY <2>1, <2>2, <2>3, <2>4, <2>5, <2>6, <2>7
<1>5. NoneJoins
  <2>1. CASE FundWallet(k)
    BY <2>1, <1>2, UseJoinsNot DEF FundWallet
  <2>2. CASE PayWallet(k) \/ GiveUp(k)
    BY <2>2, AnswerJoinsNot DEF PayWallet, GiveUp
  <2>3. CASE EnsureAccount(k)
    BY <2>3, ProceedJoinsNot, AnswerJoinsNot DEF EnsureAccount
  <2>4. CASE CheckActive(k)
    BY <2>4, ProceedJoinsNot, AnswerJoinsNot DEF CheckActive
  <2>5. CASE CheckExists(k)
    BY <2>5, ProceedJoinsNot DEF CheckExists
  <2>6. CASE RegisterCollector(k) \/ ActivateCollector(k)
    BY <2>6, ProceedJoinsNot, AnswerJoinsNot DEF RegisterCollector, ActivateCollector, Invoke
  <2>7. CASE Confirm(k)
    BY <2>7, ProceedJoinsNot, AnswerJoinsNot DEF Confirm
  <2> QED
    BY <2>1, <2>2, <2>3, <2>4, <2>5, <2>6, <2>7
<1>6. UNCHANGED <<account, edits>>
  BY DEF FundWallet, PayWallet, EnsureAccount, CheckActive, CheckExists, RegisterCollector,
         ActivateCollector, Invoke, Confirm, GiveUp, RestOfWallets
<1> QED
  BY <1>4, <1>5, <1>6, QuietSteps DEF HasWallet

\* An invocation that nobody polls for makes no key.
LEMMA SettleFits ==
  ASSUME WInv, KeysFit, NEW u \in Users, NEW n \in 1..Len(keys[u]),
         NEW status \in {"pending", "active"}, Settle(u, n, status)
  PROVE  KeysFit'
<1>1. keys[u][n] \in KeyPairs
  <2>1. keys[u] \in Seq(KeyPairs)
    BY DEF WInv, WalletTypeOK
  <2> QED
    BY <2>1
<1>2. PICK pair \in KeyPairs : pair = [keys[u][n] EXCEPT !.late = @ \ {status}]
  <2>1. [keys[u][n] EXCEPT !.late = @ \ {status}] \in KeyPairs
    BY <1>1, Learned
  <2> QED
    BY <2>1
<1>3. PICK f \in KeyPairs : SetKey(u, n, f)
  BY <1>2, Learned DEF Settle
<1>4. \A v \in Users : Len(keys'[v]) = Len(keys[v])
  BY <1>3, SetKeyKeeps
<1>5. NoneJoins /\ UNCHANGED <<account, edits>>
  BY DEF Settle, NoneJoins, RestOfWallets
<1> QED
  BY <1>4, <1>5, QuietSteps DEF HasWallet

\* A user that writes a wallet column makes a key at most, which its write pays for.
LEMMA EditFits ==
  ASSUME WInv, KeysFit, NEW u \in Users, EditWallet(u)
  PROVE  KeysFit'
<1>1. /\ keys \in [Users -> Seq(KeyPairs)] /\ account \in [Users -> WalletColumns]
      /\ edits \in [Users -> 0..MaxRequests]
  BY DEF WInv, WalletTypeOK
<1>2. edits' = [edits EXCEPT ![u] = edits[u] + 1] /\ walletCall' = walletCall
  BY DEF EditWallet
<1>3. /\ \A v \in Users : Len(keys[v]) \in Nat /\ (v # u => Len(keys'[v]) = Len(keys[v]))
      /\ Len(keys'[u]) = Len(keys[u]) \/ Len(keys'[u]) = Len(keys[u]) + 1
  <2>1. CASE keys' = keys
    BY <2>1, <1>1
  <2>2. CASE keys' = [keys EXCEPT ![u] = Append(keys[u], NewKeyPair)]
    <3>1. Faulted => Faulted'
      BY WalletBudgetKept DEF EditWallet, WInv, WalletTypeOK
    <3> QED
      BY <2>2, <3>1, KeyAdded
  <2> QED
    BY <2>1, <2>2 DEF EditWallet, WritePublicKey, WriteSecretKey
<1>4. \A v \in Users \ {u} : account'[v] = account[v]
  BY <1>1 DEF EditWallet, WritePublicKey, WriteSecretKey
<1> SUFFICES ASSUME NEW v \in Users
             PROVE  /\ Len(keys'[v]) + Cardinality(Writers(v)') <= Cardinality(Calls) + Spent(v)'
                    /\ ~ HasWallet(v)' => Len(keys'[v]) <= Spent(v)'
  BY DEF KeysFit, Writers, Stage, User, HasWallet, Spent
<1>5. /\ Len(keys[v]) + Cardinality(Writers(v)) <= Cardinality(Calls) + Spent(v)
      /\ ~ HasWallet(v) => Len(keys[v]) <= Spent(v)
  BY DEF KeysFit
<1>6. Writers(v)' = Writers(v)
  BY <1>2 DEF Writers, Stage, User
<1>7. CASE v = u
  <2>1. Spent(v)' = Spent(v) + Cardinality(Calls) + 1
    BY <1>1, <1>2, <1>7, SpentGrows
  <2> QED
    BY <2>1, <1>3, <1>5, <1>6, <1>7, WritersAreFinite, SpentGrows
<1>8. CASE v # u
  <2>1. Spent(v)' = Spent(v)
    BY <1>1, <1>2, <1>8, SpentGrows
  <2> QED
    BY <2>1, <1>3, <1>4, <1>5, <1>6, <1>8 DEF HasWallet
<1> QED
  BY <1>7, <1>8

\* The steps that work without a key and write no wallet.
LEMMA OtherStepsFit ==
  ASSUME WInv, KeysFit,
         \/ \E k \in Calls, u \in Users :
              StartWalletCall(k, "create", u) \/ StartWalletCall(k, "pay", u)
                \/ ReadyCollector(k, u)
         \/ \E k \in Calls : FetchWallet(k) \/ LoadPoint(k) \/ SetPointAddress(k)
                               \/ ReadPointAddress(k) \/ WalletReadFails(k)
         \/ EditPoint \/ ReadLegacy \/ UNCHANGED walletVars
  PROVE  KeysFit'
<1>1. UNCHANGED <<keys, account, edits>>
  BY DEF StartWalletCall, ReadyCollector, FetchWallet, LoadPoint, SetPointAddress,
         ReadPointAddress, WalletReadFails, ReadLegacy, EditPoint, RestOfMigration,
         RestOfPoint, RestOfWallets, walletVars, walletState
<1>2. NoneJoins => KeysFit'
  BY <1>1, QuietSteps DEF HasWallet
<1>3. CASE \E k \in Calls, u \in Users :
             StartWalletCall(k, "create", u) \/ StartWalletCall(k, "pay", u) \/ ReadyCollector(k, u)
  BY <1>2, <1>3, BeginJoinsNot DEF StartWalletCall, ReadyCollector
<1>4. CASE \E k \in Calls : FetchWallet(k)
  <2>1. PICK k \in Calls : FetchWallet(k)
    BY <1>4
  <2>2. CASE Proceed(k, "looking", 0)
    BY <2>2, <1>2, ProceedJoinsNot
  <2>3. CASE UseWallet(k)
    BY <2>1, <2>3, <1>2, WalletOpThere, UseJoinsNot, AnswerJoinsNot DEF UseWallet, FetchWallet
  <2> QED
    BY <2>1, <2>2, <2>3 DEF FetchWallet
<1>5. CASE \E k \in Calls : LoadPoint(k)
  BY <1>2, <1>5, BeginJoinsNot DEF LoadPoint
<1>6. CASE \E k \in Calls : SetPointAddress(k) \/ ReadPointAddress(k)
  BY <1>2, <1>6, ProceedJoinsNot DEF SetPointAddress, ReadPointAddress
<1>7. CASE \E k \in Calls : WalletReadFails(k)
  BY <1>2, <1>7, AnswerJoinsNot DEF WalletReadFails
<1>8. CASE walletCall' = walletCall
  BY <1>2, <1>8 DEF NoneJoins
<1> QED
  BY <1>3, <1>4, <1>5, <1>6, <1>7, <1>8
  DEF ReadLegacy, RestOfMigration, EditPoint, walletVars, walletState

\* A secret is re-encrypted for who has a public key as it was.
LEMMA MigrateFits ==
  ASSUME WInv, KeysFit, NEW u \in Users, MigrateSecret(u)
  PROVE  KeysFit'
<1>1. account \in [Users -> WalletColumns]
  BY DEF WInv, WalletTypeOK
<1>2. ASSUME NEW v \in Users, HasWallet(v) PROVE HasWallet(v)'
  <2>1. \/ account' = account
        \/ account' = [account EXCEPT ![u].secret = Decrypt("legacy", legacy[u]),
                                      ![u].scheme = "v2"]
    BY DEF MigrateSecret
  <2>2. account'[v].pub = account[v].pub /\ account'[v].scheme \in {account[v].scheme, "v2"}
    BY <2>1, <1>1 DEF WalletColumns
  <2> QED
    BY <2>2, <1>2 DEF HasWallet
<1>3. UNCHANGED <<keys, edits, walletCall>>
  BY DEF MigrateSecret, RestOfMigration
<1>4. NoneJoins
  BY <1>3 DEF NoneJoins
<1> QED
  BY <1>2, <1>3, <1>4, QuietSteps

\* After a restart nobody is about to write a wallet.
LEMMA RestartFits ==
  ASSUME WInv, KeysFit, RestartWallets
  PROVE  KeysFit'
<1>1. NoneJoins /\ UNCHANGED <<account, edits>>
  BY DEF NoneJoins, RestartWallets, NoWalletCall
<1> QED
  BY <1>1, RestartedKeys, QuietSteps DEF HasWallet

\* A request that finds no wallet joins those about to write one: there is no key yet but
\* what its user's own writes came to.
LEMMA LookFits ==
  ASSUME WInv, KeysFit, NEW k \in Calls, LookForWallet(k)
  PROVE  KeysFit'
<1>1. /\ UNCHANGED <<keys, account, edits>>
      /\ walletCall[k].op \in WalletOps /\ User(k) \in Users
  BY WalletOpThere DEF LookForWallet, RestOfWallets
<1>2. CASE ~ HasWallet(User(k)) /\ Proceed(k, "writing", 0)
  <2> SUFFICES ASSUME NEW u \in Users
               PROVE  /\ Len(keys'[u]) + Cardinality(Writers(u)') <= Cardinality(Calls) + Spent(u)'
                      /\ ~ HasWallet(u)' => Len(keys'[u]) <= Spent(u)'
    BY DEF KeysFit, Writers, Stage, User, HasWallet, Spent
  <2>1. /\ Len(keys[u]) \in Nat /\ Len(keys'[u]) = Len(keys[u])
        /\ Spent(u)' = Spent(u) /\ Spent(u) \in Nat
        /\ Len(keys[u]) + Cardinality(Writers(u)) <= Cardinality(Calls) + Spent(u)
        /\ ~ HasWallet(u) => Len(keys[u]) <= Spent(u)
        /\ HasWallet(u)' = HasWallet(u)
    BY <1>1, SpentGrows DEF KeysFit, WInv, WalletTypeOK, HasWallet
  <2>2. CASE u = User(k)
    BY <2>1, <2>2, <1>2, WritersStayFinite, WritersAreFinite
  <2>3. CASE u # User(k)
    <3>1. PICK s \in WalletCalls : s = walletCall[k]
      BY DEF WInv, WalletTypeOK
    <3>2. walletCall'[k] = [s EXCEPT !.at = "writing", !.key = 0]
      BY <3>1, <1>2 DEF Proceed, WInv, WalletTypeOK
    <3>3. walletCall'[k].user = User(k)
      BY <3>1, <3>2 DEF WalletCalls, User
    <3>4. \A j \in Calls \ {k} : walletCall'[j] = walletCall[j]
      BY <1>2 DEF Proceed, WInv, WalletTypeOK
    <3>5. Writers(u)' \subseteq Writers(u)
      BY <2>3, <3>3, <3>4 DEF Writers, Stage, User
    <3>6. Cardinality(Writers(u)') <= Cardinality(Writers(u))
      BY <3>5, WritersFewer
    <3> QED
      BY <3>6, <2>1, WritersAreFinite, WritersStayFinite
  <2> QED
    BY <2>2, <2>3
<1>3. CASE UseWallet(k)
  <2>1. NoneJoins
    BY <1>1, <1>3, UseJoinsNot, AnswerJoinsNot DEF UseWallet
  <2> QED
    BY <2>1, <1>1, QuietSteps DEF HasWallet
<1> QED
  BY <1>2, <1>3 DEF LookForWallet

\* A request that writes its wallet makes a key, and leaves those about to.
LEMMA WriteFits ==
  ASSUME WInv, KeysFit, NEW k \in Calls, WriteWallet(k)
  PROVE  KeysFit'
<1>1. PICK u \in Users : u = User(k)
  BY WalletOpThere DEF WriteWallet
<1>2. keys \in [Users -> Seq(KeyPairs)] /\ account \in [Users -> WalletColumns]
  BY DEF WInv, WalletTypeOK
<1>3. PICK n \in Nat : n = Len(keys[u]) + 1
  BY <1>2
<1>4. /\ keys' = [keys EXCEPT ![u] = Append(keys[u], NewKeyPair)]
      /\ account' = [account EXCEPT ![u] = [pub |-> n, secret |-> n, scheme |-> "v2"]]
      /\ UNCHANGED edits /\ Working
  BY <1>1, <1>3 DEF WriteWallet, RestOfWallets
<1>5. NoneJoins /\ walletCall'[k].at # "writing"
  <2>1. Proceed(k, "funding", Len(keys[User(k)]) + 1)
    BY DEF WriteWallet
  <2>2. PICK s \in WalletCalls : s = walletCall[k]
    BY DEF WInv, WalletTypeOK
  <2>3. walletCall'[k] = [s EXCEPT !.at = "funding", !.key = Len(keys[User(k)]) + 1]
    BY <2>1, <2>2 DEF Proceed, WInv, WalletTypeOK
  <2>4. walletCall'[k].at = "funding"
    BY <2>3 DEF WalletCalls
  <2> QED
    BY <2>1, <2>4, ProceedJoinsNot
<1>6. /\ Len(keys'[u]) = Len(keys[u]) + 1
      /\ \A v \in Users : Len(keys[v]) \in Nat /\ (v # u => Len(keys'[v]) = Len(keys[v]))
  <2>1. Faulted => Faulted'
    BY <1>4, WalletBudgetKept DEF WInv, WalletTypeOK
  <2> QED
    BY <2>1, <1>4, KeyAdded
<1>7. HasWallet(u)' /\ \A v \in Users : v # u => HasWallet(v)' = HasWallet(v)
  BY <1>2, <1>3, <1>4 DEF HasWallet
<1> SUFFICES ASSUME NEW v \in Users
             PROVE  /\ Len(keys'[v]) + Cardinality(Writers(v)') <= Cardinality(Calls) + Spent(v)'
                    /\ ~ HasWallet(v)' => Len(keys'[v]) <= Spent(v)'
  BY DEF KeysFit, Writers, Stage, User, HasWallet, Spent
<1>8. /\ Len(keys[v]) + Cardinality(Writers(v)) <= Cardinality(Calls) + Spent(v)
      /\ ~ HasWallet(v) => Len(keys[v]) <= Spent(v)
      /\ Spent(v)' = Spent(v) /\ Spent(v) \in Nat /\ Len(keys[v]) \in Nat
  BY <1>4, <1>6, SpentGrows DEF KeysFit
<1>9. CASE v = u
  <2>1. k \in Writers(v) /\ Writers(v)' \subseteq Writers(v) \ {k}
    BY <1>1, <1>5, <1>9 DEF Writers, Stage, User, NoneJoins, WriteWallet
  <2>2. /\ IsFiniteSet(Writers(v) \ {k})
        /\ Cardinality(Writers(v) \ {k}) = Cardinality(Writers(v)) - 1
    BY <2>1, WritersAreFinite, FS_RemoveElement
  <2>3. Cardinality(Writers(v)') <= Cardinality(Writers(v)) - 1
    BY <2>1, <2>2, FS_Subset
  <2>4. Len(keys'[v]) = Len(keys[v]) + 1 /\ HasWallet(v)'
    BY <1>6, <1>7, <1>9
  <2> QED
    BY <2>3, <2>4, <1>8, WritersAreFinite, WritersStayFinite
<1>10. CASE v # u
  <2>1. Len(keys'[v]) = Len(keys[v]) /\ HasWallet(v)' = HasWallet(v)
    BY <1>6, <1>7, <1>10
  <2>2. Writers(v)' \subseteq Writers(v)
    BY <1>5 DEF Writers, Stage, User, NoneJoins
  <2>3. Cardinality(Writers(v)') <= Cardinality(Writers(v))
    BY <2>2, WritersFewer
  <2> QED
    BY <2>1, <2>3, <1>8, WritersAreFinite, WritersStayFinite
<1> QED
  BY <1>9, <1>10

\* A user gets no more wallets than there are requests at a time, however many come, and
\* that many more for each time it writes a wallet column: createUserWallet looks, and only
\* requests that looked before the first write can follow it (createUserWallet, updateProfile).
THEOREM WalletsStayBounded == WalletSpec => []WalletsBounded
<1>1. WalletInit => KeysFit
  <2> SUFFICES ASSUME WalletInit, NEW u \in Users
               PROVE  /\ Len(keys[u]) + Cardinality(Writers(u)) <= Cardinality(Calls) + Spent(u)
                      /\ ~ HasWallet(u) => Len(keys[u]) <= Spent(u)
    BY DEF KeysFit
  <2>1. Writers(u) = {}
    BY DEF Writers, Stage, WalletInit, NoWalletCall
  <2>2. Cardinality(Writers(u)) = 0
    BY <2>1, FS_EmptySet
  <2>3. Len(keys[u]) \in Nat /\ Len(keys[u]) <= 1 /\ (~ HasWallet(u) => Len(keys[u]) = 0)
    BY DEF WalletInit, HasWallet
  <2>4. PICK c \in Nat : c = Cardinality(Calls) /\ c >= 1
    BY WritersAreFinite
  <2>5. PICK n \in Nat : n = Len(keys[u]) /\ n <= 1
    BY <2>3
  <2>6. Spent(u) = 0
    <3>1. edits[u] = 0
      BY DEF WalletInit
    <3>2. 0 * (c + 1) = 0
      OBVIOUS
    <3> QED
      BY <3>1, <3>2, <2>4 DEF Spent
  <2>7. n + 0 <= c + 0
    BY <2>4, <2>5
  <2> QED
    BY <2>2, <2>3, <2>4, <2>5, <2>6, <2>7
<1>2. WInv /\ KeysFit /\ [WalletNext]_walletVars => KeysFit'
  BY KeyStepsFit, SettleFits, EditFits, OtherStepsFit, MigrateFits, RestartFits, LookFits, WriteFits
  DEF WalletNext
<1>3. WInv /\ KeysFit => WalletsBounded
  <2> SUFFICES ASSUME WInv, KeysFit, NEW u \in Users
               PROVE  Len(keys[u]) <= Cardinality(Calls) + Spent(u)
    BY DEF WalletsBounded, Spent
  <2>1. /\ Len(keys[u]) \in Nat
        /\ Len(keys[u]) + Cardinality(Writers(u)) <= Cardinality(Calls) + Spent(u)
    BY DEF KeysFit, WInv, WalletTypeOK
  <2>2. Spent(u) \in Nat
    BY SpentGrows
  <2> QED
    BY <2>1, <2>2, WritersAreFinite
<1> QED
  BY <1>1, <1>2, <1>3, WalletsInvariant, PTL DEF WalletSpec
=============================================================================

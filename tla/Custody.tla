------------------------------ MODULE Custody ------------------------------
(***************************************************************************)
(* What is recorded about the material: collections at collection points   *)
(* (waste-collection.service.ts, collection-point.service.ts), the demo    *)
(* queue that is kept full (bootstrap.service.ts), and the material        *)
(* passports (material-passport.service.ts), which RecycleGraph, another   *)
(* company's service, keeps a second copy of.                              *)
(***************************************************************************)
EXTENDS Service, SequencesExt

CONSTANTS
  Points,         \* collection points; none is ever removed
  DemoSize        \* DEMO_COLLECTIONS.length

ASSUME CustodyAssumption == DemoSize \in Nat

VARIABLES
  active,         \* isActive of each collection point
  bags,           \* the WasteCollection rows in order of creation, Nil once deleted
  passports,      \* the MaterialPassport rows, in order of creation
  available,      \* whether RecycleGraph is configured
  graph,          \* RecycleGraph: for each passport it has, the entries it was told of
  custodyCall

custodyState == <<active, bags, passports, available, graph, custodyCall>>

custodyVars == <<custodyState, budgetVars>>

\* demo: recorded by topUpDemoQueue; all collections here are those of the demo
\* collector, the only ones it counts.  An image, like an entry of a chain of
\* custody, is the number of its request.
Bags == [verified : BOOLEAN, demo : BOOLEAN, images : Seq(Nat), passport : Nat]

\* recycle is recycleGraphId, 0 for null; the entry 0 of a chain is COLLECTED.
Passports ==
  [bag : Nat, chain : Seq(Nat), recycle : Nat, verified : BOOLEAN,
   carbon : {"none", "zero", "figure"}]

CustodyOps ==
  {"none", "record", "topUp", "review", "delete", "images", "point",
   "passport", "custody", "verify", "carbon"}

CustodyStages ==
  {"idle", "locating", "reading", "asking", "adding", "writing", "linking", "telling", "counting"}

\* on: the number of the collection or passport it is about.  list: the list it
\* read.  ok: what RecycleGraph answered, or the isActive asked for.
CustodyCalls ==
  [op : CustodyOps, at : CustodyStages, on : Nat, point : Points \cup {Nil}, list : Seq(Nat),
   ok : BOOLEAN, recycle : Nat, todo : Nat, request : Nat]

NoCustodyCall ==
  [op |-> "none", at |-> "idle", on |-> 0, point |-> Nil, list |-> <<>>, ok |-> FALSE,
   recycle |-> 0, todo |-> 0, request |-> 0]

CustodyTypeOK ==
  /\ active \in [Points -> BOOLEAN]
  /\ bags \in Seq(Bags \cup {Nil})
  /\ passports \in Seq(Passports)
  /\ available \in BOOLEAN
  /\ graph \in Seq(SUBSET Nat)
  /\ custodyCall \in [Calls -> CustodyCalls]
  /\ BudgetOK

NewBag(demo) == [verified |-> FALSE, demo |-> demo, images |-> <<>>, passport |-> 0]

\* One collection waits for its review.
CustodyInit ==
  /\ active = [p \in Points |-> TRUE]
  /\ bags = <<NewBag(FALSE)>>
  /\ passports = <<>>
  /\ available \in BOOLEAN
  /\ graph = <<>>
  /\ custodyCall = [k \in Calls |-> NoCustodyCall]
  /\ BudgetInit

-----------------------------------------------------------------------------

Waiting(k, op, stage) == custodyCall[k].op = op /\ custodyCall[k].at = stage

Now(k, state) == custodyCall' = [custodyCall EXCEPT ![k] = state]

Continue(k, stage) == Now(k, [custodyCall[k] EXCEPT !.at = stage])

Finish(k) == Now(k, NoCustodyCall)

BagOf(k) == bags[custodyCall[k].on]

PassportOf(k) == passports[custodyCall[k].on]

Demand(k, state) ==
  /\ custodyCall[k].at = "idle" /\ Arriving
  /\ Now(k, [state EXCEPT !.request = requests + 1])
  /\ UNCHANGED <<active, bags, passports, available, graph>>

\* A request about a row: the row is read first.
About(k, op, n, ok) ==
  Demand(k, [NoCustodyCall EXCEPT !.op = op, !.at = "reading", !.on = n, !.ok = ok])

\* A read, or an answer of RecycleGraph that is not kept: nothing is written.
OnlyReads == Working /\ UNCHANGED <<active, bags, passports, available, graph>>

WriteBags(rows) == bags' = rows /\ UNCHANGED <<active, passports, available, graph>>

WritePassport(k, row) ==
  /\ passports' = [passports EXCEPT ![custodyCall[k].on] = row]
  /\ UNCHANGED <<active, bags, available, graph>>

-----------------------------------------------------------------------------
(* recordCollection, and topUpDemoQueue, which records in a loop           *)

RecordCollection(k, p) ==
  Demand(k, [NoCustodyCall EXCEPT !.op = "record", !.at = "locating", !.point = p, !.todo = 1])

\* At the start, when the points and the accounts of the demo are there.
EnsureDemoData(k) == Demand(k, [NoCustodyCall EXCEPT !.op = "topUp", !.at = "counting"])

\* Mutant of CountQueue: the whole queue is always recorded.
CountQueueNot(k) ==
  /\ custodyCall[k].at = "counting"
  /\ \E p \in Points :
       Now(k, [custodyCall[k] EXCEPT !.op = "topUp", !.at = "locating", !.point = p,
                                     !.todo = DemoSize])
  /\ OnlyReads

\* Unreviewed collections are counted; as many as are missing are recorded one by
\* one, at the points the samples name.
CountQueue(k) ==
  LET pending == Cardinality({n \in 1..Len(bags) : bags[n] # Nil /\ ~ bags[n].verified})
  IN  /\ custodyCall[k].at = "counting"
      /\ IF pending >= DemoSize THEN Finish(k)
         ELSE \E p \in Points :
                Now(k, [custodyCall[k] EXCEPT !.op = "topUp", !.at = "locating", !.point = p,
                                              !.todo = DemoSize - pending])
      /\ OnlyReads

FindPoint(k) ==
  /\ custodyCall[k].at = "locating"
  /\ IF active[custodyCall[k].point] THEN Continue(k, "adding") ELSE Finish(k)
  /\ OnlyReads

AddBag(k) ==
  LET c == custodyCall[k]
  IN  /\ c.op \in {"record", "topUp"} /\ c.at = "adding"
      /\ WriteBags(Append(bags, NewBag(c.op = "topUp")))
      /\ IF c.todo = 1 THEN Finish(k)
         ELSE \E p \in Points :
                Now(k, [c EXCEPT !.at = "locating", !.point = p, !.todo = c.todo - 1])
      /\ Working

-----------------------------------------------------------------------------
(* verifyCollection, deleteCollection, addImages                           *)

VerifyBag(k, n) == About(k, "review", n, FALSE)

DeleteBag(k, n) == About(k, "delete", n, FALSE)

UploadImages(k, n) == About(k, "images", n, FALSE)

CreatePassport(k, n) == About(k, "passport", n, FALSE)

\* Mutant of ReadBag: a collection may get another passport.
ReadBagAgain(k) ==
  LET op == custodyCall[k].op
      mayGoOn == BagOf(k) # Nil /\ (op = "review" => ~ BagOf(k).verified)
      next == IF op # "passport" THEN "writing" ELSE IF available THEN "asking" ELSE "adding"
  IN  /\ op \in {"review", "delete", "images", "passport"} /\ custodyCall[k].at = "reading"
      /\ \/ /\ mayGoOn
            /\ Now(k, [custodyCall[k] EXCEPT !.at = next, !.list = BagOf(k).images])
         \/ (~ mayGoOn \/ op = "delete") /\ Finish(k)
      /\ OnlyReads

\* findUnique: a row that is gone, reviewed or has its passport ends the request, and
\* so does a payment that is completed when the row is to be deleted.
ReadBag(k) ==
  LET op == custodyCall[k].op
      mayGoOn == /\ BagOf(k) # Nil
                 /\ op = "review" => ~ BagOf(k).verified
                 /\ op = "passport" => BagOf(k).passport = 0
      next == IF op # "passport" THEN "writing" ELSE IF available THEN "asking" ELSE "adding"
  IN  /\ op \in {"review", "delete", "images", "passport"} /\ custodyCall[k].at = "reading"
      /\ \/ /\ mayGoOn
            /\ Now(k, [custodyCall[k] EXCEPT !.at = next, !.list = BagOf(k).images])
         \/ (~ mayGoOn \/ op = "delete") /\ Finish(k)
      /\ OnlyReads

\* An update or a deletion of a row that is gone throws.
UpdateBag(k, op, row) ==
  /\ Waiting(k, op, "writing") /\ Working
  /\ IF BagOf(k) = Nil THEN Finish(k) /\ UNCHANGED bags
     ELSE /\ bags' = [bags EXCEPT ![custodyCall[k].on] = row]
          /\ IF op = "review" THEN Continue(k, "counting") ELSE Finish(k)
  /\ UNCHANGED <<active, passports, available, graph>>

\* The controller then fills the demo queue up.
WriteVerdict(k) == UpdateBag(k, "review", [BagOf(k) EXCEPT !.verified = TRUE])

RemoveBag(k) == UpdateBag(k, "delete", Nil)

AddImages(k) ==
  UpdateBag(k, "images",
            [BagOf(k) EXCEPT !.images = Append(custodyCall[k].list, custodyCall[k].request)])

-----------------------------------------------------------------------------
(* Collection points: deletion is isActive = false, verification undoes it *)

UpdateCollectionPoint(k, p) ==
  \E ok \in BOOLEAN :
    Demand(k, [NoCustodyCall EXCEPT !.op = "point", !.at = "writing", !.point = p, !.ok = ok])

DeleteCollectionPoint(k, p) ==
  Demand(k, [NoCustodyCall EXCEPT !.op = "point", !.at = "writing", !.point = p])

VerifyCollectionPoint(k, p) ==
  Demand(k, [NoCustodyCall EXCEPT !.op = "point", !.at = "writing", !.point = p, !.ok = TRUE])

WritePoint(k) ==
  /\ Waiting(k, "point", "writing")
  /\ active' = [active EXCEPT ![custodyCall[k].point] = custodyCall[k].ok]
  /\ Finish(k)
  /\ Working /\ UNCHANGED <<bags, passports, available, graph>>

-----------------------------------------------------------------------------
(* createPassport                                                          *)

\* RecycleGraph does what it is asked; or it fails, which its client turns into
\* an answer like any other; and then it may have done it all the same.
CreateMaterialPassport(k) ==
  /\ Waiting(k, "passport", "asking")
  /\ \/ /\ graph' = Append(graph, {}) /\ Working
        /\ Now(k, [custodyCall[k] EXCEPT !.at = "adding", !.recycle = Len(graph) + 1])
     \/ /\ graph' \in {graph, Append(graph, {})} /\ Failing
        /\ Continue(k, "adding")
  /\ UNCHANGED <<active, bags, passports, available>>

AddPassport(k) ==
  LET c == custodyCall[k]
  IN  /\ Waiting(k, "passport", "adding")
      /\ passports' = Append(passports,
           [bag |-> c.on, chain |-> <<0>>, recycle |-> c.recycle, verified |-> FALSE,
            carbon |-> IF c.recycle = 0 THEN "none" ELSE "figure"])
      /\ Now(k, [c EXCEPT !.at = "linking", !.todo = Len(passports) + 1])
      /\ Working /\ UNCHANGED <<active, bags, available, graph>>

LinkPassport(k) ==
  LET c == custodyCall[k]
  IN  /\ Waiting(k, "passport", "linking")
      /\ WriteBags(IF BagOf(k) = Nil THEN bags ELSE [bags EXCEPT ![c.on].passport = c.todo])
      /\ Finish(k) /\ Working

-----------------------------------------------------------------------------
(* updateCustody, verifyPassport, calculateCarbonCredits                   *)

UpdateCustody(k, n) == About(k, "custody", n, TRUE)

VerifyPassport(k, n) == About(k, "verify", n, TRUE)

CalculateCarbonCredits(k, n) == About(k, "carbon", n, TRUE)

\* Carbon credits are asked of RecycleGraph for every passport, the rest only for
\* those it knows.
Asks(op, row) == available /\ (op = "carbon" \/ (op = "verify" /\ row.recycle # 0))

ReadPassport(k) ==
  LET c == custodyCall[k]
  IN  /\ c.op \in {"custody", "verify", "carbon"} /\ c.at = "reading"
      /\ Now(k, [c EXCEPT !.list = PassportOf(k).chain, !.recycle = PassportOf(k).recycle,
                          !.at = IF Asks(c.op, PassportOf(k)) THEN "asking" ELSE "writing"])
      /\ OnlyReads

\* Mutant of WriteCustody: RecycleGraph is not told.
WriteCustodyQuietly(k) ==
  LET c == custodyCall[k]
  IN  /\ Waiting(k, "custody", "writing")
      /\ WritePassport(k, [PassportOf(k) EXCEPT !.chain = Append(c.list, c.request)])
      /\ Finish(k) /\ Working

WriteCustody(k) ==
  LET c == custodyCall[k]
  IN  /\ Waiting(k, "custody", "writing")
      /\ WritePassport(k, [PassportOf(k) EXCEPT !.chain = Append(c.list, c.request)])
      /\ IF c.recycle # 0 /\ available THEN Continue(k, "telling") ELSE Finish(k)
      /\ Working

\* updatePassportCustody, whose answer nobody looks at.
TellGraph(k) ==
  LET c == custodyCall[k]
      told == [graph EXCEPT ![c.recycle] = @ \cup {c.request}]
  IN  /\ Waiting(k, "custody", "telling")
      /\ \/ graph' = told /\ Working
         \/ graph' \in {graph, told} /\ Failing
      /\ Finish(k)
      /\ UNCHANGED <<active, bags, passports, available>>

\* Mutant of AskGraph: the answer is misread.
AskGraphNeverOk(k) ==
  /\ custodyCall[k].op \in {"verify", "carbon"} /\ custodyCall[k].at = "asking"
  /\ Now(k, [custodyCall[k] EXCEPT !.at = "writing", !.ok = FALSE])
  /\ Working \/ Failing
  /\ UNCHANGED <<active, bags, passports, available, graph>>

AskGraph(k) ==
  /\ custodyCall[k].op \in {"verify", "carbon"} /\ custodyCall[k].at = "asking"
  /\ \/ Continue(k, "writing") /\ Working
     \/ Now(k, [custodyCall[k] EXCEPT !.at = "writing", !.ok = FALSE]) /\ Failing
  /\ UNCHANGED <<active, bags, passports, available, graph>>

\* Mutant of WriteVerification: the whole row is written back.
WriteVerificationWithRow(k) ==
  /\ Waiting(k, "verify", "writing")
  /\ WritePassport(k, [PassportOf(k) EXCEPT !.verified = custodyCall[k].ok,
                                            !.chain = custodyCall[k].list])
  /\ Finish(k) /\ Working

\* A failed verification clears an earlier one.
WriteVerification(k) ==
  /\ Waiting(k, "verify", "writing")
  /\ WritePassport(k, [PassportOf(k) EXCEPT !.verified = custodyCall[k].ok])
  /\ Finish(k) /\ Working

\* Without RecycleGraph the figure is computed here; when it fails it is zero.
WriteCarbonCredits(k) ==
  /\ Waiting(k, "carbon", "writing")
  /\ WritePassport(k, [PassportOf(k) EXCEPT !.carbon =
                          IF custodyCall[k].ok THEN "figure" ELSE "zero"])
  /\ Finish(k) /\ Working

-----------------------------------------------------------------------------

\* A failed read or write of the database ends the request.
CustodyDatabaseFails(k) ==
  /\ custodyCall[k].at \notin {"idle", "asking", "telling"}
  /\ Failing /\ Finish(k) /\ UNCHANGED <<active, bags, passports, available, graph>>

RestartCustody ==
  /\ Crashing
  /\ custodyCall' = [k \in Calls |-> NoCustodyCall]
  /\ UNCHANGED <<active, bags, passports, available, graph>>

Collecting(k) ==
  \/ \E p \in Points : RecordCollection(k, p)
  \/ \E n \in 1..Len(bags) :
       VerifyBag(k, n) \/ DeleteBag(k, n) \/ UploadImages(k, n) \/ CreatePassport(k, n)
  \/ EnsureDemoData(k) \/ CountQueue(k) \/ FindPoint(k) \/ AddBag(k)
  \/ ReadBag(k) \/ WriteVerdict(k) \/ RemoveBag(k) \/ AddImages(k)

Locating(k) ==
  \/ \E p \in Points :
       UpdateCollectionPoint(k, p) \/ DeleteCollectionPoint(k, p) \/ VerifyCollectionPoint(k, p)
  \/ WritePoint(k)

Documenting(k) ==
  \/ \E n \in 1..Len(passports) :
       UpdateCustody(k, n) \/ VerifyPassport(k, n) \/ CalculateCarbonCredits(k, n)
  \/ CreateMaterialPassport(k) \/ AddPassport(k) \/ LinkPassport(k)
  \/ ReadPassport(k) \/ WriteCustody(k) \/ TellGraph(k)
  \/ AskGraph(k) \/ WriteVerification(k) \/ WriteCarbonCredits(k)

CustodyNext ==
  \/ \E k \in Calls :
       Collecting(k) \/ Locating(k) \/ Documenting(k) \/ CustodyDatabaseFails(k)
  \/ RestartCustody

CustodySpec == CustodyInit /\ [][CustodyNext]_custodyVars

-----------------------------------------------------------------------------
(* Properties                                                              *)

PassportsFor(n) == {m \in 1..Len(passports) : passports[m].bag = n}

\* createPassport checks, asks RecycleGraph, creates and links: requests that
\* overlap, and requests that end before the link, leave passports that no
\* collection names.  It goes no further than that: a collection that has its
\* passport never gets another one from a request that comes later.
PassportsBounded ==
  \A n \in 1..Len(bags) :
    Cardinality(PassportsFor(n)) <= Cardinality(Calls) * (1 + crashes) + faults

\* What our chain of custody says and RecycleGraph's copy does not is about to
\* be told, or telling it failed: updateCustody (lines 206-262) writes first and
\* tells afterwards, and nothing makes up for what was lost in between.
GraphLagsOnlyByFailure ==
  faults + crashes = 0 =>
    \A n \in 1..Len(passports) :
      passports[n].recycle # 0 =>
        ToSet(passports[n].chain) \subseteq
          {0} \cup graph[passports[n].recycle]
              \cup {custodyCall[k].request : k \in {j \in Calls : Waiting(j, "custody", "telling")}}

Dropped(old, new) == ToSet(old) \ ToSet(new)

\* An image of a collection and an entry of a chain of custody disappear only by
\* a request of their own kind that read the list before they were written
\* (addImages, updateCustody), or with the collection: no review, passport,
\* verification or calculation that overlaps loses any.
LostToOverlapOnly ==
  [][/\ \A n \in 1..Len(bags) :
          bags[n] # Nil /\ bags'[n] # Nil =>
            \A i \in Dropped(bags[n].images, bags'[n].images) :
              \E k \in Calls : Waiting(k, "images", "writing") /\ i \notin ToSet(custodyCall[k].list)
     /\ \A n \in 1..Len(passports) :
          \A i \in Dropped(passports[n].chain, passports'[n].chain) :
            \E k \in Calls : Waiting(k, "custody", "writing") /\ i \notin ToSet(custodyCall[k].list)
    ]_custodyVars

\* A passport loses its verification or its carbon figure only after RecycleGraph
\* failed (verifyPassport lines 281-299, calculateCarbonCredits lines 338-373),
\* whatever else was written to it meanwhile.
RevokedByOutageOnly ==
  [][\A n \in 1..Len(passports) :
       (\/ passports[n].verified /\ ~ passports'[n].verified
        \/ passports[n].carbon = "figure" /\ passports'[n].carbon # "figure")
       => faults > 0]_custodyVars

\* topUpDemoQueue counts, then records one after the other: top-ups that overlap
\* each fill the whole queue, and no more than that however many reviews follow.
DemoQueueBounded ==
  Cardinality({n \in 1..Len(bags) : bags[n] # Nil /\ bags[n].demo /\ ~ bags[n].verified})
    <= DemoSize * Cardinality(Calls)
=============================================================================

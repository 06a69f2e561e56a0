--------------------------- MODULE Custody_proofs ---------------------------
(***************************************************************************)
(* Theorems about Custody, for every number of collection points,          *)
(* requests, failures and restarts, and every length of the demo queue.    *)
(***************************************************************************)
EXTENDS Custody, FiniteSetTheorems, SequenceTheorems, TLAPS

USE ServiceAssumption, CustodyAssumption

-----------------------------------------------------------------------------
(* The inductive invariant.                                                *)

\* The operations on a collection, and those on a passport.
BagOps == {"review", "delete", "images", "passport"}

PassportOps == {"custody", "verify", "carbon"}

\* What a request has read is still true of the rows.
CustodyCallFits(c) ==
  /\ c.op \in BagOps => c.on \in 1..Len(bags)
  /\ c.op \in PassportOps => c.on \in 1..Len(passports)
  /\ c.at = "locating" => c.op \in {"record", "topUp"}
  /\ c.at = "counting" => c.op \in {"review", "topUp"}
  /\ c.op \in {"record", "topUp"} =>
       /\ c.at \in {"locating", "adding", "counting"}
       /\ c.at # "counting" => c.todo >= 1
       /\ c.op = "topUp" => c.todo <= DemoSize
  /\ c.op = "passport" =>
       /\ c.at \in {"reading", "asking", "adding", "linking"}
       /\ c.at = "asking" => available
       /\ c.at = "linking" => c.todo >= 1
       /\ c.recycle # 0 => available /\ c.recycle \in 1..Len(graph)
  /\ c.op = "custody" =>
       /\ c.at \in {"reading", "writing", "telling"}
       /\ c.at # "reading" => c.recycle = passports[c.on].recycle
       /\ c.at = "telling" => c.recycle # 0
  /\ c.op \in {"verify", "carbon"} /\ ~ c.ok => faults > 0

CustodyCallsFit == \A k \in Calls : CustodyCallFits(custodyCall[k])

\* A passport is of a collection that was recorded, and what it calls its copy is one.
RowsFit ==
  \A n \in 1..Len(passports) :
    /\ passports[n].bag \in 1..Len(bags)
    /\ passports[n].recycle # 0 => available /\ passports[n].recycle \in 1..Len(graph)

CInv == CustodyTypeOK /\ RowsFit /\ CustodyCallsFit

-----------------------------------------------------------------------------
(* What every step leaves.                                                 *)

\* No row goes, no passport changes its collection or its copy, and troubles are counted.
Grows ==
  /\ Len(bags) <= Len(bags') /\ Len(passports) <= Len(passports') /\ Len(graph) <= Len(graph')
  /\ available' = available /\ faults <= faults' /\ crashes <= crashes'
  /\ \A n \in 1..Len(passports) :
       passports'[n].bag = passports[n].bag /\ passports'[n].recycle = passports[n].recycle

\* What every step does.
Advances == CInv' /\ Grows

\* The rows are as many after a step as they can be counted.
LEMMA Lengths ==
  ASSUME CustodyTypeOK
  PROVE  /\ Len(bags) \in Nat /\ Len(passports) \in Nat /\ Len(graph) \in Nat
         /\ faults \in Nat /\ crashes \in Nat /\ requests \in Nat
BY DEF CustodyTypeOK, BudgetOK

\* What is known of a request that does not move still holds.
LEMMA CustodyFitStays ==
  ASSUME CustodyTypeOK, NEW c \in CustodyCalls, CustodyCallFits(c), Grows,
         Len(bags') \in Nat, Len(passports') \in Nat, Len(graph') \in Nat, faults' \in Nat
  PROVE  CustodyCallFits(c)'
<1>1. c.on \in Nat /\ c.recycle \in Nat
  BY DEF CustodyCalls
<1>2. /\ c.on \in 1..Len(bags) => c.on \in 1..Len(bags')
      /\ c.on \in 1..Len(passports) => c.on \in 1..Len(passports')
      /\ c.recycle \in 1..Len(graph) => c.recycle \in 1..Len(graph')
  BY <1>1, Lengths, SMTT(30) DEF Grows
<1>3. faults > 0 => faults' > 0
  BY Lengths DEF Grows
<1>4. available' = available
  BY DEF Grows
<1>5. c.op = "custody" /\ c.at # "reading" => c.recycle = passports'[c.on].recycle
  BY DEF CustodyCallFits, Grows, PassportOps
<1> QED
  BY <1>2, <1>3, <1>4, <1>5 DEF CustodyCallFits

\* A step of one request, that makes of it d.
LEMMA CustodyCallMoves ==
  ASSUME CustodyTypeOK, NEW k \in Calls, NEW d \in CustodyCalls, Now(k, d)
  PROVE  /\ custodyCall' \in [Calls -> CustodyCalls] /\ custodyCall'[k] = d
         /\ \A j \in Calls \ {k} : custodyCall'[j] = custodyCall[j]
BY DEF CustodyTypeOK, Now

\* The bounds of Service are kept by every step.
LEMMA CustodyBudgetKept ==
  ASSUME BudgetOK, Arriving \/ Failing \/ Crashing \/ Working
  PROVE  BudgetOK' /\ faults' \in Nat /\ faults <= faults' /\ crashes' \in Nat /\ crashes <= crashes'
BY DEF BudgetOK, Arriving, Failing, Crashing, Working, budgetVars

\* A step of one request keeps the invariant, if it is true of the request it makes.
LEMMA CustodyStepKeeps ==
  ASSUME CInv, NEW k \in Calls, NEW d \in CustodyCalls, Now(k, d), CustodyCallFits(d)', Grows,
         active' \in [Points -> BOOLEAN], bags' \in Seq(Bags \cup {Nil}),
         passports' \in Seq(Passports), graph' \in Seq(SUBSET Nat), RowsFit',
         Arriving \/ Failing \/ Working
  PROVE  Advances
<1>1. BudgetOK' /\ faults' \in Nat
  BY CustodyBudgetKept DEF CInv, CustodyTypeOK
<1>2. /\ custodyCall' \in [Calls -> CustodyCalls] /\ custodyCall'[k] = d
      /\ \A j \in Calls \ {k} : custodyCall'[j] = custodyCall[j]
  BY CustodyCallMoves DEF CInv
<1>3. ASSUME NEW j \in Calls PROVE CustodyCallFits(custodyCall[j])'
  <2>1. CASE j = k
    BY <2>1, <1>2 DEF CustodyCallFits
  <2>2. CASE j # k
    <3>1. PICK c \in CustodyCalls : c = custodyCall[j]
      BY DEF CInv, CustodyTypeOK
    <3>2. CustodyCallFits(c)
      BY <3>1 DEF CInv, CustodyCallsFit
    <3>3. Len(bags') \in Nat /\ Len(passports') \in Nat /\ Len(graph') \in Nat
      OBVIOUS
    <3>4. CustodyCallFits(c)'
      BY <3>2, <3>3, <1>1, CustodyFitStays DEF CInv
    <3> QED
      BY <2>2, <3>1, <3>4, <1>2 DEF CustodyCallFits
  <2> QED
    BY <2>1, <2>2
<1> QED
  BY <1>1, <1>2, <1>3 DEF Advances, CInv, CustodyTypeOK, CustodyCallsFit, Grows

\* The same of a step that leaves everything but the requests alone.
LEMMA CustodyQuietKeeps ==
  ASSUME CInv, NEW k \in Calls, NEW d \in CustodyCalls, Now(k, d), CustodyCallFits(d)',
         UNCHANGED <<active, bags, passports, available, graph>>, Arriving \/ Failing \/ Working
  PROVE  Advances
<1>1. faults <= faults' /\ crashes <= crashes'
  BY CustodyBudgetKept DEF CInv, CustodyTypeOK
<1>2. Grows
  BY <1>1, Lengths DEF Grows, CInv
<1>3. RowsFit'
  BY DEF RowsFit, CInv
<1> QED
  BY <1>2, <1>3, CustodyStepKeeps DEF CInv, CustodyTypeOK

\* A request that ends.
LEMMA CustodyNobodyFits == NoCustodyCall \in CustodyCalls /\ CustodyCallFits(NoCustodyCall)
BY DEF NoCustodyCall, CustodyCalls, CustodyOps, CustodyStages, CustodyCallFits, BagOps, PassportOps

\* The same of the next state.
LEMMA CustodyNobodyFitsNext == CustodyCallFits(NoCustodyCall)'
BY DEF NoCustodyCall, CustodyCallFits, BagOps, PassportOps

\* No request, field by field.
LEMMA Nobody ==
  /\ NoCustodyCall \in CustodyCalls
  /\ NoCustodyCall.op = "none" /\ NoCustodyCall.at = "idle" /\ NoCustodyCall.on = 0
  /\ NoCustodyCall.ok = FALSE /\ NoCustodyCall.recycle = 0 /\ NoCustodyCall.todo = 0
  /\ NoCustodyCall.request = 0
BY CustodyNobodyFits DEF NoCustodyCall

\* A request that ends, and leaves everything else alone.
LEMMA FinishKeeps ==
  ASSUME CInv, NEW k \in Calls, Finish(k),
         UNCHANGED <<active, bags, passports, available, graph>>, Arriving \/ Failing \/ Working
  PROVE  Advances
BY CustodyNobodyFits, CustodyNobodyFitsNext, CustodyQuietKeeps DEF Finish

\* A request that goes on to another stage.
LEMMA StageMoves ==
  ASSUME CustodyTypeOK, NEW k \in Calls, NEW stage \in CustodyStages, Continue(k, stage),
         NEW c \in CustodyCalls, c = custodyCall[k]
  PROVE  \E d \in CustodyCalls :
           /\ Now(k, d) /\ d.at = stage /\ d.op = c.op /\ d.on = c.on /\ d.point = c.point
           /\ d.list = c.list /\ d.ok = c.ok /\ d.recycle = c.recycle /\ d.todo = c.todo
           /\ d.request = c.request
<1> DEFINE d == [c EXCEPT !.at = stage]
<1>1. /\ d \in CustodyCalls /\ d.at = stage /\ d.op = c.op /\ d.on = c.on /\ d.point = c.point
      /\ d.list = c.list /\ d.ok = c.ok /\ d.recycle = c.recycle /\ d.todo = c.todo
      /\ d.request = c.request
  BY DEF CustodyCalls
<1>2. Now(k, d)
  BY DEF Continue
<1> HIDE DEF d
<1> QED
  BY <1>1, <1>2

\* A request that arrives.
LEMMA DemandMoves ==
  ASSUME CustodyTypeOK, NEW k \in Calls, NEW e \in CustodyCalls, Demand(k, e)
  PROVE  \E d \in CustodyCalls :
           /\ Now(k, d) /\ d.at = e.at /\ d.op = e.op /\ d.on = e.on /\ d.point = e.point
           /\ d.list = e.list /\ d.ok = e.ok /\ d.recycle = e.recycle /\ d.todo = e.todo
<1> DEFINE d == [e EXCEPT !.request = requests + 1]
<1>1. requests + 1 \in Nat
  BY Lengths
<1>2. /\ d \in CustodyCalls /\ d.at = e.at /\ d.op = e.op /\ d.on = e.on /\ d.point = e.point
      /\ d.list = e.list /\ d.ok = e.ok /\ d.recycle = e.recycle /\ d.todo = e.todo
  BY <1>1 DEF CustodyCalls
<1>3. Now(k, d)
  BY DEF Demand
<1> HIDE DEF d
<1> QED
  BY <1>2, <1>3

\* A request that arrives keeps the invariant, if it is true of it.
LEMMA DemandKeeps ==
  ASSUME CInv, NEW k \in Calls, NEW e \in CustodyCalls, Demand(k, e), CustodyCallFits(e),
         e.op \notin {"verify", "carbon"} \/ e.ok
  PROVE  Advances
<1>1. PICK d \in CustodyCalls :
        /\ Now(k, d) /\ d.at = e.at /\ d.op = e.op /\ d.on = e.on /\ d.point = e.point
        /\ d.list = e.list /\ d.ok = e.ok /\ d.recycle = e.recycle /\ d.todo = e.todo
  BY DemandMoves DEF CInv
<1>2. CustodyCallFits(d)'
  BY <1>1 DEF CustodyCallFits, Demand
<1> QED
  BY <1>1, <1>2, CustodyQuietKeeps DEF Demand

-----------------------------------------------------------------------------
(* Requests that arrive.                                                   *)

\* A request about a row that is there.
LEMMA AboutKeeps ==
  ASSUME CInv, NEW k \in Calls, NEW op \in BagOps \cup PassportOps, NEW n \in Nat,
         NEW ok \in BOOLEAN, About(k, op, n, ok),
         op \in BagOps => n \in 1..Len(bags),
         op \in PassportOps => n \in 1..Len(passports) /\ ok
  PROVE  Advances
<1> DEFINE e == [NoCustodyCall EXCEPT !.op = op, !.at = "reading", !.on = n, !.ok = ok]
<1>1. /\ e \in CustodyCalls /\ e.op = op /\ e.at = "reading" /\ e.on = n /\ e.ok = ok
      /\ e.recycle = 0
  BY Nobody DEF CustodyCalls, CustodyOps, CustodyStages, BagOps, PassportOps
<1>2. Demand(k, e)
  BY DEF About
<1> HIDE DEF e
<1>3. CustodyCallFits(e)
  BY <1>1 DEF CustodyCallFits, BagOps, PassportOps
<1>4. e.op \notin {"verify", "carbon"} \/ e.ok
  BY <1>1 DEF PassportOps
<1> QED
  BY <1>1, <1>2, <1>3, <1>4, DemandKeeps

\* A collection is recorded, or the demo queue looked at.
LEMMA RecordKeeps ==
  ASSUME CInv, NEW k \in Calls, EnsureDemoData(k) \/ \E p \in Points : RecordCollection(k, p)
  PROVE  Advances
<1>1. ASSUME NEW p \in Points, RecordCollection(k, p) PROVE Advances
  <2> DEFINE e == [NoCustodyCall EXCEPT !.op = "record", !.at = "locating", !.point = p, !.todo = 1]
  <2>1. e \in CustodyCalls /\ e.op = "record" /\ e.at = "locating" /\ e.todo = 1
    BY Nobody DEF CustodyCalls, CustodyOps, CustodyStages
  <2>2. Demand(k, e)
    BY <1>1 DEF RecordCollection
  <2> HIDE DEF e
  <2>3. CustodyCallFits(e)
    BY <2>1 DEF CustodyCallFits, BagOps, PassportOps
  <2> QED
    BY <2>1, <2>2, <2>3, DemandKeeps
<1>2. ASSUME EnsureDemoData(k) PROVE Advances
  <2> DEFINE e == [NoCustodyCall EXCEPT !.op = "topUp", !.at = "counting"]
  <2>1. e \in CustodyCalls /\ e.op = "topUp" /\ e.at = "counting" /\ e.todo = 0
    BY Nobody DEF CustodyCalls, CustodyOps, CustodyStages
  <2>2. Demand(k, e)
    BY <1>2 DEF EnsureDemoData
  <2> HIDE DEF e
  <2>3. CustodyCallFits(e)
    BY <2>1 DEF CustodyCallFits, BagOps, PassportOps
  <2> QED
    BY <2>1, <2>2, <2>3, DemandKeeps
<1> QED
  BY <1>1, <1>2

\* A request about a collection point.
LEMMA PointKeeps ==
  ASSUME CInv, NEW k \in Calls, NEW p \in Points,
         UpdateCollectionPoint(k, p) \/ DeleteCollectionPoint(k, p) \/ VerifyCollectionPoint(k, p)
  PROVE  Advances
<1>1. ASSUME NEW e \in CustodyCalls, e.op = "point", e.at = "writing", Demand(k, e) PROVE Advances
  <2>1. CustodyCallFits(e)
    BY <1>1 DEF CustodyCallFits, BagOps, PassportOps
  <2> QED
    BY <1>1, <2>1, DemandKeeps
<1>2. CASE UpdateCollectionPoint(k, p)
  <2>1. PICK ok \in BOOLEAN :
          Demand(k, [NoCustodyCall EXCEPT !.op = "point", !.at = "writing", !.point = p, !.ok = ok])
    BY <1>2 DEF UpdateCollectionPoint
  <2> DEFINE e == [NoCustodyCall EXCEPT !.op = "point", !.at = "writing", !.point = p, !.ok = ok]
  <2>2. e \in CustodyCalls /\ e.op = "point" /\ e.at = "writing"
    BY Nobody DEF CustodyCalls, CustodyOps, CustodyStages
  <2> HIDE DEF e
  <2> QED
    BY <2>1, <2>2, <1>1 DEF e
<1>3. CASE DeleteCollectionPoint(k, p)
  <2> DEFINE e == [NoCustodyCall EXCEPT !.op = "point", !.at = "writing", !.point = p]
  <2>1. e \in CustodyCalls /\ e.op = "point" /\ e.at = "writing"
    BY Nobody DEF CustodyCalls, CustodyOps, CustodyStages
  <2>2. Demand(k, e)
    BY <1>3 DEF DeleteCollectionPoint
  <2> HIDE DEF e
  <2> QED
    BY <2>1, <2>2, <1>1
<1>4. CASE VerifyCollectionPoint(k, p)
  <2> DEFINE e == [NoCustodyCall EXCEPT !.op = "point", !.at = "writing", !.point = p, !.ok = TRUE]
  <2>1. e \in CustodyCalls /\ e.op = "point" /\ e.at = "writing"
    BY Nobody DEF CustodyCalls, CustodyOps, CustodyStages
  <2>2. Demand(k, e)
    BY <1>4 DEF VerifyCollectionPoint
  <2> HIDE DEF e
  <2> QED
    BY <2>1, <2>2, <1>1
<1> QED
  BY <1>2, <1>3, <1>4

-----------------------------------------------------------------------------
(* Collections.                                                            *)

\* The collections that wait for their review.
Pending == {n \in 1..Len(bags) : bags[n] # Nil /\ ~ bags[n].verified}

\* They can be counted.
LEMMA PendingIsFinite ==
  ASSUME CustodyTypeOK
  PROVE  IsFiniteSet(Pending) /\ Cardinality(Pending) \in Nat
<1>1. IsFiniteSet(1..Len(bags))
  BY Lengths, FS_Interval
<1> QED
  BY <1>1, FS_Subset, FS_CardinalityType DEF Pending

\* The demo queue is counted: what is missing is not more than the whole of it.
LEMMA CountMoves ==
  ASSUME CInv, NEW k \in Calls, CountQueue(k), NEW c \in CustodyCalls, c = custodyCall[k]
  PROVE  \/ Finish(k)
         \/ \E d \in CustodyCalls : /\ Now(k, d) /\ d.op = "topUp" /\ d.at = "locating"
                                    /\ d.todo >= 1 /\ d.todo + Cardinality(Pending) = DemoSize
<1>1. Cardinality(Pending) \in Nat
  BY PendingIsFinite DEF CInv
<1>2. CASE Cardinality(Pending) >= DemoSize
  BY <1>1, <1>2 DEF CountQueue, Pending
<1>3. CASE ~ (Cardinality(Pending) >= DemoSize)
  <2>1. PICK todo \in Nat : todo = DemoSize - Cardinality(Pending)
    BY <1>1, <1>3
  <2>2. PICK p \in Points :
          Now(k, [custodyCall[k] EXCEPT !.op = "topUp", !.at = "locating", !.point = p,
                                        !.todo = todo])
    BY <1>3, <2>1 DEF CountQueue, Pending
  <2> DEFINE d == [c EXCEPT !.op = "topUp", !.at = "locating", !.point = p, !.todo = todo]
  <2>3. d \in CustodyCalls /\ d.op = "topUp" /\ d.at = "locating" /\ d.todo = todo
    BY DEF CustodyCalls, CustodyOps, CustodyStages
  <2>4. Now(k, d)
    BY <2>2
  <2> HIDE DEF d
  <2>5. d.todo >= 1 /\ d.todo + Cardinality(Pending) = DemoSize
    BY <1>1, <1>3, <2>1, <2>3
  <2> QED
    BY <2>3, <2>4, <2>5
<1> QED
  BY <1>2, <1>3

\* The same step keeps the invariant.
LEMMA CountKeeps ==
  ASSUME CInv, NEW k \in Calls, CountQueue(k)
  PROVE  Advances
<1>1. PICK c \in CustodyCalls : c = custodyCall[k]
  BY DEF CInv, CustodyTypeOK
<1>2. UNCHANGED <<active, bags, passports, available, graph>> /\ Working
  BY DEF CountQueue, OnlyReads
<1>3. CASE Finish(k)
  BY <1>2, <1>3, FinishKeeps
<1>4. CASE \E d \in CustodyCalls : /\ Now(k, d) /\ d.op = "topUp" /\ d.at = "locating"
                                   /\ d.todo >= 1 /\ d.todo + Cardinality(Pending) = DemoSize
  <2>1. PICK d \in CustodyCalls : /\ Now(k, d) /\ d.op = "topUp" /\ d.at = "locating"
                                  /\ d.todo >= 1 /\ d.todo + Cardinality(Pending) = DemoSize
    BY <1>4
  <2>2. d.todo \in Nat /\ Cardinality(Pending) \in Nat
    BY PendingIsFinite DEF CInv, CustodyCalls
  <2>3. d.todo <= DemoSize
    BY <2>1, <2>2
  <2>4. CustodyCallFits(d)'
    BY <2>1, <2>3 DEF CustodyCallFits, BagOps, PassportOps
  <2> QED
    BY <2>1, <2>4, <1>2, CustodyQuietKeeps
<1> QED
  BY <1>1, <1>3, <1>4, CountMoves

\* A point that is open may have a collection.
LEMMA FindKeeps ==
  ASSUME CInv, NEW k \in Calls, FindPoint(k)
  PROVE  Advances
<1>1. PICK c \in CustodyCalls : c = custodyCall[k] /\ CustodyCallFits(c)
  BY DEF CInv, CustodyTypeOK, CustodyCallsFit
<1>2. UNCHANGED <<active, bags, passports, available, graph>> /\ Working
  BY DEF FindPoint, OnlyReads
<1>3. c.op \in {"record", "topUp"} /\ c.todo >= 1 /\ (c.op = "topUp" => c.todo <= DemoSize)
  BY <1>1 DEF FindPoint, CustodyCallFits
<1>4. CASE Finish(k)
  BY <1>2, <1>4, FinishKeeps
<1>5. CASE Continue(k, "adding")
  <2>1. PICK d \in CustodyCalls : Now(k, d) /\ d.at = "adding" /\ d.op = c.op /\ d.todo = c.todo
    BY <1>1, <1>5, StageMoves DEF CInv, CustodyStages
  <2>2. CustodyCallFits(d)'
    BY <2>1, <1>3 DEF CustodyCallFits, BagOps, PassportOps
  <2> QED
    BY <2>1, <2>2, <1>2, CustodyQuietKeeps
<1> QED
  BY <1>4, <1>5 DEF FindPoint

\* A new collection.
LEMMA NewBagIsOne == \A demo \in BOOLEAN : NewBag(demo) \in Bags
BY DEF NewBag, Bags

\* A step that changes collections only.
LEMMA BagsMayGrow ==
  ASSUME CInv, bags' \in Seq(Bags \cup {Nil}), Len(bags) <= Len(bags'),
         UNCHANGED <<passports, available, graph>>, faults <= faults', crashes <= crashes'
  PROVE  Grows /\ RowsFit'
<1>1. Len(bags) \in Nat /\ Len(bags') \in Nat /\ Len(passports) \in Nat /\ Len(graph) \in Nat
  BY Lengths DEF CInv
<1>2. \A n \in 1..Len(bags) : n \in 1..Len(bags')
  BY <1>1
<1> QED
  BY <1>1, <1>2 DEF Grows, RowsFit, CInv

\* A collection is recorded.
LEMMA AddBagMoves ==
  ASSUME CInv, NEW k \in Calls, AddBag(k), NEW c \in CustodyCalls, c = custodyCall[k]
  PROVE  \/ c.todo = 1 /\ Finish(k)
         \/ \E d \in CustodyCalls : /\ Now(k, d) /\ d.op = c.op /\ d.at = "locating"
                                    /\ d.todo >= 1 /\ d.todo = c.todo - 1
<1>1. c.todo \in Nat /\ c.todo >= 1
  BY DEF AddBag, CInv, CustodyCallsFit, CustodyCallFits, CustodyCalls
<1>2. CASE c.todo = 1
  BY <1>2 DEF AddBag
<1>3. CASE c.todo # 1
  <2>1. PICK todo \in Nat : todo = c.todo - 1 /\ todo >= 1
    BY <1>1, <1>3
  <2>2. PICK p \in Points :
          Now(k, [custodyCall[k] EXCEPT !.at = "locating", !.point = p, !.todo = todo])
    BY <1>3, <2>1 DEF AddBag
  <2> DEFINE d == [c EXCEPT !.at = "locating", !.point = p, !.todo = todo]
  <2>3. d \in CustodyCalls /\ d.op = c.op /\ d.at = "locating" /\ d.todo = todo
    BY DEF CustodyCalls, CustodyStages
  <2>4. Now(k, d)
    BY <2>2
  <2> HIDE DEF d
  <2> QED
    BY <2>1, <2>3, <2>4
<1> QED
  BY <1>2, <1>3

\* The same step keeps the invariant.
LEMMA AddBagKeeps ==
  ASSUME CInv, NEW k \in Calls, AddBag(k)
  PROVE  Advances
<1>1. PICK c \in CustodyCalls : c = custodyCall[k] /\ CustodyCallFits(c)
  BY DEF CInv, CustodyTypeOK, CustodyCallsFit
<1>2. c.op \in {"record", "topUp"} /\ c.todo >= 1 /\ (c.op = "topUp" => c.todo <= DemoSize)
  BY <1>1 DEF AddBag, CustodyCallFits
<1>3. bags' = Append(bags, NewBag(c.op = "topUp"))
  BY <1>1 DEF AddBag, WriteBags
<1>4. UNCHANGED <<active, passports, available, graph>> /\ Working
  BY DEF AddBag, WriteBags
<1>5. bags' \in Seq(Bags \cup {Nil}) /\ Len(bags) <= Len(bags')
  <2>1. PICK b \in Bags \cup {Nil} : b = NewBag(c.op = "topUp")
    BY NewBagIsOne
  <2>2. bags \in Seq(Bags \cup {Nil}) /\ bags' = Append(bags, b)
    BY <1>3, <2>1 DEF CInv, CustodyTypeOK
  <2> QED
    BY <2>2
<1>6. Grows /\ RowsFit'
  BY <1>4, <1>5, BagsMayGrow, CustodyBudgetKept DEF CInv, CustodyTypeOK
<1>7. CASE Finish(k)
  BY <1>4, <1>5, <1>6, <1>7, CustodyNobodyFits, CustodyNobodyFitsNext, CustodyStepKeeps
     DEF Finish, CInv, CustodyTypeOK
<1>8. CASE \E d \in CustodyCalls : /\ Now(k, d) /\ d.op = c.op /\ d.at = "locating"
                                   /\ d.todo >= 1 /\ d.todo = c.todo - 1
  <2>1. PICK d \in CustodyCalls : /\ Now(k, d) /\ d.op = c.op /\ d.at = "locating"
                                  /\ d.todo >= 1 /\ d.todo = c.todo - 1
    BY <1>8
  <2>2. c.op = "topUp" => d.todo <= DemoSize
    BY <2>1, <1>2 DEF CustodyCalls
  <2>3. CustodyCallFits(d)'
    BY <2>1, <2>2, <1>2 DEF CustodyCallFits, BagOps, PassportOps
  <2> QED
    BY <2>1, <2>3, <1>4, <1>5, <1>6, CustodyStepKeeps DEF CInv, CustodyTypeOK
<1> QED
  BY <1>1, <1>7, <1>8, AddBagMoves

\* A collection that is read is there.
LEMMA BagThere ==
  ASSUME CInv, NEW k \in Calls, custodyCall[k].op \in BagOps
  PROVE  custodyCall[k].on \in 1..Len(bags) /\ (BagOf(k) # Nil => BagOf(k) \in Bags)
<1>1. custodyCall[k].on \in 1..Len(bags)
  BY DEF CInv, CustodyCallsFit, CustodyCallFits
<1>2. bags \in Seq(Bags \cup {Nil})
  BY DEF CInv, CustodyTypeOK
<1> QED
  BY <1>1, <1>2 DEF BagOf

\* The row is read: the request ends or goes on with its images.
LEMMA ReadBagMoves ==
  ASSUME CInv, NEW k \in Calls, ReadBag(k), NEW c \in CustodyCalls, c = custodyCall[k]
  PROVE  \/ Finish(k)
         \/ \E d \in CustodyCalls :
              /\ Now(k, d) /\ d.op = c.op /\ d.on = c.on /\ d.recycle = c.recycle
              /\ c.op # "passport" => d.at = "writing"
              /\ c.op = "passport" => /\ d.at = IF available THEN "asking" ELSE "adding"
                                      /\ bags[c.on] # Nil /\ bags[c.on].passport = 0
<1>1. CASE Finish(k)
  BY <1>1
<1>2. CASE /\ BagOf(k) # Nil
           /\ c.op = "passport" => BagOf(k).passport = 0
           /\ Now(k, [custodyCall[k] EXCEPT
                        !.at = IF c.op # "passport" THEN "writing"
                               ELSE IF available THEN "asking" ELSE "adding",
                        !.list = BagOf(k).images])
  <2>1. BagOf(k) \in Bags
    BY <1>2, BagThere DEF ReadBag, BagOps
  <2>2. PICK images \in Seq(Nat) : images = BagOf(k).images
    BY <2>1 DEF Bags
  <2>3. PICK stage \in CustodyStages :
          stage = IF c.op # "passport" THEN "writing" ELSE IF available THEN "asking" ELSE "adding"
    BY DEF CustodyStages
  <2> DEFINE d == [c EXCEPT !.at = stage, !.list = images]
  <2>4. /\ d \in CustodyCalls /\ d.op = c.op /\ d.on = c.on /\ d.recycle = c.recycle
        /\ d.at = stage
    BY DEF CustodyCalls
  <2>5. Now(k, d)
    BY <1>2, <2>2, <2>3
  <2> HIDE DEF d
  <2> QED
    BY <1>2, <2>3, <2>4, <2>5 DEF BagOf
<1> QED
  BY <1>1, <1>2 DEF ReadBag

\* The same step keeps the invariant.
LEMMA ReadBagKeeps ==
  ASSUME CInv, NEW k \in Calls, ReadBag(k)
  PROVE  Advances
<1>1. PICK c \in CustodyCalls : c = custodyCall[k] /\ CustodyCallFits(c)
  BY DEF CInv, CustodyTypeOK, CustodyCallsFit
<1>2. UNCHANGED <<active, bags, passports, available, graph>> /\ Working
  BY DEF ReadBag, OnlyReads
<1>3. c.op \in BagOps /\ c.on \in 1..Len(bags)
  BY <1>1 DEF ReadBag, BagOps, CustodyCallFits
<1>4. CASE Finish(k)
  BY <1>2, <1>4, FinishKeeps
<1>5. CASE \E d \in CustodyCalls :
             /\ Now(k, d) /\ d.op = c.op /\ d.on = c.on /\ d.recycle = c.recycle
             /\ c.op # "passport" => d.at = "writing"
             /\ c.op = "passport" => d.at = IF available THEN "asking" ELSE "adding"
  <2>1. PICK d \in CustodyCalls :
             /\ Now(k, d) /\ d.op = c.op /\ d.on = c.on /\ d.recycle = c.recycle
             /\ c.op # "passport" => d.at = "writing"
             /\ c.op = "passport" => d.at = IF available THEN "asking" ELSE "adding"
    BY <1>5
  <2>2. CustodyCallFits(d)
    BY <2>1, <1>1, <1>3 DEF CustodyCallFits, BagOps, PassportOps
  <2>3. CustodyCallFits(d)'
    BY <2>1, <1>1, <1>2, <1>3 DEF CustodyCallFits, BagOps, PassportOps
  <2> QED
    BY <2>1, <2>3, <1>2, CustodyQuietKeeps
<1> QED
  BY <1>1, <1>4, <1>5, ReadBagMoves

\* A row that is still there is written, or the request ends.
LEMMA UpdateBagMoves ==
  ASSUME CInv, NEW k \in Calls, NEW op \in {"review", "delete", "images"}, NEW row,
         UpdateBag(k, op, row), NEW c \in CustodyCalls, c = custodyCall[k]
  PROVE  \/ Finish(k)
         \/ \E d \in CustodyCalls : /\ Now(k, d) /\ d.op = "review" /\ d.at = "counting"
                                    /\ d.on = c.on /\ c.op = "review"
<1>1. c.op = op
  BY DEF UpdateBag, Waiting
<1>2. CASE Finish(k)
  BY <1>2
<1>3. CASE op = "review" /\ Continue(k, "counting")
  <2>1. PICK d \in CustodyCalls : Now(k, d) /\ d.at = "counting" /\ d.op = c.op /\ d.on = c.on
    BY <1>3, StageMoves DEF CInv, CustodyStages
  <2> QED
    BY <2>1, <1>1, <1>3
<1> QED
  BY <1>2, <1>3 DEF UpdateBag

\* A row is written.
LEMMA BagWritten ==
  ASSUME CInv, NEW k \in Calls, custodyCall[k].op \in BagOps,
         NEW row, BagOf(k) # Nil => row \in Bags \cup {Nil},
         bags' = IF BagOf(k) = Nil THEN bags ELSE [bags EXCEPT ![custodyCall[k].on] = row]
  PROVE  bags' \in Seq(Bags \cup {Nil}) /\ Len(bags') = Len(bags)
<1>1. bags \in Seq(Bags \cup {Nil})
  BY DEF CInv, CustodyTypeOK
<1>2. custodyCall[k].on \in 1..Len(bags)
  BY BagThere
<1>3. CASE BagOf(k) = Nil
  BY <1>1, <1>3
<1>4. CASE BagOf(k) # Nil
  BY <1>1, <1>2, <1>4
<1> QED
  BY <1>3, <1>4

\* An update keeps the invariant, if what it writes is a row.
LEMMA UpdateBagKeeps ==
  ASSUME CInv, NEW k \in Calls, NEW op \in {"review", "delete", "images"}, NEW row,
         UpdateBag(k, op, row), BagOf(k) # Nil => row \in Bags \cup {Nil}
  PROVE  Advances
<1>1. PICK c \in CustodyCalls : c = custodyCall[k] /\ CustodyCallFits(c)
  BY DEF CInv, CustodyTypeOK, CustodyCallsFit
<1>2. c.op = op /\ c.on \in 1..Len(bags)
  BY <1>1 DEF UpdateBag, Waiting, BagOps, CustodyCallFits
<1>3. bags' = IF BagOf(k) = Nil THEN bags ELSE [bags EXCEPT ![custodyCall[k].on] = row]
  BY DEF UpdateBag
<1>4. UNCHANGED <<active, passports, available, graph>> /\ Working
  BY DEF UpdateBag
<1>5. bags' \in Seq(Bags \cup {Nil}) /\ Len(bags') = Len(bags)
  BY <1>1, <1>2, <1>3, BagWritten DEF BagOps
<1>6. Len(bags) <= Len(bags') /\ faults <= faults' /\ crashes <= crashes'
  BY <1>4, <1>5, Lengths, CustodyBudgetKept DEF CInv, CustodyTypeOK
<1>7. Grows /\ RowsFit'
  BY <1>4, <1>5, <1>6, BagsMayGrow
<1>8. CASE Finish(k)
  BY <1>4, <1>5, <1>7, <1>8, CustodyNobodyFits, CustodyNobodyFitsNext, CustodyStepKeeps
     DEF Finish, CInv, CustodyTypeOK
<1>9. CASE \E d \in CustodyCalls : Now(k, d) /\ d.op = "review" /\ d.at = "counting" /\ d.on = c.on
  <2>1. PICK d \in CustodyCalls : Now(k, d) /\ d.op = "review" /\ d.at = "counting" /\ d.on = c.on
    BY <1>9
  <2>2. CustodyCallFits(d)'
    BY <2>1, <1>2, <1>5 DEF CustodyCallFits, BagOps, PassportOps
  <2> QED
    BY <2>1, <2>2, <1>4, <1>5, <1>7, CustodyStepKeeps DEF CInv, CustodyTypeOK
<1> QED
  BY <1>1, <1>8, <1>9, UpdateBagMoves

\* The three updates.
LEMMA WriteBagKeeps ==
  ASSUME CInv, NEW k \in Calls, WriteVerdict(k) \/ RemoveBag(k) \/ AddImages(k)
  PROVE  Advances
<1>1. custodyCall[k].op \in BagOps
  BY DEF WriteVerdict, RemoveBag, AddImages, UpdateBag, Waiting, BagOps
<1>2. BagOf(k) # Nil => BagOf(k) \in Bags
  BY <1>1, BagThere
<1>3. CASE WriteVerdict(k)
  <2>1. BagOf(k) # Nil => [BagOf(k) EXCEPT !.verified = TRUE] \in Bags \cup {Nil}
    BY <1>2 DEF Bags
  <2> QED
    BY <2>1, <1>3, UpdateBagKeeps DEF WriteVerdict
<1>4. CASE RemoveBag(k)
  BY <1>4, UpdateBagKeeps DEF RemoveBag
<1>5. CASE AddImages(k)
  <2>1. PICK images \in Seq(Nat) : images = Append(custodyCall[k].list, custodyCall[k].request)
    <3>1. PICK c \in CustodyCalls : c = custodyCall[k]
      BY DEF CInv, CustodyTypeOK
    <3>2. c.list \in Seq(Nat) /\ c.request \in Nat
      BY DEF CustodyCalls
    <3>3. Append(c.list, c.request) \in Seq(Nat)
      BY <3>2
    <3> QED
      BY <3>1, <3>3
  <2>2. BagOf(k) # Nil => [BagOf(k) EXCEPT !.images = images] \in Bags \cup {Nil}
    BY <1>2 DEF Bags
  <2> QED
    BY <2>1, <2>2, <1>5, UpdateBagKeeps DEF AddImages
<1> QED
  BY <1>3, <1>4, <1>5

\* The point is written.
LEMMA WritePointKeeps ==
  ASSUME CInv, NEW k \in Calls, WritePoint(k)
  PROVE  Advances
<1>1. custodyCall[k].ok \in BOOLEAN
  BY DEF CInv, CustodyTypeOK, CustodyCalls
<1>2. active' \in [Points -> BOOLEAN]
  BY <1>1 DEF WritePoint, CInv, CustodyTypeOK
<1>3. Grows
  BY Lengths, CustodyBudgetKept DEF Grows, CInv, CustodyTypeOK, WritePoint
<1>4. RowsFit'
  BY DEF RowsFit, CInv, WritePoint
<1> QED
  BY <1>2, <1>3, <1>4, CustodyNobodyFits, CustodyNobodyFitsNext, CustodyStepKeeps
  DEF WritePoint, Finish, CInv, CustodyTypeOK

-----------------------------------------------------------------------------
(* Material passports.                                                     *)

\* A passport that is read is there.
LEMMA PassportThere ==
  ASSUME CInv, NEW k \in Calls, custodyCall[k].op \in PassportOps
  PROVE  /\ custodyCall[k].on \in 1..Len(passports) /\ PassportOf(k) \in Passports
         /\ PassportOf(k) = passports[custodyCall[k].on]
<1>1. custodyCall[k].on \in 1..Len(passports)
  BY DEF CInv, CustodyCallsFit, CustodyCallFits
<1>2. passports \in Seq(Passports)
  BY DEF CInv, CustodyTypeOK
<1> QED
  BY <1>1, <1>2 DEF PassportOf

\* RecycleGraph is asked for a passport: what it calls it is one of its own.
LEMMA CreateMoves ==
  ASSUME CInv, NEW k \in Calls, CreateMaterialPassport(k),
         NEW c \in CustodyCalls, c = custodyCall[k]
  PROVE  /\ graph' \in Seq(SUBSET Nat) /\ Len(graph) <= Len(graph')
         /\ \A n \in 1..Len(graph) : graph'[n] = graph[n]
         /\ \E d \in CustodyCalls :
              /\ Now(k, d) /\ d.op = "passport" /\ d.at = "adding" /\ d.on = c.on
              /\ d.recycle # 0 => d.recycle = c.recycle \/ d.recycle \in 1..Len(graph')
<1>1. graph \in Seq(SUBSET Nat) /\ Append(graph, {}) \in Seq(SUBSET Nat) /\ Len(graph) \in Nat
      /\ Len(Append(graph, {})) = Len(graph) + 1
      /\ \A n \in 1..Len(graph) : Append(graph, {})[n] = graph[n]
  <2>1. PICK none \in SUBSET Nat : none = {}
    OBVIOUS
  <2>2. graph \in Seq(SUBSET Nat)
    BY DEF CInv, CustodyTypeOK
  <2> QED
    BY <2>1, <2>2
<1>2. graph' \in {graph, Append(graph, {})}
  BY DEF CreateMaterialPassport
<1>3. c.op = "passport"
  BY DEF CreateMaterialPassport, Waiting
<1>4. graph' \in Seq(SUBSET Nat) /\ Len(graph) <= Len(graph')
      /\ \A n \in 1..Len(graph) : graph'[n] = graph[n]
  BY <1>1, <1>2
<1>5. CASE Continue(k, "adding")
  <2>1. PICK d \in CustodyCalls :
          Now(k, d) /\ d.at = "adding" /\ d.op = c.op /\ d.on = c.on /\ d.recycle = c.recycle
    BY <1>5, StageMoves DEF CInv, CustodyStages
  <2> QED
    BY <2>1, <1>3, <1>4
<1>6. CASE /\ graph' = Append(graph, {})
           /\ Now(k, [custodyCall[k] EXCEPT !.at = "adding", !.recycle = Len(graph) + 1])
  <2> DEFINE d == [c EXCEPT !.at = "adding", !.recycle = Len(graph) + 1]
  <2>1. Len(graph) + 1 \in Nat
    BY <1>1
  <2>2. /\ d \in CustodyCalls /\ d.at = "adding" /\ d.op = c.op /\ d.on = c.on
        /\ d.recycle = Len(graph) + 1
    BY <2>1 DEF CustodyCalls, CustodyStages
  <2>3. Now(k, d)
    BY <1>6
  <2>4. Len(graph) + 1 \in 1..Len(graph')
    BY <1>1, <1>6
  <2> HIDE DEF d
  <2> QED
    BY <2>2, <2>3, <2>4, <1>3, <1>4
<1> QED
  BY <1>5, <1>6 DEF CreateMaterialPassport

\* The same step keeps the invariant.
LEMMA CreateKeeps ==
  ASSUME CInv, NEW k \in Calls, CreateMaterialPassport(k)
  PROVE  Advances
<1>1. PICK c \in CustodyCalls : c = custodyCall[k] /\ CustodyCallFits(c)
  BY DEF CInv, CustodyTypeOK, CustodyCallsFit
<1>2. c.op = "passport" /\ c.at = "asking"
  BY <1>1 DEF CreateMaterialPassport, Waiting
<1>3. available /\ c.on \in 1..Len(bags) /\ (c.recycle # 0 => c.recycle \in 1..Len(graph))
  BY <1>1, <1>2 DEF CustodyCallFits, BagOps
<1>4. UNCHANGED <<active, bags, passports, available>> /\ (Working \/ Failing)
  BY DEF CreateMaterialPassport
<1>5. graph' \in Seq(SUBSET Nat) /\ Len(graph) <= Len(graph')
  BY <1>1, CreateMoves
<1>6. Len(graph) \in Nat /\ Len(graph') \in Nat /\ Len(passports) \in Nat /\ Len(bags) \in Nat
  BY <1>5, Lengths DEF CInv
<1>7. \A n \in 1..Len(graph) : n \in 1..Len(graph')
  BY <1>5, <1>6
<1>8. Grows
  BY <1>4, <1>5, <1>6, CustodyBudgetKept DEF Grows, CInv, CustodyTypeOK
<1>9. RowsFit'
  BY <1>4, <1>7 DEF RowsFit, CInv
<1>10. PICK d \in CustodyCalls :
         /\ Now(k, d) /\ d.op = "passport" /\ d.at = "adding" /\ d.on = c.on
         /\ d.recycle # 0 => d.recycle = c.recycle \/ d.recycle \in 1..Len(graph')
  BY <1>1, CreateMoves
<1>11. d.recycle # 0 => d.recycle \in 1..Len(graph')
  BY <1>3, <1>7, <1>10
<1>12. CustodyCallFits(d)'
  BY <1>3, <1>4, <1>10, <1>11 DEF CustodyCallFits, BagOps, PassportOps
<1> QED
  BY <1>4, <1>5, <1>8, <1>9, <1>10, <1>12, CustodyStepKeeps DEF CInv, CustodyTypeOK

\* The passport that a request adds.
NewPassport(c) ==
  [bag |-> c.on, chain |-> <<0>>, recycle |-> c.recycle, verified |-> FALSE,
   carbon |-> IF c.recycle = 0 THEN "none" ELSE "figure"]

\* It is one.
LEMMA NewPassportIsOne ==
  ASSUME NEW c \in CustodyCalls
  PROVE  /\ NewPassport(c) \in Passports
         /\ NewPassport(c).bag = c.on /\ NewPassport(c).recycle = c.recycle
         /\ NewPassport(c).chain = <<0>>
<1>1. c.on \in Nat /\ c.recycle \in Nat /\ <<0>> \in Seq(Nat)
  BY DEF CustodyCalls
<1> QED
  BY <1>1 DEF NewPassport, Passports

\* A passport is added at the end.
LEMMA AddPassportMoves ==
  ASSUME CInv, NEW k \in Calls, AddPassport(k), NEW c \in CustodyCalls, c = custodyCall[k]
  PROVE  /\ passports' = Append(passports, NewPassport(c))
         /\ passports' \in Seq(Passports) /\ Len(passports') = Len(passports) + 1
         /\ passports'[Len(passports) + 1] = NewPassport(c)
         /\ \A n \in 1..Len(passports) : passports'[n] = passports[n]
         /\ \E d \in CustodyCalls :
              /\ Now(k, d) /\ d.op = "passport" /\ d.at = "linking" /\ d.on = c.on
              /\ d.recycle = c.recycle /\ d.todo = Len(passports) + 1
<1>1. passports' = Append(passports, NewPassport(c))
  BY DEF AddPassport, NewPassport
<1>2. passports \in Seq(Passports) /\ NewPassport(c) \in Passports
  BY NewPassportIsOne DEF CInv, CustodyTypeOK
<1>3. /\ passports' \in Seq(Passports) /\ Len(passports') = Len(passports) + 1
      /\ passports'[Len(passports) + 1] = NewPassport(c)
      /\ \A n \in 1..Len(passports) : passports'[n] = passports[n]
  BY <1>1, <1>2
<1> DEFINE d == [c EXCEPT !.at = "linking", !.todo = Len(passports) + 1]
<1>4. Len(passports) + 1 \in Nat
  BY Lengths DEF CInv
<1>5. /\ d \in CustodyCalls /\ d.op = c.op /\ d.at = "linking" /\ d.on = c.on
      /\ d.recycle = c.recycle /\ d.todo = Len(passports) + 1
  BY <1>4 DEF CustodyCalls, CustodyStages
<1>6. Now(k, d) /\ c.op = "passport"
  BY DEF AddPassport, Waiting
<1> HIDE DEF d
<1> QED
  BY <1>1, <1>3, <1>5, <1>6

\* The same step keeps the invariant.
LEMMA AddPassportKeeps ==
  ASSUME CInv, NEW k \in Calls, AddPassport(k)
  PROVE  Advances
<1>1. PICK c \in CustodyCalls : c = custodyCall[k] /\ CustodyCallFits(c)
  BY DEF CInv, CustodyTypeOK, CustodyCallsFit
<1>2. c.op = "passport"
  BY <1>1 DEF AddPassport, Waiting
<1>3. c.on \in 1..Len(bags) /\ (c.recycle # 0 => available /\ c.recycle \in 1..Len(graph))
  BY <1>1, <1>2 DEF CustodyCallFits, BagOps
<1>4. UNCHANGED <<active, bags, available, graph>> /\ Working
  BY DEF AddPassport
<1>5. /\ passports' \in Seq(Passports) /\ Len(passports') = Len(passports) + 1
      /\ passports'[Len(passports) + 1] = NewPassport(c)
      /\ \A n \in 1..Len(passports) : passports'[n] = passports[n]
  BY <1>1, AddPassportMoves
<1>6. Len(passports) \in Nat /\ Len(bags) \in Nat /\ Len(graph) \in Nat
  BY Lengths DEF CInv
<1>7. Grows
  BY <1>4, <1>5, <1>6, CustodyBudgetKept DEF Grows, CInv, CustodyTypeOK
<1>8. RowsFit'
  <2> SUFFICES ASSUME NEW n \in 1..Len(passports')
               PROVE  /\ passports'[n].bag \in 1..Len(bags)
                      /\ passports'[n].recycle # 0 =>
                           available /\ passports'[n].recycle \in 1..Len(graph)
    BY <1>4 DEF RowsFit
  <2>1. CASE n \in 1..Len(passports)
    BY <2>1, <1>5 DEF CInv, RowsFit
  <2>2. CASE n = Len(passports) + 1
    BY <2>2, <1>3, <1>5, NewPassportIsOne
  <2> QED
    BY <2>1, <2>2, <1>5, <1>6
<1>9. PICK d \in CustodyCalls :
        /\ Now(k, d) /\ d.op = "passport" /\ d.at = "linking" /\ d.on = c.on
        /\ d.recycle = c.recycle /\ d.todo = Len(passports) + 1
  BY <1>1, AddPassportMoves
<1>10. d.todo >= 1
  BY <1>6, <1>9
<1>11. CustodyCallFits(d)'
  BY <1>3, <1>4, <1>9, <1>10 DEF CustodyCallFits, BagOps, PassportOps
<1> QED
  BY <1>4, <1>5, <1>7, <1>8, <1>9, <1>11, CustodyStepKeeps DEF CInv, CustodyTypeOK

\* The collection is linked to its passport, if it is still there.
LEMMA LinkKeeps ==
  ASSUME CInv, NEW k \in Calls, LinkPassport(k)
  PROVE  Advances
<1>1. PICK c \in CustodyCalls : c = custodyCall[k] /\ CustodyCallFits(c)
  BY DEF CInv, CustodyTypeOK, CustodyCallsFit
<1>2. c.op = "passport" /\ c.op \in BagOps /\ c.todo \in Nat
  BY <1>1 DEF LinkPassport, Waiting, BagOps, CustodyCalls
<1>3. bags' = IF BagOf(k) = Nil THEN bags
              ELSE [bags EXCEPT ![custodyCall[k].on] = [BagOf(k) EXCEPT !.passport = c.todo]]
  BY <1>1 DEF LinkPassport, WriteBags, BagOf
<1>4. BagOf(k) # Nil => [BagOf(k) EXCEPT !.passport = c.todo] \in Bags \cup {Nil}
  BY <1>1, <1>2, BagThere DEF Bags
<1>5. UNCHANGED <<active, passports, available, graph>> /\ Working
  BY DEF LinkPassport, WriteBags
<1>6. bags' \in Seq(Bags \cup {Nil}) /\ Len(bags') = Len(bags)
  BY <1>1, <1>2, <1>3, <1>4, BagWritten
<1>7. Len(bags) <= Len(bags') /\ faults <= faults' /\ crashes <= crashes'
  BY <1>5, <1>6, Lengths, CustodyBudgetKept DEF CInv, CustodyTypeOK
<1>8. Grows /\ RowsFit'
  BY <1>5, <1>6, <1>7, BagsMayGrow
<1> QED
  BY <1>5, <1>6, <1>8, CustodyNobodyFits, CustodyNobodyFitsNext, CustodyStepKeeps
  DEF LinkPassport, Finish, CInv, CustodyTypeOK

\* A passport is read: the request goes on with its chain and what its copy is called.
LEMMA ReadPassportMoves ==
  ASSUME CInv, NEW k \in Calls, ReadPassport(k), NEW c \in CustodyCalls, c = custodyCall[k]
  PROVE  \E d \in CustodyCalls :
           /\ Now(k, d) /\ d.op = c.op /\ d.on = c.on /\ d.ok = c.ok
           /\ d.list = passports[c.on].chain /\ d.recycle = passports[c.on].recycle
           /\ c.op = "custody" => d.at = "writing"
           /\ c.op # "custody" => d.at \in {"asking", "writing"}
<1>1. PassportOf(k) \in Passports /\ PassportOf(k) = passports[c.on]
  BY PassportThere DEF ReadPassport, PassportOps
<1>2. PICK chain \in Seq(Nat), recycle \in Nat :
        chain = PassportOf(k).chain /\ recycle = PassportOf(k).recycle
  BY <1>1 DEF Passports
<1>3. PICK stage \in CustodyStages :
        stage = IF Asks(c.op, PassportOf(k)) THEN "asking" ELSE "writing"
  BY DEF CustodyStages
<1> DEFINE d == [c EXCEPT !.list = chain, !.recycle = recycle, !.at = stage]
<1>4. /\ d \in CustodyCalls /\ d.op = c.op /\ d.on = c.on /\ d.ok = c.ok
      /\ d.list = chain /\ d.recycle = recycle /\ d.at = stage
  BY DEF CustodyCalls
<1>5. Now(k, d)
  BY <1>2, <1>3 DEF ReadPassport
<1>6. c.op = "custody" => stage = "writing"
  BY <1>3 DEF Asks
<1> HIDE DEF d
<1> QED
  BY <1>1, <1>2, <1>3, <1>4, <1>5, <1>6

\* The same step keeps the invariant.
LEMMA ReadPassportKeeps ==
  ASSUME CInv, NEW k \in Calls, ReadPassport(k)
  PROVE  Advances
<1>1. PICK c \in CustodyCalls : c = custodyCall[k] /\ CustodyCallFits(c)
  BY DEF CInv, CustodyTypeOK, CustodyCallsFit
<1>2. UNCHANGED <<active, bags, passports, available, graph>> /\ Working
  BY DEF ReadPassport, OnlyReads
<1>3. c.op \in PassportOps /\ c.on \in 1..Len(passports)
  BY <1>1 DEF ReadPassport, PassportOps, CustodyCallFits
<1>4. c.op \in {"verify", "carbon"} /\ ~ c.ok => faults' > 0
  BY <1>1, <1>2 DEF CustodyCallFits, Working, budgetVars
<1>5. PICK d \in CustodyCalls :
        /\ Now(k, d) /\ d.op = c.op /\ d.on = c.on /\ d.ok = c.ok
        /\ d.recycle = passports[c.on].recycle
        /\ c.op = "custody" => d.at = "writing"
        /\ c.op # "custody" => d.at \in {"asking", "writing"}
  BY <1>1, ReadPassportMoves
<1>6. CustodyCallFits(d)'
  BY <1>2, <1>3, <1>4, <1>5 DEF CustodyCallFits, BagOps, PassportOps
<1> QED
  BY <1>2, <1>5, <1>6, CustodyQuietKeeps

\* A passport is written, with the same collection and the same copy.
LEMMA PassportWritten ==
  ASSUME CInv, NEW k \in Calls, custodyCall[k].op \in PassportOps,
         NEW row \in Passports, row.bag = PassportOf(k).bag, row.recycle = PassportOf(k).recycle,
         WritePassport(k, row), Working
  PROVE  passports' \in Seq(Passports) /\ Len(passports') = Len(passports) /\ Grows /\ RowsFit'
<1>1. passports \in Seq(Passports) /\ Len(passports) \in Nat
  BY DEF CInv, CustodyTypeOK
<1>2. custodyCall[k].on \in 1..Len(passports) /\ PassportOf(k) = passports[custodyCall[k].on]
  BY PassportThere
<1>3. /\ passports' \in Seq(Passports) /\ Len(passports') = Len(passports)
      /\ \A n \in 1..Len(passports) :
           passports'[n] = IF n = custodyCall[k].on THEN row ELSE passports[n]
  <2>1. PICK m \in 1..Len(passports) : m = custodyCall[k].on
    BY <1>2
  <2>2. passports' = [passports EXCEPT ![m] = row]
    BY <2>1 DEF WritePassport
  <2> QED
    BY <1>1, <2>1, <2>2
<1>4. \A n \in 1..Len(passports) :
        passports'[n].bag = passports[n].bag /\ passports'[n].recycle = passports[n].recycle
  BY <1>2, <1>3
<1>5. Grows
  BY <1>1, <1>3, <1>4, Lengths DEF Grows, WritePassport, CInv, Working, budgetVars
<1>6. RowsFit'
  BY <1>3, <1>4 DEF RowsFit, WritePassport, CInv
<1> QED
  BY <1>3, <1>5, <1>6

\* The three rows that are written.
LEMMA PassportRows ==
  ASSUME CInv, NEW k \in Calls, custodyCall[k].op \in PassportOps,
         NEW c \in CustodyCalls, c = custodyCall[k]
  PROVE  /\ [PassportOf(k) EXCEPT !.chain = Append(c.list, c.request)] \in Passports
         /\ [PassportOf(k) EXCEPT !.verified = c.ok] \in Passports
         /\ [PassportOf(k) EXCEPT !.carbon = IF c.ok THEN "figure" ELSE "zero"] \in Passports
<1>1. PassportOf(k) \in Passports
  BY PassportThere
<1>2. c.list \in Seq(Nat) /\ c.request \in Nat /\ c.ok \in BOOLEAN
  BY DEF CustodyCalls
<1>3. Append(c.list, c.request) \in Seq(Nat)
  BY <1>2
<1>4. [PassportOf(k) EXCEPT !.chain = Append(c.list, c.request)] \in Passports
  BY <1>1, <1>3 DEF Passports
<1>5. [PassportOf(k) EXCEPT !.verified = c.ok] \in Passports
  BY <1>1, <1>2 DEF Passports
<1>6. [PassportOf(k) EXCEPT !.carbon = IF c.ok THEN "figure" ELSE "zero"] \in Passports
  <2>1. (IF c.ok THEN "figure" ELSE "zero") \in {"none", "zero", "figure"}
    OBVIOUS
  <2> QED
    BY <1>1, <2>1 DEF Passports
<1> QED
  BY <1>4, <1>5, <1>6

\* The chain of custody is written, and the copy is told if there is one.
LEMMA WriteCustodyKeeps ==
  ASSUME CInv, NEW k \in Calls, WriteCustody(k)
  PROVE  Advances
<1>1. PICK c \in CustodyCalls : c = custodyCall[k] /\ CustodyCallFits(c)
  BY DEF CInv, CustodyTypeOK, CustodyCallsFit
<1>2. c.op = "custody" /\ c.at = "writing" /\ custodyCall[k].op \in PassportOps
  BY <1>1 DEF WriteCustody, Waiting, PassportOps
<1>3. PICK row \in Passports : row = [PassportOf(k) EXCEPT !.chain = Append(c.list, c.request)]
  BY <1>1, <1>2, PassportRows
<1>4. row.bag = PassportOf(k).bag /\ row.recycle = PassportOf(k).recycle
  BY <1>2, <1>3, PassportThere DEF Passports
<1>5. WritePassport(k, row) /\ Working
  BY <1>1, <1>3 DEF WriteCustody
<1>6. passports' \in Seq(Passports) /\ Len(passports') = Len(passports) /\ Grows /\ RowsFit'
  BY <1>2, <1>4, <1>5, PassportWritten
<1>7. UNCHANGED <<active, bags, available, graph>>
  BY <1>5 DEF WritePassport
<1>8. CASE Finish(k)
  BY <1>5, <1>6, <1>7, <1>8, CustodyNobodyFits, CustodyNobodyFitsNext, CustodyStepKeeps
  DEF Finish, CInv, CustodyTypeOK
<1>9. CASE c.recycle # 0 /\ Continue(k, "telling")
  <2>1. PICK d \in CustodyCalls :
          Now(k, d) /\ d.at = "telling" /\ d.op = c.op /\ d.on = c.on /\ d.recycle = c.recycle
    BY <1>1, <1>9, StageMoves DEF CInv, CustodyStages
  <2>2. c.on \in 1..Len(passports) /\ c.recycle = passports[c.on].recycle
    BY <1>1, <1>2 DEF CustodyCallFits, PassportOps
  <2>3. c.recycle = passports'[c.on].recycle
    BY <2>2, <1>6 DEF Grows
  <2>4. CustodyCallFits(d)'
    BY <2>1, <2>2, <2>3, <1>2, <1>6, <1>9 DEF CustodyCallFits, BagOps, PassportOps
  <2> QED
    BY <2>1, <2>4, <1>5, <1>6, <1>7, CustodyStepKeeps DEF CInv, CustodyTypeOK
<1> QED
  BY <1>1, <1>8, <1>9 DEF WriteCustody

\* Verification and carbon figure are written.
LEMMA WriteAnswerKeeps ==
  ASSUME CInv, NEW k \in Calls, WriteVerification(k) \/ WriteCarbonCredits(k)
  PROVE  Advances
<1>1. PICK c \in CustodyCalls : c = custodyCall[k]
  BY DEF CInv, CustodyTypeOK
<1>2. custodyCall[k].op \in PassportOps
  BY DEF WriteVerification, WriteCarbonCredits, Waiting, PassportOps
<1>3. \E row \in Passports : /\ row.bag = PassportOf(k).bag /\ row.recycle = PassportOf(k).recycle
                             /\ WritePassport(k, row)
  <2>1. CASE WriteVerification(k)
    <3>1. PICK row \in Passports : row = [PassportOf(k) EXCEPT !.verified = c.ok]
      BY <1>1, <1>2, PassportRows
    <3>2. row.bag = PassportOf(k).bag /\ row.recycle = PassportOf(k).recycle
      BY <1>2, <3>1, PassportThere DEF Passports
    <3> QED
      BY <1>1, <2>1, <3>1, <3>2 DEF WriteVerification
  <2>2. CASE WriteCarbonCredits(k)
    <3>1. PICK row \in Passports :
            row = [PassportOf(k) EXCEPT !.carbon = IF c.ok THEN "figure" ELSE "zero"]
      BY <1>1, <1>2, PassportRows
    <3>2. row.bag = PassportOf(k).bag /\ row.recycle = PassportOf(k).recycle
      BY <1>2, <3>1, PassportThere DEF Passports
    <3> QED
      BY <1>1, <2>2, <3>1, <3>2 DEF WriteCarbonCredits
  <2> QED
    BY <2>1, <2>2
<1>4. Finish(k) /\ Working
  BY DEF WriteVerification, WriteCarbonCredits
<1>5. UNCHANGED <<active, bags, available, graph>>
  BY <1>3 DEF WritePassport
<1>6. passports' \in Seq(Passports) /\ Grows /\ RowsFit'
  BY <1>2, <1>3, <1>4, PassportWritten
<1> QED
  BY <1>4, <1>5, <1>6, CustodyNobodyFits, CustodyNobodyFitsNext, CustodyStepKeeps
     DEF Finish, CInv, CustodyTypeOK

\* RecycleGraph answers, or fails.
LEMMA AskGraphMoves ==
  ASSUME CInv, NEW k \in Calls, AskGraph(k), NEW c \in CustodyCalls, c = custodyCall[k]
  PROVE  \E d \in CustodyCalls :
           /\ Now(k, d) /\ d.op = c.op /\ d.on = c.on /\ d.at = "writing"
           /\ d.ok = c.ok \/ Failing
<1>1. CASE Continue(k, "writing")
  <2>1. PICK d \in CustodyCalls :
          Now(k, d) /\ d.op = c.op /\ d.on = c.on /\ d.at = "writing" /\ d.ok = c.ok
    BY <1>1, StageMoves DEF CInv, CustodyStages
  <2> QED
    BY <2>1
<1>2. CASE Now(k, [custodyCall[k] EXCEPT !.at = "writing", !.ok = FALSE]) /\ Failing
  <2> DEFINE d == [c EXCEPT !.at = "writing", !.ok = FALSE]
  <2>1. d \in CustodyCalls /\ d.op = c.op /\ d.on = c.on /\ d.at = "writing"
    BY DEF CustodyCalls, CustodyStages
  <2>2. Now(k, d)
    BY <1>2
  <2> HIDE DEF d
  <2> QED
    BY <2>1, <2>2, <1>2
<1> QED
  BY <1>1, <1>2 DEF AskGraph

\* The same step keeps the invariant.
LEMMA AskGraphKeeps ==
  ASSUME CInv, NEW k \in Calls, AskGraph(k)
  PROVE  Advances
<1>1. PICK c \in CustodyCalls : c = custodyCall[k] /\ CustodyCallFits(c)
  BY DEF CInv, CustodyTypeOK, CustodyCallsFit
<1>2. UNCHANGED <<active, bags, passports, available, graph>> /\ (Working \/ Failing)
  BY DEF AskGraph
<1>3. c.op \in {"verify", "carbon"} /\ c.on \in 1..Len(passports)
  BY <1>1 DEF AskGraph, CustodyCallFits, PassportOps
<1>4. PICK d \in CustodyCalls : /\ Now(k, d) /\ d.op = c.op /\ d.on = c.on /\ d.at = "writing"
                                /\ d.ok = c.ok \/ Failing
  BY <1>1, AskGraphMoves
<1>5. faults \in Nat /\ faults' \in Nat /\ faults <= faults'
  BY <1>2, Lengths, CustodyBudgetKept DEF CInv, CustodyTypeOK
<1>6. ~ d.ok => faults' > 0
  <2>1. CASE Failing
    BY <2>1, <1>5 DEF Failing
  <2>2. CASE d.ok = c.ok
    BY <2>2, <1>1, <1>3, <1>5 DEF CustodyCallFits
  <2> QED
    BY <2>1, <2>2, <1>4
<1>7. CustodyCallFits(d)'
  BY <1>2, <1>3, <1>4, <1>6 DEF CustodyCallFits, BagOps, PassportOps
<1> QED
  BY <1>2, <1>4, <1>7, CustodyQuietKeeps

\* RecycleGraph is told, or not.
LEMMA TellMoves ==
  ASSUME CInv, NEW k \in Calls, TellGraph(k), NEW c \in CustodyCalls, c = custodyCall[k]
  PROVE  /\ c.recycle = passports[c.on].recycle /\ c.recycle \in 1..Len(graph)
         /\ graph' \in Seq(SUBSET Nat) /\ Len(graph') = Len(graph)
         /\ \A n \in 1..Len(graph) : graph[n] \subseteq graph'[n]
         /\ Failing \/ c.request \in graph'[c.recycle]
<1>1. c.op = "custody" /\ c.at = "telling" /\ CustodyCallFits(c)
  BY DEF TellGraph, Waiting, CInv, CustodyCallsFit
<1>2. c.recycle = passports[c.on].recycle /\ c.recycle # 0 /\ c.on \in 1..Len(passports)
  BY <1>1 DEF CustodyCallFits, PassportOps
<1>3. c.recycle \in 1..Len(graph)
  BY <1>2 DEF CInv, RowsFit
<1>4. graph \in Seq(SUBSET Nat) /\ c.request \in Nat
  BY DEF CInv, CustodyTypeOK, CustodyCalls
<1>5. PICK told \in SUBSET Nat : told = graph[c.recycle] \cup {c.request}
  <2>1. PICK old \in SUBSET Nat : old = graph[c.recycle]
    BY <1>3, <1>4
  <2>2. old \cup {c.request} \in SUBSET Nat
    BY <1>4
  <2> QED
    BY <2>1, <2>2
<1>6. \/ graph' = graph /\ Failing
      \/ graph' = [graph EXCEPT ![c.recycle] = told]
  BY <1>5 DEF TellGraph
<1>7. CASE graph' = [graph EXCEPT ![c.recycle] = told]
  BY <1>2, <1>3, <1>4, <1>5, <1>7
<1>8. CASE graph' = graph /\ Failing
  BY <1>2, <1>3, <1>4, <1>8
<1> QED
  BY <1>6, <1>7, <1>8

\* The same step keeps the invariant.
LEMMA TellKeeps ==
  ASSUME CInv, NEW k \in Calls, TellGraph(k)
  PROVE  Advances
<1>1. PICK c \in CustodyCalls : c = custodyCall[k]
  BY DEF CInv, CustodyTypeOK
<1>2. graph' \in Seq(SUBSET Nat) /\ Len(graph') = Len(graph)
  BY <1>1, TellMoves
<1>3. Finish(k) /\ UNCHANGED <<active, bags, passports, available>> /\ (Working \/ Failing)
  BY DEF TellGraph
<1>4. Grows
  BY <1>2, <1>3, Lengths, CustodyBudgetKept DEF Grows, CInv, CustodyTypeOK
<1>5. RowsFit'
  BY <1>2, <1>3 DEF RowsFit, CInv
<1> QED
  BY <1>2, <1>3, <1>4, <1>5, CustodyNobodyFits, CustodyNobodyFitsNext, CustodyStepKeeps
  DEF Finish, CInv, CustodyTypeOK

-----------------------------------------------------------------------------
(* The invariant.                                                          *)

\* A failed access to the database ends the request, a restart all of them.
LEMMA TroubleKeeps ==
  ASSUME CInv, RestartCustody \/ \E k \in Calls : CustodyDatabaseFails(k)
  PROVE  Advances
<1>1. ASSUME NEW k \in Calls, CustodyDatabaseFails(k) PROVE Advances
  BY <1>1, FinishKeeps DEF CustodyDatabaseFails
<1>2. ASSUME RestartCustody PROVE Advances
  <2>1. UNCHANGED <<active, bags, passports, available, graph>> /\ Crashing
    BY <1>2 DEF RestartCustody
  <2>2. BudgetOK'
    BY <2>1, CustodyBudgetKept DEF CInv, CustodyTypeOK
  <2>3. custodyCall' = [j \in Calls |-> NoCustodyCall]
    BY <1>2 DEF RestartCustody
  <2>4. custodyCall' \in [Calls -> CustodyCalls]
    BY <2>3, CustodyNobodyFits
  <2>5. CustodyTypeOK'
    BY <2>1, <2>2, <2>4 DEF CInv, CustodyTypeOK
  <2>6. CustodyCallsFit'
    BY <2>3 DEF CustodyCallsFit, CustodyCallFits, NoCustodyCall, BagOps, PassportOps
  <2>7. RowsFit'
    BY <2>1 DEF RowsFit, CInv
  <2>8. Grows
    BY <2>1, Lengths, CustodyBudgetKept DEF Grows, CInv, CustodyTypeOK
  <2> QED
    BY <2>5, <2>6, <2>7, <2>8 DEF CInv, Advances
<1> QED
  BY <1>1, <1>2

\* It holds at the start.
LEMMA CInvAtStart == CustodyInit => CInv
<1> SUFFICES ASSUME CustodyInit PROVE CInv
  OBVIOUS
<1>1. PICK b \in Bags \cup {Nil} : b = NewBag(FALSE)
  BY NewBagIsOne
<1>2. bags \in Seq(Bags \cup {Nil})
  <2>1. <<b>> \in Seq(Bags \cup {Nil})
    OBVIOUS
  <2> QED
    BY <1>1, <2>1 DEF CustodyInit
<1>3. custodyCall \in [Calls -> CustodyCalls]
  BY CustodyNobodyFits DEF CustodyInit
<1>4. CustodyTypeOK
  <2>1. BudgetOK
    BY DEF CustodyInit, BudgetInit, BudgetOK
  <2>2. active \in [Points -> BOOLEAN] /\ available \in BOOLEAN
    BY DEF CustodyInit
  <2>3. passports \in Seq(Passports) /\ graph \in Seq(SUBSET Nat)
    BY DEF CustodyInit
  <2> QED
    BY <1>2, <1>3, <2>1, <2>2, <2>3 DEF CustodyTypeOK
<1>5. CustodyCallsFit
  BY CustodyNobodyFits DEF CustodyInit, CustodyCallsFit
<1>6. RowsFit
  BY DEF CustodyInit, RowsFit
<1> QED
  BY <1>4, <1>5, <1>6 DEF CInv

\* It is kept by every step of a request.
LEMMA RequestsAdvance ==
  ASSUME CInv, NEW k \in Calls,
         Collecting(k) \/ Locating(k) \/ Documenting(k) \/ CustodyDatabaseFails(k)
  PROVE  Advances
<1>1. CASE CustodyDatabaseFails(k)
  BY <1>1, TroubleKeeps
<1>2. CASE Collecting(k)
  <2>1. CASE \E n \in 1..Len(bags) :
               VerifyBag(k, n) \/ DeleteBag(k, n) \/ UploadImages(k, n) \/ CreatePassport(k, n)
    <3>1. PICK n \in 1..Len(bags) :
            VerifyBag(k, n) \/ DeleteBag(k, n) \/ UploadImages(k, n) \/ CreatePassport(k, n)
      BY <2>1
    <3>2. PICK op \in BagOps : About(k, op, n, FALSE)
      BY <3>1 DEF VerifyBag, DeleteBag, UploadImages, CreatePassport, BagOps
    <3>3. n \in Nat /\ op \notin PassportOps
      BY DEF BagOps, PassportOps
    <3> QED
      BY <3>2, <3>3, AboutKeeps
  <2> QED
    BY <2>1, <1>2, RecordKeeps, CountKeeps, FindKeeps, AddBagKeeps, ReadBagKeeps, WriteBagKeeps
    DEF Collecting
<1>3. CASE Locating(k)
  BY <1>3, PointKeeps, WritePointKeeps DEF Locating
<1>4. CASE Documenting(k)
  <2>1. CASE \E n \in 1..Len(passports) :
               UpdateCustody(k, n) \/ VerifyPassport(k, n) \/ CalculateCarbonCredits(k, n)
    <3>1. PICK n \in 1..Len(passports) :
            UpdateCustody(k, n) \/ VerifyPassport(k, n) \/ CalculateCarbonCredits(k, n)
      BY <2>1
    <3>2. PICK op \in PassportOps : About(k, op, n, TRUE)
      BY <3>1 DEF UpdateCustody, VerifyPassport, CalculateCarbonCredits, PassportOps
    <3>3. n \in Nat /\ op \notin BagOps
      BY DEF BagOps, PassportOps
    <3> QED
      BY <3>2, <3>3, AboutKeeps
  <2> QED
    BY <2>1, <1>4, CreateKeeps, AddPassportKeeps, LinkKeeps, ReadPassportKeeps, WriteCustodyKeeps,
       TellKeeps, AskGraphKeeps, WriteAnswerKeeps
    DEF Documenting
<1> QED
  BY <1>1, <1>2, <1>3, <1>4

\* It is kept by every step.
LEMMA CInvKept == CInv /\ [CustodyNext]_custodyVars => CInv'
<1> SUFFICES ASSUME CInv, [CustodyNext]_custodyVars PROVE CInv'
  OBVIOUS
<1>1. CASE UNCHANGED custodyVars
  BY <1>1 DEF custodyVars, custodyState, budgetVars, CInv, CustodyTypeOK, BudgetOK, RowsFit,
     CustodyCallsFit, CustodyCallFits
<1>2. CASE RestartCustody
  BY <1>2, TroubleKeeps DEF Advances
<1>3. ASSUME NEW k \in Calls,
             Collecting(k) \/ Locating(k) \/ Documenting(k) \/ CustodyDatabaseFails(k)
      PROVE  CInv'
  BY <1>3, RequestsAdvance DEF Advances
<1> QED
  BY <1>1, <1>2, <1>3 DEF CustodyNext

\* The inductive invariant holds in every state of every execution.
THEOREM CustodyInvariant == CustodySpec => []CInv
BY CInvAtStart, CInvKept, PTL DEF CustodySpec

\* Every variable keeps its type (CustodyTypeOK).
THEOREM CustodyTypes == CustodySpec => []CustodyTypeOK
<1>1. CInv => CustodyTypeOK
  BY DEF CInv
<1> QED
  BY <1>1, CustodyInvariant, PTL

-----------------------------------------------------------------------------
(* What a step may take away.                                              *)

\* The steps that write a passport.
LEMMA PassportSteps ==
  ASSUME NEW k \in Calls,
         Collecting(k) \/ Locating(k) \/ Documenting(k) \/ CustodyDatabaseFails(k)
  PROVE  \/ passports' = passports
         \/ AddPassport(k) \/ WriteCustody(k)
         \/ WriteVerification(k) \/ WriteCarbonCredits(k)
<1>1. CASE CustodyDatabaseFails(k) \/ Locating(k)
  BY <1>1 DEF CustodyDatabaseFails, Locating, UpdateCollectionPoint,
     DeleteCollectionPoint, VerifyCollectionPoint, WritePoint, Demand
<1>2. CASE Collecting(k)
  BY <1>2 DEF Collecting, RecordCollection, VerifyBag, DeleteBag, UploadImages, CreatePassport,
     About, Demand, EnsureDemoData, CountQueue, OnlyReads, FindPoint, AddBag, WriteBags, ReadBag,
     WriteVerdict, RemoveBag, AddImages, UpdateBag
<1>3. CASE Documenting(k)
  BY <1>3 DEF Documenting, UpdateCustody, VerifyPassport, CalculateCarbonCredits, About, Demand,
     CreateMaterialPassport, LinkPassport, WriteBags, ReadPassport, OnlyReads, TellGraph, AskGraph
<1> QED
  BY <1>1, <1>2, <1>3

\* The same of every step.
LEMMA PassportsChange ==
  ASSUME [CustodyNext]_custodyVars
  PROVE  \/ passports' = passports
         \/ \E k \in Calls : \/ AddPassport(k) \/ WriteCustody(k)
                             \/ WriteVerification(k) \/ WriteCarbonCredits(k)
<1>1. CASE UNCHANGED custodyVars \/ RestartCustody
  BY <1>1 DEF custodyVars, custodyState, RestartCustody
<1> QED
  BY <1>1, PassportSteps DEF CustodyNext

\* The steps that write a collection.
LEMMA BagSteps ==
  ASSUME NEW k \in Calls,
         Collecting(k) \/ Locating(k) \/ Documenting(k) \/ CustodyDatabaseFails(k)
  PROVE  \/ bags' = bags
         \/ AddBag(k) \/ WriteVerdict(k) \/ RemoveBag(k) \/ AddImages(k)
         \/ LinkPassport(k)
<1>1. CASE CustodyDatabaseFails(k) \/ Locating(k)
  BY <1>1 DEF CustodyDatabaseFails, Locating, UpdateCollectionPoint,
     DeleteCollectionPoint, VerifyCollectionPoint, WritePoint, Demand
<1>2. CASE Collecting(k)
  BY <1>2 DEF Collecting, RecordCollection, VerifyBag, DeleteBag, UploadImages, CreatePassport,
     About, Demand, EnsureDemoData, CountQueue, OnlyReads, FindPoint, ReadBag
<1>3. CASE Documenting(k)
  BY <1>3 DEF Documenting, UpdateCustody, VerifyPassport, CalculateCarbonCredits, About, Demand,
     CreateMaterialPassport, AddPassport, ReadPassport, OnlyReads, TellGraph, AskGraph,
     WriteCustody, WriteVerification, WriteCarbonCredits, WritePassport
<1> QED
  BY <1>1, <1>2, <1>3

\* The same of every step.
LEMMA BagsChange ==
  ASSUME [CustodyNext]_custodyVars
  PROVE  \/ bags' = bags
         \/ \E k \in Calls : \/ AddBag(k) \/ WriteVerdict(k) \/ RemoveBag(k) \/ AddImages(k)
                             \/ LinkPassport(k)
<1>1. CASE UNCHANGED custodyVars \/ RestartCustody
  BY <1>1 DEF custodyVars, custodyState, RestartCustody
<1> QED
  BY <1>1, BagSteps DEF CustodyNext

\* A passport that a request writes, field by field.
LEMMA PassportFields ==
  ASSUME CInv, NEW k \in Calls, NEW c \in CustodyCalls, c = custodyCall[k],
         NEW n \in 1..Len(passports)
  PROVE  /\ WriteCustody(k) =>
              /\ passports'[n].verified = passports[n].verified
              /\ passports'[n].carbon = passports[n].carbon
              /\ passports'[n].chain = IF n = c.on THEN Append(c.list, c.request)
                                       ELSE passports[n].chain
         /\ WriteVerification(k) =>
              /\ passports'[n].verified = (IF n = c.on THEN c.ok ELSE passports[n].verified)
              /\ passports'[n].carbon = passports[n].carbon
              /\ passports'[n].chain = passports[n].chain
         /\ WriteCarbonCredits(k) =>
              /\ passports'[n].verified = passports[n].verified
              /\ passports'[n].carbon = (IF n # c.on THEN passports[n].carbon
                                         ELSE IF c.ok THEN "figure" ELSE "zero")
              /\ passports'[n].chain = passports[n].chain
         /\ AddPassport(k) => passports'[n] = passports[n]
<1>1. AddPassport(k) => passports'[n] = passports[n]
  BY AddPassportMoves
<1>2. passports \in Seq(Passports) /\ passports[n] \in Passports
  BY DEF CInv, CustodyTypeOK
<1>3. ASSUME NEW row, WritePassport(k, row), custodyCall[k].op \in PassportOps
      PROVE  passports'[n] = IF n = c.on THEN row ELSE passports[n]
  <2>1. passports' = [passports EXCEPT ![c.on] = row]
    BY <1>3 DEF WritePassport
  <2> QED
    BY <2>1, <1>2
<1>4. ASSUME WriteCustody(k)
      PROVE  /\ passports'[n].verified = passports[n].verified
             /\ passports'[n].carbon = passports[n].carbon
             /\ passports'[n].chain = IF n = c.on THEN Append(c.list, c.request)
                                      ELSE passports[n].chain
  <2> DEFINE row == [PassportOf(k) EXCEPT !.chain = Append(c.list, c.request)]
  <2>1. custodyCall[k].op \in PassportOps /\ WritePassport(k, row)
    BY <1>4 DEF WriteCustody, Waiting, PassportOps
  <2>2. PassportOf(k) \in Passports /\ PassportOf(k) = passports[c.on]
    BY <2>1, PassportThere
  <2>3. row.verified = PassportOf(k).verified /\ row.carbon = PassportOf(k).carbon
        /\ row.chain = Append(c.list, c.request)
    BY <2>2 DEF Passports
  <2> HIDE DEF row
  <2> QED
    BY <1>3, <2>1, <2>2, <2>3
<1>5. ASSUME WriteVerification(k)
      PROVE  /\ passports'[n].verified = (IF n = c.on THEN c.ok ELSE passports[n].verified)
             /\ passports'[n].carbon = passports[n].carbon
             /\ passports'[n].chain = passports[n].chain
  <2> DEFINE row == [PassportOf(k) EXCEPT !.verified = c.ok]
  <2>1. custodyCall[k].op \in PassportOps /\ WritePassport(k, row)
    BY <1>5 DEF WriteVerification, Waiting, PassportOps
  <2>2. PassportOf(k) \in Passports /\ PassportOf(k) = passports[c.on]
    BY <2>1, PassportThere
  <2>3. row.verified = c.ok /\ row.carbon = PassportOf(k).carbon
        /\ row.chain = PassportOf(k).chain
    BY <2>2 DEF Passports
  <2> HIDE DEF row
  <2> QED
    BY <1>3, <2>1, <2>2, <2>3
<1>6. ASSUME WriteCarbonCredits(k)
      PROVE  /\ passports'[n].verified = passports[n].verified
             /\ passports'[n].carbon = (IF n # c.on THEN passports[n].carbon
                                        ELSE IF c.ok THEN "figure" ELSE "zero")
             /\ passports'[n].chain = passports[n].chain
  <2> DEFINE row == [PassportOf(k) EXCEPT !.carbon = IF c.ok THEN "figure" ELSE "zero"]
  <2>1. custodyCall[k].op \in PassportOps /\ WritePassport(k, row)
    BY <1>6 DEF WriteCarbonCredits, Waiting, PassportOps
  <2>2. PassportOf(k) \in Passports /\ PassportOf(k) = passports[c.on]
    BY <2>1, PassportThere
  <2>3. row.verified = PassportOf(k).verified /\ row.chain = PassportOf(k).chain
        /\ row.carbon = IF c.ok THEN "figure" ELSE "zero"
    BY <2>2 DEF Passports
  <2> HIDE DEF row
  <2> QED
    BY <1>3, <2>1, <2>2, <2>3
<1> QED
  BY <1>1, <1>4, <1>5, <1>6

\* A passport loses its verification or its figure only after RecycleGraph failed, in every
\* instance (RevokedByOutageOnly): an answer other than yes is one of a failure.
THEOREM RevocationsFollowOutages == CustodySpec => RevokedByOutageOnly
<1> DEFINE Kept ==
      \A n \in 1..Len(passports) :
        (\/ passports[n].verified /\ ~ passports'[n].verified
         \/ passports[n].carbon = "figure" /\ passports'[n].carbon # "figure")
        => faults > 0
<1>1. CInv /\ [CustodyNext]_custodyVars => Kept
  <2> SUFFICES ASSUME CInv, [CustodyNext]_custodyVars, NEW n \in 1..Len(passports),
                      \/ passports[n].verified /\ ~ passports'[n].verified
                      \/ passports[n].carbon = "figure" /\ passports'[n].carbon # "figure"
               PROVE  faults > 0
    OBVIOUS
  <2>1. PICK k \in Calls : \/ AddPassport(k) \/ WriteCustody(k)
                           \/ WriteVerification(k) \/ WriteCarbonCredits(k)
    BY PassportsChange
  <2>2. PICK c \in CustodyCalls : c = custodyCall[k] /\ CustodyCallFits(c)
    BY DEF CInv, CustodyTypeOK, CustodyCallsFit
  <2>3. CASE AddPassport(k) \/ WriteCustody(k)
    BY <2>2, <2>3, PassportFields
  <2>4. CASE WriteVerification(k)
    BY <2>2, <2>4, PassportFields DEF WriteVerification, Waiting, CustodyCallFits
  <2>5. CASE WriteCarbonCredits(k)
    BY <2>2, <2>5, PassportFields DEF WriteCarbonCredits, Waiting, CustodyCallFits
  <2> QED
    BY <2>1, <2>3, <2>4, <2>5
<1>2. CInv /\ [CustodyNext]_custodyVars => [Kept]_custodyVars
  BY <1>1
<1> QED
  BY <1>2, CustodyInvariant, PTL DEF CustodySpec, RevokedByOutageOnly, Kept

\* What a list that is appended to has.
LEMMA Appended ==
  ASSUME NEW list \in Seq(Nat), NEW i \in Nat
  PROVE  ToSet(Append(list, i)) = ToSet(list) \cup {i}
<1>1. /\ Len(list) \in Nat /\ Len(Append(list, i)) = Len(list) + 1
      /\ \A m \in 1..Len(list) : Append(list, i)[m] = list[m]
      /\ Append(list, i)[Len(list) + 1] = i
  OBVIOUS
<1>2. ToSet(Append(list, i)) \subseteq ToSet(list) \cup {i}
  BY <1>1 DEF ToSet
<1>3. ToSet(list) \subseteq ToSet(Append(list, i)) /\ i \in ToSet(Append(list, i))
  BY <1>1 DEF ToSet
<1> QED
  BY <1>2, <1>3

\* A collection that a request writes, field by field.
LEMMA BagFields ==
  ASSUME CInv, NEW k \in Calls, NEW c \in CustodyCalls, c = custodyCall[k],
         WriteVerdict(k) \/ RemoveBag(k) \/ AddImages(k) \/ LinkPassport(k)
  PROVE  /\ Len(bags') = Len(bags)
         /\ \A n \in 1..Len(bags) :
              /\ n # c.on \/ bags[n] = Nil => bags'[n] = bags[n]
              /\ bags[n] # Nil /\ bags'[n] # Nil =>
                   /\ bags'[n].demo = bags[n].demo
                   /\ bags[n].verified => bags'[n].verified
                   /\ bags'[n].passport = IF LinkPassport(k) /\ n = c.on THEN c.todo
                                          ELSE bags[n].passport
                   /\ bags'[n].images = IF AddImages(k) /\ n = c.on THEN Append(c.list, c.request)
                                        ELSE bags[n].images
<1> DEFINE Goal ==
      /\ Len(bags') = Len(bags)
      /\ \A n \in 1..Len(bags) :
           /\ n # c.on \/ bags[n] = Nil => bags'[n] = bags[n]
           /\ bags[n] # Nil /\ bags'[n] # Nil =>
                /\ bags'[n].demo = bags[n].demo
                /\ bags[n].verified => bags'[n].verified
                /\ bags'[n].passport = IF LinkPassport(k) /\ n = c.on THEN c.todo
                                       ELSE bags[n].passport
                /\ bags'[n].images = IF AddImages(k) /\ n = c.on THEN Append(c.list, c.request)
                                     ELSE bags[n].images
<1>1. custodyCall[k].op \in BagOps
  BY DEF WriteVerdict, RemoveBag, AddImages, LinkPassport, UpdateBag, Waiting, BagOps
<1>2. /\ c.on \in 1..Len(bags) /\ BagOf(k) = bags[c.on] /\ (BagOf(k) # Nil => BagOf(k) \in Bags)
      /\ bags \in Seq(Bags \cup {Nil})
  BY <1>1, BagThere DEF BagOf, CInv, CustodyTypeOK
<1>3. ASSUME NEW row, bags' = IF BagOf(k) = Nil THEN bags ELSE [bags EXCEPT ![c.on] = row]
      PROVE  /\ Len(bags') = Len(bags)
             /\ \A n \in 1..Len(bags) :
                  bags'[n] = IF n # c.on \/ bags[n] = Nil THEN bags[n] ELSE row
  BY <1>2, <1>3
<1>4. CASE WriteVerdict(k)
  <2> DEFINE row == [BagOf(k) EXCEPT !.verified = TRUE]
  <2>1. bags' = IF BagOf(k) = Nil THEN bags ELSE [bags EXCEPT ![c.on] = row]
    BY <1>4 DEF WriteVerdict, UpdateBag
  <2>2. BagOf(k) # Nil =>
          /\ row.verified = TRUE /\ row.demo = BagOf(k).demo
          /\ row.passport = BagOf(k).passport /\ row.images = BagOf(k).images
    BY <1>2 DEF Bags
  <2>3. ~ LinkPassport(k) /\ ~ AddImages(k)
    BY <1>4 DEF WriteVerdict, LinkPassport, AddImages, UpdateBag, Waiting
  <2> HIDE DEF row
  <2> QED
    BY <1>2, <1>3, <2>1, <2>2, <2>3
<1>5. CASE RemoveBag(k)
  <2>1. bags' = IF BagOf(k) = Nil THEN bags ELSE [bags EXCEPT ![c.on] = Nil]
    BY <1>5 DEF RemoveBag, UpdateBag
  <2>2. ~ LinkPassport(k) /\ ~ AddImages(k)
    BY <1>5 DEF RemoveBag, LinkPassport, AddImages, UpdateBag, Waiting
  <2> QED
    BY <1>2, <1>3, <2>1, <2>2
<1>6. CASE AddImages(k)
  <2> DEFINE row == [BagOf(k) EXCEPT !.images = Append(c.list, c.request)]
  <2>1. bags' = IF BagOf(k) = Nil THEN bags ELSE [bags EXCEPT ![c.on] = row]
    BY <1>6 DEF AddImages, UpdateBag
  <2>2. BagOf(k) # Nil =>
          /\ row.verified = BagOf(k).verified /\ row.demo = BagOf(k).demo
          /\ row.passport = BagOf(k).passport /\ row.images = Append(c.list, c.request)
    BY <1>2 DEF Bags
  <2>3. ~ LinkPassport(k)
    BY <1>6 DEF LinkPassport, AddImages, UpdateBag, Waiting
  <2> HIDE DEF row
  <2>4. /\ Len(bags') = Len(bags)
        /\ \A n \in 1..Len(bags) :
             bags'[n] = IF n # c.on \/ bags[n] = Nil THEN bags[n] ELSE row
    BY <1>3, <2>1
  <2> QED
    BY <1>2, <1>6, <2>2, <2>3, <2>4
<1>7. CASE LinkPassport(k)
  <2> DEFINE row == [BagOf(k) EXCEPT !.passport = c.todo]
  <2>1. bags' = IF BagOf(k) = Nil THEN bags ELSE [bags EXCEPT ![c.on] = row]
    BY <1>7 DEF LinkPassport, WriteBags, BagOf
  <2>2. BagOf(k) # Nil =>
          /\ row.verified = BagOf(k).verified /\ row.demo = BagOf(k).demo
          /\ row.passport = c.todo /\ row.images = BagOf(k).images
    BY <1>2 DEF Bags
  <2>3. ~ AddImages(k)
    BY <1>7 DEF LinkPassport, AddImages, UpdateBag, Waiting
  <2> HIDE DEF row
  <2> QED
    BY <1>2, <1>3, <1>7, <2>1, <2>2, <2>3
<1> QED
  BY <1>4, <1>5, <1>6, <1>7

\* A collection is recorded at the end.
LEMMA AddBagAtEnd ==
  ASSUME CInv, NEW k \in Calls, AddBag(k)
  PROVE  /\ Len(bags') = Len(bags) + 1
         /\ \A n \in 1..Len(bags) : bags'[n] = bags[n]
         /\ bags'[Len(bags) + 1] = NewBag(custodyCall[k].op = "topUp")
<1>1. PICK b \in Bags \cup {Nil} : b = NewBag(custodyCall[k].op = "topUp")
  BY NewBagIsOne
<1>2. bags \in Seq(Bags \cup {Nil}) /\ bags' = Append(bags, b)
  BY <1>1 DEF AddBag, WriteBags, CInv, CustodyTypeOK
<1> QED
  BY <1>1, <1>2

\* An image, or an entry of a chain of custody, is lost only to a request of its own kind that
\* read the list before it was there, or with the collection (LostToOverlapOnly).
THEOREM LossesAreOverlaps == CustodySpec => LostToOverlapOnly
<1> DEFINE ImagesKept ==
             \A n \in 1..Len(bags) :
               bags[n] # Nil /\ bags'[n] # Nil =>
                 \A i \in Dropped(bags[n].images, bags'[n].images) :
                   \E k \in Calls : /\ Waiting(k, "images", "writing")
                                    /\ i \notin ToSet(custodyCall[k].list)
           ChainsKept ==
             \A n \in 1..Len(passports) :
               \A i \in Dropped(passports[n].chain, passports'[n].chain) :
                 \E k \in Calls : /\ Waiting(k, "custody", "writing")
                                  /\ i \notin ToSet(custodyCall[k].list)
           Kept ==
             /\ \A n \in 1..Len(bags) :
                  bags[n] # Nil /\ bags'[n] # Nil =>
                    \A i \in Dropped(bags[n].images, bags'[n].images) :
                      \E k \in Calls :
                        Waiting(k, "images", "writing") /\ i \notin ToSet(custodyCall[k].list)
             /\ \A n \in 1..Len(passports) :
                  \A i \in Dropped(passports[n].chain, passports'[n].chain) :
                    \E k \in Calls :
                      Waiting(k, "custody", "writing") /\ i \notin ToSet(custodyCall[k].list)
<1>1. CInv /\ [CustodyNext]_custodyVars => ImagesKept
  <2> SUFFICES ASSUME CInv, [CustodyNext]_custodyVars, NEW n \in 1..Len(bags),
                      bags[n] # Nil, bags'[n] # Nil,
                      NEW i \in Dropped(bags[n].images, bags'[n].images)
               PROVE  \E k \in Calls : /\ Waiting(k, "images", "writing")
                                       /\ i \notin ToSet(custodyCall[k].list)
    OBVIOUS
  <2>1. bags'[n].images # bags[n].images
    BY DEF Dropped
  <2>2. PICK k \in Calls : \/ AddBag(k) \/ WriteVerdict(k) \/ RemoveBag(k) \/ AddImages(k)
                           \/ LinkPassport(k)
    BY <2>1, BagsChange
  <2>3. ~ AddBag(k)
    BY <2>1, AddBagAtEnd
  <2>4. PICK c \in CustodyCalls : c = custodyCall[k]
    BY DEF CInv, CustodyTypeOK
  <2>5. AddImages(k) /\ bags'[n].images = Append(c.list, c.request)
    <3>1. WriteVerdict(k) \/ RemoveBag(k) \/ AddImages(k) \/ LinkPassport(k)
      BY <2>2, <2>3
    <3>2. bags'[n].images = IF AddImages(k) /\ n = c.on THEN Append(c.list, c.request)
                            ELSE bags[n].images
      BY <2>4, <3>1, BagFields
    <3> QED
      BY <2>1, <3>2
  <2>6. c.list \in Seq(Nat) /\ c.request \in Nat
    BY DEF CustodyCalls
  <2>7. i \notin ToSet(c.list)
    BY <2>5, <2>6, Appended DEF Dropped
  <2> QED
    BY <2>4, <2>5, <2>7 DEF AddImages, UpdateBag
<1>2. CInv /\ [CustodyNext]_custodyVars => ChainsKept
  <2> SUFFICES ASSUME CInv, [CustodyNext]_custodyVars, NEW n \in 1..Len(passports),
                      NEW i \in Dropped(passports[n].chain, passports'[n].chain)
               PROVE  \E k \in Calls : /\ Waiting(k, "custody", "writing")
                                       /\ i \notin ToSet(custodyCall[k].list)
    OBVIOUS
  <2>1. passports'[n].chain # passports[n].chain
    BY DEF Dropped
  <2>2. PICK k \in Calls : \/ AddPassport(k) \/ WriteCustody(k)
                           \/ WriteVerification(k) \/ WriteCarbonCredits(k)
    BY <2>1, PassportsChange
  <2>3. PICK c \in CustodyCalls : c = custodyCall[k]
    BY DEF CInv, CustodyTypeOK
  <2>4. WriteCustody(k) /\ passports'[n].chain = Append(c.list, c.request)
    BY <2>1, <2>2, <2>3, PassportFields
  <2>5. c.list \in Seq(Nat) /\ c.request \in Nat
    BY DEF CustodyCalls
  <2>6. i \notin ToSet(c.list)
    BY <2>4, <2>5, Appended DEF Dropped
  <2> QED
    BY <2>3, <2>4, <2>6 DEF WriteCustody
<1>3. CInv /\ [CustodyNext]_custodyVars => [Kept]_custodyVars
  BY <1>1, <1>2
<1> QED
  BY <1>3, CustodyInvariant, PTL DEF CustodySpec, LostToOverlapOnly, Kept

-----------------------------------------------------------------------------
(* Where a request may come from.                                          *)

\* From what c is, a step of the request k makes d.
Follows(k, c, d) ==
  /\ d.op = "custody" /\ d.at = "writing" => ReadPassport(k)
  /\ c.op = "custody" /\ c.at = "telling" => TellGraph(k)
  /\ d.op = "passport" /\ d.at \in {"asking", "adding"} =>
       /\ c.op = "passport" /\ d.on = c.on
       /\ c.at = "asking" \/ (bags[c.on] # Nil /\ bags[c.on].passport = 0)
  /\ c.op = "passport" /\ c.at = "linking" => d.op = "none" /\ (LinkPassport(k) \/ Failing)
  /\ d.op = "topUp" /\ d.at # "counting" =>
       \/ CountQueue(k) /\ d.todo + Cardinality(Pending) = DemoSize
       \/ AddBag(k) /\ c.op = "topUp" /\ c.at = "adding" /\ d.todo = c.todo - 1
       \/ c.op = "topUp" /\ c.at = "locating" /\ d.todo = c.todo

\* A request that ends follows any but those that have something to do yet.
LEMMA EndFollows ==
  ASSUME NEW k, NEW c, c.op = "custody" => c.at # "telling" \/ TellGraph(k),
         c.op = "passport" => c.at # "linking" \/ LinkPassport(k) \/ Failing
  PROVE  Follows(k, c, NoCustodyCall)
BY Nobody DEF Follows

\* A request that arrives follows nothing.
LEMMA ArrivalFollows ==
  ASSUME CInv, NEW k \in Calls, NEW c \in CustodyCalls, c = custodyCall[k],
         \/ EnsureDemoData(k) \/ \E p \in Points : RecordCollection(k, p)
         \/ \E p \in Points : \/ UpdateCollectionPoint(k, p) \/ DeleteCollectionPoint(k, p)
                              \/ VerifyCollectionPoint(k, p)
         \/ \E op \in BagOps \cup PassportOps, n \in Nat, ok \in BOOLEAN : About(k, op, n, ok)
  PROVE  \E d \in CustodyCalls : Now(k, d) /\ Follows(k, c, d)
<1>1. ASSUME NEW e \in CustodyCalls, Demand(k, e),
             \/ e.at = "reading" /\ e.op # "topUp"
             \/ e.op \in {"point", "record"} \/ e.at = "counting"
      PROVE  \E d \in CustodyCalls : Now(k, d) /\ Follows(k, c, d)
  <2>1. PICK d \in CustodyCalls : Now(k, d) /\ d.at = e.at /\ d.op = e.op
    BY <1>1, DemandMoves DEF CInv
  <2>2. c.at = "idle"
    BY <1>1 DEF Demand
  <2>3. Follows(k, c, d)
    BY <1>1, <2>1, <2>2 DEF Follows
  <2> QED
    BY <2>1, <2>3
<1>2. ASSUME NEW op \in BagOps \cup PassportOps, NEW n \in Nat, NEW ok \in BOOLEAN,
             About(k, op, n, ok)
      PROVE  \E d \in CustodyCalls : Now(k, d) /\ Follows(k, c, d)
  <2> DEFINE e == [NoCustodyCall EXCEPT !.op = op, !.at = "reading", !.on = n, !.ok = ok]
  <2>1. op \in CustodyOps /\ op # "topUp" /\ "reading" \in CustodyStages
    BY DEF CustodyOps, CustodyStages, BagOps, PassportOps
  <2>2. e \in CustodyCalls /\ e.op = op /\ e.at = "reading"
    BY <2>1, Nobody DEF CustodyCalls
  <2>3. Demand(k, e)
    BY <1>2 DEF About
  <2> HIDE DEF e
  <2> QED
    BY <1>1, <2>1, <2>2, <2>3
<1>3. ASSUME NEW p \in Points, RecordCollection(k, p)
      PROVE  \E d \in CustodyCalls : Now(k, d) /\ Follows(k, c, d)
  <2> DEFINE e == [NoCustodyCall EXCEPT !.op = "record", !.at = "locating", !.point = p, !.todo = 1]
  <2>1. e \in CustodyCalls /\ e.op = "record"
    BY Nobody, ZenonT(40) DEF CustodyCalls, CustodyOps, CustodyStages
  <2>2. Demand(k, e)
    BY <1>3 DEF RecordCollection
  <2> HIDE DEF e
  <2> QED
    BY <1>1, <2>1, <2>2
<1>4. ASSUME EnsureDemoData(k)
      PROVE  \E d \in CustodyCalls : Now(k, d) /\ Follows(k, c, d)
  <2> DEFINE e == [NoCustodyCall EXCEPT !.op = "topUp", !.at = "counting"]
  <2>1. e \in CustodyCalls /\ e.at = "counting"
    BY Nobody, ZenonT(40) DEF CustodyCalls, CustodyOps, CustodyStages
  <2>2. Demand(k, e)
    BY <1>4 DEF EnsureDemoData
  <2> HIDE DEF e
  <2> QED
    BY <1>1, <2>1, <2>2
<1>5. ASSUME NEW p \in Points, NEW ok \in BOOLEAN,
             Demand(k, [NoCustodyCall EXCEPT !.op = "point", !.at = "writing", !.point = p,
                                             !.ok = ok])
      PROVE  \E d \in CustodyCalls : Now(k, d) /\ Follows(k, c, d)
  <2> DEFINE e == [NoCustodyCall EXCEPT !.op = "point", !.at = "writing", !.point = p, !.ok = ok]
  <2>1. e \in CustodyCalls /\ e.op = "point"
    BY Nobody, ZenonT(40) DEF CustodyCalls, CustodyOps, CustodyStages
  <2>2. Demand(k, e)
    BY <1>5
  <2> HIDE DEF e
  <2> QED
    BY <1>1, <2>1, <2>2
<1>6. ASSUME NEW p \in Points, DeleteCollectionPoint(k, p)
      PROVE  \E d \in CustodyCalls : Now(k, d) /\ Follows(k, c, d)
  <2> DEFINE e == [NoCustodyCall EXCEPT !.op = "point", !.at = "writing", !.point = p]
  <2>1. e \in CustodyCalls /\ e.op = "point"
    BY Nobody, ZenonT(40) DEF CustodyCalls, CustodyOps, CustodyStages
  <2>2. Demand(k, e)
    BY <1>6 DEF DeleteCollectionPoint
  <2> HIDE DEF e
  <2> QED
    BY <1>1, <2>1, <2>2
<1> QED
  BY <1>2, <1>3, <1>4, <1>5, <1>6 DEF UpdateCollectionPoint, VerifyCollectionPoint

\* A step about a collection or a point.
LEMMA BagStepFollows ==
  ASSUME CInv, NEW k \in Calls, NEW c \in CustodyCalls, c = custodyCall[k],
         \/ CountQueue(k) \/ FindPoint(k) \/ AddBag(k) \/ ReadBag(k)
         \/ WriteVerdict(k) \/ RemoveBag(k) \/ AddImages(k) \/ WritePoint(k)
  PROVE  \E d \in CustodyCalls : Now(k, d) /\ Follows(k, c, d)
<1>1. CustodyCallFits(c)
  BY DEF CInv, CustodyCallsFit
<1>2. c.at # "telling" /\ (c.op = "passport" => c.at # "linking")
  BY DEF CountQueue, FindPoint, AddBag, ReadBag, WriteVerdict, RemoveBag, AddImages, UpdateBag,
     WritePoint, Waiting
<1>3. CASE Finish(k)
  BY <1>2, <1>3, Nobody, EndFollows DEF Finish
<1>4. CASE CountQueue(k)
  <2>1. CASE \E d \in CustodyCalls : /\ Now(k, d) /\ d.op = "topUp" /\ d.at = "locating"
                                     /\ d.todo >= 1 /\ d.todo + Cardinality(Pending) = DemoSize
    <3>1. PICK d \in CustodyCalls : /\ Now(k, d) /\ d.op = "topUp" /\ d.at = "locating"
                                    /\ d.todo + Cardinality(Pending) = DemoSize
      BY <2>1
    <3>2. Follows(k, c, d)
      BY <3>1, <1>2, <1>4 DEF Follows
    <3> QED
      BY <3>1, <3>2
  <2> QED
    BY <2>1, <1>3, <1>4, CountMoves
<1>5. CASE FindPoint(k) /\ Continue(k, "adding")
  <2>1. PICK d \in CustodyCalls : Now(k, d) /\ d.at = "adding" /\ d.op = c.op /\ d.todo = c.todo
    BY <1>5, StageMoves DEF CInv, CustodyStages
  <2>2. c.at = "locating" /\ c.op \in {"record", "topUp"}
    BY <1>1, <1>5 DEF FindPoint, CustodyCallFits
  <2>3. Follows(k, c, d)
    BY <2>1, <2>2 DEF Follows
  <2> QED
    BY <2>1, <2>3
<1>6. CASE AddBag(k)
  <2>1. CASE \E d \in CustodyCalls : /\ Now(k, d) /\ d.op = c.op /\ d.at = "locating"
                                     /\ d.todo >= 1 /\ d.todo = c.todo - 1
    <3>1. PICK d \in CustodyCalls : /\ Now(k, d) /\ d.op = c.op /\ d.at = "locating"
                                    /\ d.todo = c.todo - 1
      BY <2>1
    <3>2. c.at = "adding" /\ c.op \in {"record", "topUp"}
      BY <1>6 DEF AddBag
    <3>3. Follows(k, c, d)
      BY <3>1, <3>2, <1>6 DEF Follows
    <3> QED
      BY <3>1, <3>3
  <2> QED
    BY <2>1, <1>3, <1>6, AddBagMoves
<1>7. CASE ReadBag(k)
  <2>1. CASE \E d \in CustodyCalls :
               /\ Now(k, d) /\ d.op = c.op /\ d.on = c.on /\ d.recycle = c.recycle
               /\ c.op # "passport" => d.at = "writing"
               /\ c.op = "passport" => /\ d.at = IF available THEN "asking" ELSE "adding"
                                       /\ bags[c.on] # Nil /\ bags[c.on].passport = 0
    <3>1. PICK d \in CustodyCalls :
               /\ Now(k, d) /\ d.op = c.op /\ d.on = c.on
               /\ c.op # "passport" => d.at = "writing"
               /\ c.op = "passport" => bags[c.on] # Nil /\ bags[c.on].passport = 0
      BY <2>1
    <3>2. c.at = "reading" /\ c.op \in BagOps
      BY <1>7 DEF ReadBag, BagOps
    <3>3. Follows(k, c, d)
      BY <3>1, <3>2 DEF Follows, BagOps
    <3> QED
      BY <3>1, <3>3
  <2> QED
    BY <2>1, <1>3, <1>7, ReadBagMoves
<1>8. CASE WriteVerdict(k) \/ RemoveBag(k) \/ AddImages(k)
  <2>1. CASE \E d \in CustodyCalls : /\ Now(k, d) /\ d.op = "review" /\ d.at = "counting"
                                     /\ d.on = c.on /\ c.op = "review"
    <3>1. PICK d \in CustodyCalls : /\ Now(k, d) /\ d.op = "review" /\ c.op = "review"
      BY <2>1
    <3>2. Follows(k, c, d)
      BY <3>1 DEF Follows
    <3> QED
      BY <3>1, <3>2
  <2>2. PICK op \in {"review", "delete", "images"} : \E row : UpdateBag(k, op, row)
    BY <1>8 DEF WriteVerdict, RemoveBag, AddImages
  <2>3. PICK row : UpdateBag(k, op, row)
    BY <2>2
  <2> QED
    BY <2>1, <2>3, <1>3, UpdateBagMoves
<1> QED
  BY <1>3, <1>4, <1>5, <1>6, <1>7, <1>8 DEF FindPoint, WritePoint

\* A step about a passport.
LEMMA PassportStepFollows ==
  ASSUME CInv, NEW k \in Calls, NEW c \in CustodyCalls, c = custodyCall[k],
         \/ CreateMaterialPassport(k) \/ AddPassport(k) \/ LinkPassport(k)
         \/ ReadPassport(k) \/ WriteCustody(k) \/ TellGraph(k)
         \/ AskGraph(k) \/ WriteVerification(k) \/ WriteCarbonCredits(k)
  PROVE  \E d \in CustodyCalls : Now(k, d) /\ Follows(k, c, d)
<1>1. CASE Finish(k)
  <2>1. c.op = "custody" => c.at # "telling" \/ TellGraph(k)
    BY DEF CreateMaterialPassport, AddPassport, LinkPassport, ReadPassport, WriteCustody, AskGraph,
       WriteVerification, WriteCarbonCredits, Waiting
  <2>2. c.op = "passport" => c.at # "linking" \/ LinkPassport(k)
    BY DEF CreateMaterialPassport, AddPassport, TellGraph, ReadPassport, WriteCustody, AskGraph,
       WriteVerification, WriteCarbonCredits, Waiting
  <2> QED
    BY <1>1, <2>1, <2>2, Nobody, EndFollows DEF Finish
<1>2. CASE CreateMaterialPassport(k)
  <2>1. PICK d \in CustodyCalls : Now(k, d) /\ d.op = "passport" /\ d.at = "adding" /\ d.on = c.on
    BY <1>2, CreateMoves
  <2>2. c.op = "passport" /\ c.at = "asking"
    BY <1>2 DEF CreateMaterialPassport, Waiting
  <2>3. Follows(k, c, d)
    BY <2>1, <2>2 DEF Follows
  <2> QED
    BY <2>1, <2>3
<1>3. CASE AddPassport(k)
  <2>1. PICK d \in CustodyCalls : Now(k, d) /\ d.op = "passport" /\ d.at = "linking"
    BY <1>3, AddPassportMoves
  <2>2. c.op = "passport" /\ c.at = "adding"
    BY <1>3 DEF AddPassport, Waiting
  <2>3. Follows(k, c, d)
    BY <2>1, <2>2 DEF Follows
  <2> QED
    BY <2>1, <2>3
<1>4. CASE ReadPassport(k)
  <2>1. PICK d \in CustodyCalls : Now(k, d) /\ d.op = c.op
    BY <1>4, ReadPassportMoves
  <2>2. c.op \in {"custody", "verify", "carbon"} /\ c.at = "reading"
    BY <1>4 DEF ReadPassport
  <2>3. Follows(k, c, d)
    BY <2>1, <2>2, <1>4 DEF Follows
  <2> QED
    BY <2>1, <2>3
<1>5. CASE WriteCustody(k) /\ Continue(k, "telling")
  <2>1. PICK d \in CustodyCalls : Now(k, d) /\ d.op = c.op /\ d.at = "telling"
    BY <1>5, StageMoves DEF CInv, CustodyStages
  <2>2. c.op = "custody" /\ c.at = "writing"
    BY <1>5 DEF WriteCustody, Waiting
  <2>3. Follows(k, c, d)
    BY <2>1, <2>2 DEF Follows
  <2> QED
    BY <2>1, <2>3
<1>6. CASE AskGraph(k)
  <2>1. PICK d \in CustodyCalls : Now(k, d) /\ d.op = c.op
    BY <1>6, AskGraphMoves
  <2>2. c.op \in {"verify", "carbon"}
    BY <1>6 DEF AskGraph
  <2>3. Follows(k, c, d)
    BY <2>1, <2>2 DEF Follows
  <2> QED
    BY <2>1, <2>3
<1> QED
  BY <1>1, <1>2, <1>3, <1>4, <1>5, <1>6
  DEF WriteCustody, LinkPassport, TellGraph, WriteVerification, WriteCarbonCredits

\* Every step but a restart is one of a request, and the others stay where they are.
LEMMA StepFollows ==
  ASSUME CInv, NEW k \in Calls, NEW c \in CustodyCalls, c = custodyCall[k],
         Collecting(k) \/ Locating(k) \/ Documenting(k) \/ CustodyDatabaseFails(k)
  PROVE  /\ \E d \in CustodyCalls : custodyCall'[k] = d /\ Follows(k, c, d)
         /\ \A j \in Calls \ {k} : custodyCall'[j] = custodyCall[j]
<1>1. ASSUME CustodyDatabaseFails(k)
      PROVE  \E d \in CustodyCalls : Now(k, d) /\ Follows(k, c, d)
  <2>1. c.at # "telling" /\ Failing /\ Finish(k)
    BY <1>1 DEF CustodyDatabaseFails
  <2> QED
    BY <2>1, Nobody, EndFollows DEF Finish
<1>2. \A op \in {"review", "delete", "images", "passport"} : op \in BagOps \cup PassportOps
  BY DEF BagOps
<1>3. \A op \in {"custody", "verify", "carbon"} : op \in BagOps \cup PassportOps
  BY DEF PassportOps
<1>4. (\A n \in 1..Len(bags) : n \in Nat) /\ (\A n \in 1..Len(passports) : n \in Nat)
  OBVIOUS
<1>5. ASSUME Collecting(k)
      PROVE  \E d \in CustodyCalls : Now(k, d) /\ Follows(k, c, d)
  <2>1. ASSUME NEW n \in 1..Len(bags),
               VerifyBag(k, n) \/ DeleteBag(k, n) \/ UploadImages(k, n) \/ CreatePassport(k, n)
        PROVE  \E d \in CustodyCalls : Now(k, d) /\ Follows(k, c, d)
    BY <2>1, <1>2, <1>4, ArrivalFollows DEF VerifyBag, DeleteBag, UploadImages, CreatePassport
  <2> QED
    BY <1>5, <2>1, ArrivalFollows, BagStepFollows DEF Collecting
<1>6. ASSUME Locating(k)
      PROVE  \E d \in CustodyCalls : Now(k, d) /\ Follows(k, c, d)
  BY <1>6, ArrivalFollows, BagStepFollows DEF Locating
<1>7. ASSUME Documenting(k)
      PROVE  \E d \in CustodyCalls : Now(k, d) /\ Follows(k, c, d)
  <2>1. ASSUME NEW n \in 1..Len(passports),
               UpdateCustody(k, n) \/ VerifyPassport(k, n) \/ CalculateCarbonCredits(k, n)
        PROVE  \E d \in CustodyCalls : Now(k, d) /\ Follows(k, c, d)
    BY <2>1, <1>3, <1>4, ArrivalFollows DEF UpdateCustody, VerifyPassport, CalculateCarbonCredits
  <2> QED
    BY <1>7, <2>1, PassportStepFollows DEF Documenting
<1>8. PICK d \in CustodyCalls : Now(k, d) /\ Follows(k, c, d)
  BY <1>1, <1>5, <1>6, <1>7
<1> QED
  BY <1>8, CustodyCallMoves DEF CInv

-----------------------------------------------------------------------------
(* RecycleGraph's copy.                                                    *)

\* An entry of the chain of custody of the passport n that the copy has, or is about to get.
TellsOf(n, i) ==
  \E j \in Calls :
    Waiting(j, "custody", "telling") /\ custodyCall[j].on = n /\ custodyCall[j].request = i

Accounted(n, i) == i = 0 \/ i \in graph[passports[n].recycle] \/ TellsOf(n, i)

\* Without failures, every entry of a chain is accounted for, and every entry of one that was
\* read and is about to be written back.
ChainsTold ==
  \A n \in 1..Len(passports) :
    passports[n].recycle # 0 => \A i \in ToSet(passports[n].chain) : Accounted(n, i)

ListsTold ==
  \A k \in Calls :
    Waiting(k, "custody", "writing") /\ custodyCall[k].recycle # 0 =>
      \A i \in ToSet(custodyCall[k].list) : Accounted(custodyCall[k].on, i)

GraphInv == faults + crashes = 0 => ChainsTold /\ ListsTold

\* What is accounted for stays so in a step of one request, in which nothing fails.
LEMMA AccountedStays ==
  ASSUME CInv, NEW k \in Calls, NEW c \in CustodyCalls, c = custodyCall[k],
         Grows, Len(graph) \in Nat,
         \A m \in 1..Len(graph) : graph[m] \subseteq graph'[m],
         Waiting(k, "custody", "telling") =>
           c.recycle = passports[c.on].recycle /\ c.request \in graph'[c.recycle],
         \A j \in Calls \ {k} : custodyCall'[j] = custodyCall[j],
         NEW n \in 1..Len(passports), passports[n].recycle # 0, NEW i, Accounted(n, i)
  PROVE  Accounted(n, i)'
<1>1. passports'[n].recycle = passports[n].recycle /\ passports[n].recycle \in 1..Len(graph)
  BY DEF Grows, CInv, RowsFit
<1>2. CASE i \in graph[passports[n].recycle]
  BY <1>1, <1>2 DEF Accounted
<1>3. CASE TellsOf(n, i)
  <2>1. PICK j \in Calls : /\ Waiting(j, "custody", "telling") /\ custodyCall[j].on = n
                           /\ custodyCall[j].request = i
    BY <1>3 DEF TellsOf
  <2>2. CASE j = k
    BY <2>1, <2>2, <1>1 DEF Accounted
  <2>3. CASE j # k
    BY <2>1, <2>3 DEF Accounted, TellsOf, Waiting
  <2> QED
    BY <2>2, <2>3
<1> QED
  BY <1>2, <1>3 DEF Accounted

\* What every step but a failure or a restart does to RecycleGraph's copy.
LEMMA CopyGrows ==
  ASSUME CInv, NEW k \in Calls, NEW c \in CustodyCalls, c = custodyCall[k],
         Collecting(k) \/ Locating(k) \/ Documenting(k) \/ CustodyDatabaseFails(k), ~ Failing
  PROVE  /\ \A m \in 1..Len(graph) : graph[m] \subseteq graph'[m]
         /\ Waiting(k, "custody", "telling") =>
              c.recycle = passports[c.on].recycle /\ c.request \in graph'[c.recycle]
<1>1. Waiting(k, "custody", "telling") => TellGraph(k)
  BY StepFollows DEF Follows, Waiting
<1>2. CASE TellGraph(k)
  BY <1>2, TellMoves
<1>3. CASE CreateMaterialPassport(k)
  <2>1. \A m \in 1..Len(graph) : graph'[m] = graph[m]
    BY <1>3, CreateMoves
  <2>2. ~ Waiting(k, "custody", "telling")
    BY <1>3 DEF CreateMaterialPassport, Waiting
  <2> QED
    BY <2>1, <2>2
<1>4. CASE ~ TellGraph(k) /\ ~ CreateMaterialPassport(k)
  <2>1. graph' = graph
    <3>1. CASE CustodyDatabaseFails(k) \/ Locating(k)
      BY <3>1 DEF CustodyDatabaseFails, Locating, UpdateCollectionPoint,
         DeleteCollectionPoint, VerifyCollectionPoint, WritePoint, Demand
    <3>2. CASE Collecting(k)
      BY <3>2 DEF Collecting, RecordCollection, VerifyBag, DeleteBag, UploadImages,
         CreatePassport, About, Demand, EnsureDemoData, CountQueue, OnlyReads, FindPoint, AddBag,
         WriteBags, ReadBag, WriteVerdict, RemoveBag, AddImages, UpdateBag
    <3>3. CASE Documenting(k)
      BY <3>3, <1>4 DEF Documenting, UpdateCustody, VerifyPassport, CalculateCarbonCredits, About,
         Demand, AddPassport, LinkPassport, WriteBags, ReadPassport, OnlyReads, AskGraph,
         WriteCustody, WriteVerification, WriteCarbonCredits, WritePassport
    <3> QED
      BY <3>1, <3>2, <3>3
  <2> QED
    BY <2>1, <1>1, <1>4
<1> QED
  BY <1>2, <1>3, <1>4

\* A write keeps the number of passports.
LEMMA WritesKeepLength ==
  ASSUME CInv, NEW k \in Calls,
         WriteCustody(k) \/ WriteVerification(k) \/ WriteCarbonCredits(k)
  PROVE  Len(passports') = Len(passports)
<1>1. PICK row : WritePassport(k, row)
  BY DEF WriteCustody, WriteVerification, WriteCarbonCredits
<1>2. passports \in Seq(Passports)
  BY DEF CInv, CustodyTypeOK
<1> QED
  BY <1>1, <1>2 DEF WritePassport

\* The chains and the lists of the next state are accounted for: what is new of them is, and
\* the rest was.
LEMMA TellingKeeps ==
  ASSUME CInv, GraphInv, NEW k \in Calls,
         Collecting(k) \/ Locating(k) \/ Documenting(k) \/ CustodyDatabaseFails(k)
  PROVE  GraphInv'
<1> SUFFICES ASSUME faults' + crashes' = 0 PROVE ChainsTold' /\ ListsTold'
  BY DEF GraphInv
<1>1. CInv' /\ Grows
  BY RequestsAdvance DEF Advances
<1>2. /\ faults \in Nat /\ crashes \in Nat /\ faults' \in Nat /\ crashes' \in Nat
      /\ faults <= faults' /\ crashes <= crashes'
  BY <1>1 DEF CInv, CustodyTypeOK, BudgetOK, Grows
<1>3. faults = 0 /\ crashes = 0 /\ faults' = 0
  <2>1. \A f, g \in Nat : f + g = 0 => f = 0 /\ g = 0
    OBVIOUS
  <2>2. faults' = 0 /\ crashes' = 0
    BY <1>2, <2>1
  <2> QED
    BY <1>2, <2>2
<1>4. ~ Failing
  BY <1>3 DEF Failing
<1>5. ChainsTold /\ ListsTold
  BY <1>3 DEF GraphInv
<1>6. PICK c \in CustodyCalls : c = custodyCall[k]
  BY DEF CInv, CustodyTypeOK
<1>7. PICK d \in CustodyCalls : custodyCall'[k] = d /\ Follows(k, c, d)
  BY <1>6, StepFollows
<1>8. \A j \in Calls \ {k} : custodyCall'[j] = custodyCall[j]
  BY <1>6, StepFollows
<1>9. ASSUME NEW n \in 1..Len(passports), passports[n].recycle # 0, NEW i, Accounted(n, i)
      PROVE  Accounted(n, i)'
  <2>1. Len(graph) \in Nat
    BY Lengths DEF CInv
  <2>2. /\ \A m \in 1..Len(graph) : graph[m] \subseteq graph'[m]
        /\ Waiting(k, "custody", "telling") =>
             c.recycle = passports[c.on].recycle /\ c.request \in graph'[c.recycle]
    BY <1>4, <1>6, CopyGrows
  <2> QED
    BY <1>1, <1>6, <1>8, <1>9, <2>1, <2>2, AccountedStays
<1>10. ChainsTold'
  <2> SUFFICES ASSUME NEW n \in 1..Len(passports'), passports'[n].recycle # 0,
                      NEW i \in ToSet(passports'[n].chain)
               PROVE  Accounted(n, i)'
    BY DEF ChainsTold
  <2>1. CASE n \in 1..Len(passports) /\ i \in ToSet(passports[n].chain)
    <3>1. passports[n].recycle # 0
      BY <2>1, <1>1 DEF Grows
    <3> QED
      BY <2>1, <3>1, <1>5, <1>9 DEF ChainsTold
  <2>2. CASE n \notin 1..Len(passports)
    <3>1. Len(passports') # Len(passports)
      BY <2>2
    <3>2. AddPassport(k)
      BY <3>1, <1>6, PassportSteps, WritesKeepLength
    <3>3. passports'[n] = NewPassport(c)
      BY <2>2, <3>2, <1>6, AddPassportMoves, Lengths DEF CInv
    <3>4. i = 0
      BY <3>3, NewPassportIsOne DEF ToSet
    <3> QED
      BY <3>4 DEF Accounted
  <2>3. CASE n \in 1..Len(passports) /\ i \notin ToSet(passports[n].chain)
    <3>1. WriteCustody(k) /\ n = c.on /\ i \in ToSet(Append(c.list, c.request))
      BY <2>3, <1>6, PassportSteps, PassportFields
    <3>2. c.list \in Seq(Nat) /\ c.request \in Nat
      BY DEF CustodyCalls
    <3>3. c.recycle = passports[n].recycle /\ passports[n].recycle # 0
      BY <2>3, <3>1, <1>1, <1>6
         DEF WriteCustody, Waiting, Grows, CInv, CustodyCallsFit, CustodyCallFits
    <3>4. CASE i \in ToSet(c.list)
      <4>1. Accounted(n, i)
        BY <3>1, <3>3, <3>4, <1>5, <1>6 DEF ListsTold, WriteCustody
      <4> QED
        BY <2>3, <3>3, <4>1, <1>9
    <3>5. CASE i = c.request
      <4>1. available
        BY <2>3, <3>3 DEF CInv, RowsFit
      <4>2. Continue(k, "telling")
        BY <3>1, <3>3, <4>1, <1>6 DEF WriteCustody
      <4>3. PICK e \in CustodyCalls :
              /\ Now(k, e) /\ e.at = "telling" /\ e.op = c.op /\ e.on = c.on
              /\ e.request = c.request
        BY <4>2, <1>6, StageMoves DEF CInv, CustodyStages
      <4>4. custodyCall'[k] = e /\ c.op = "custody"
        BY <3>1, <4>3, <1>6, CustodyCallMoves DEF CInv, WriteCustody, Waiting
      <4>5. TellsOf(n, i)'
        BY <3>1, <3>5, <4>3, <4>4 DEF TellsOf, Waiting
      <4> QED
        BY <4>5 DEF Accounted
    <3> QED
      BY <3>1, <3>2, <3>4, <3>5, Appended
  <2> QED
    BY <2>1, <2>2, <2>3
<1>11. ListsTold'
  <2> SUFFICES ASSUME NEW j \in Calls, NEW s \in CustodyCalls, s = custodyCall'[j],
                      s.op = "custody", s.at = "writing", s.recycle # 0,
                      NEW i \in ToSet(s.list)
               PROVE  Accounted(s.on, i)'
    <3>1. custodyCall' \in [Calls -> CustodyCalls]
      BY <1>1 DEF CInv, CustodyTypeOK
    <3>2. ASSUME NEW j \in Calls, Waiting(j, "custody", "writing")', custodyCall'[j].recycle # 0
          PROVE  \E s \in CustodyCalls :
                   /\ s = custodyCall'[j] /\ s.op = "custody" /\ s.at = "writing"
                   /\ s.recycle # 0
      BY <3>1, <3>2 DEF Waiting
    <3> QED
      BY <3>2 DEF ListsTold, Accounted, TellsOf
  <2>1. CASE j # k
    <3>1. s = custodyCall[j] /\ CustodyCallFits(s)
      BY <2>1, <1>8 DEF CInv, CustodyCallsFit
    <3>2. s.on \in 1..Len(passports) /\ passports[s.on].recycle # 0
      BY <3>1 DEF CustodyCallFits, PassportOps
    <3>3. Accounted(s.on, i)
      BY <3>1, <1>5 DEF ListsTold, Waiting
    <3> QED
      BY <3>2, <3>3, <1>9
  <2>2. CASE j = k
    <3>1. ReadPassport(k)
      BY <2>2, <1>7 DEF Follows
    <3>2. PICK e \in CustodyCalls : /\ Now(k, e) /\ e.on = c.on /\ e.op = c.op
                                    /\ e.list = passports[c.on].chain
                                    /\ e.recycle = passports[c.on].recycle
      BY <3>1, <1>6, ReadPassportMoves
    <3>3. s = e
      BY <2>2, <3>2, CustodyCallMoves DEF CInv
    <3>4. c.on \in 1..Len(passports)
      BY <3>1, <1>6 DEF CInv, CustodyCallsFit, CustodyCallFits, ReadPassport, PassportOps
    <3>5. passports[c.on].recycle # 0
      BY <3>2, <3>3
    <3>6. Accounted(c.on, i)
      BY <3>2, <3>3, <3>4, <3>5, <1>5 DEF ChainsTold
    <3> QED
      BY <3>2, <3>3, <3>4, <3>5, <3>6, <1>9
  <2> QED
    BY <2>1, <2>2
<1> QED
  BY <1>10, <1>11

\* It is kept by every step.
LEMMA GraphKept == CInv /\ GraphInv /\ [CustodyNext]_custodyVars => GraphInv'
<1> SUFFICES ASSUME CInv, GraphInv, [CustodyNext]_custodyVars PROVE GraphInv'
  OBVIOUS
<1>1. CASE UNCHANGED custodyVars
  BY <1>1 DEF custodyVars, custodyState, budgetVars, GraphInv, ChainsTold, ListsTold, Accounted,
     TellsOf, Waiting
<1>2. CASE RestartCustody
  <2>1. faults' + crashes' # 0
    BY <1>2, Lengths DEF RestartCustody, Crashing, CInv
  <2> QED
    BY <2>1 DEF GraphInv
<1> QED
  BY <1>1, <1>2, TellingKeeps DEF CustodyNext

\* Without failures and restarts, RecycleGraph's copy of a chain of custody lacks only what is
\* about to be told, however many updates overlap (GraphLagsOnlyByFailure).
THEOREM CopiesAreTold == CustodySpec => []GraphLagsOnlyByFailure
<1>1. CustodyInit => GraphInv
  BY DEF CustodyInit, GraphInv, ChainsTold, ListsTold, Waiting, NoCustodyCall
<1>2. CInv /\ GraphInv => GraphLagsOnlyByFailure
  <2> SUFFICES ASSUME CInv, GraphInv, faults + crashes = 0, NEW n \in 1..Len(passports),
                      passports[n].recycle # 0, NEW i \in ToSet(passports[n].chain)
               PROVE  i \in {0} \cup graph[passports[n].recycle]
                            \cup {custodyCall[k].request :
                                     k \in {j \in Calls : Waiting(j, "custody", "telling")}}
    BY DEF GraphLagsOnlyByFailure
  <2>1. Accounted(n, i)
    BY DEF GraphInv, ChainsTold
  <2> QED
    BY <2>1 DEF Accounted, TellsOf
<1> QED
  BY <1>1, <1>2, GraphKept, CustodyInvariant, PTL DEF CustodySpec

-----------------------------------------------------------------------------
(* How many passports a collection has.                                    *)

\* The requests that may add a passport to the collection n, and those that did and are to
\* link it.
Adding(n) ==
  {k \in Calls : /\ custodyCall[k].op = "passport" /\ custodyCall[k].on = n
                 /\ custodyCall[k].at \in {"asking", "adding"}}

Linking(n) ==
  {k \in Calls : /\ custodyCall[k].op = "passport" /\ custodyCall[k].on = n
                 /\ custodyCall[k].at = "linking"}

\* No request that comes now gets another passport for it.
Closed(n) == bags[n] = Nil \/ bags[n].passport # 0

\* What failures and restarts may have left.
Slack == Cardinality(Calls) * crashes + faults

PassportsFit ==
  \A n \in 1..Len(bags) :
    IF Closed(n)
    THEN Cardinality(PassportsFor(n)) + Cardinality(Adding(n)) <= Cardinality(Calls) + Slack
    ELSE Cardinality(PassportsFor(n)) <= Cardinality(Linking(n)) + Slack

\* All of these can be counted.
LEMMA CallsCount ==
  ASSUME NEW S \in SUBSET Calls
  PROVE  /\ IsFiniteSet(Calls) /\ Cardinality(Calls) \in Nat
         /\ IsFiniteSet(S) /\ Cardinality(S) \in Nat /\ Cardinality(S) <= Cardinality(Calls)
<1>1. IsFiniteSet(Calls)
  BY CallsAreFinite
<1>2. IsFiniteSet(S) /\ Cardinality(S) <= Cardinality(Calls)
  BY <1>1, FS_Subset
<1>3. Cardinality(Calls) \in Nat /\ Cardinality(S) \in Nat
  BY <1>1, <1>2, FS_CardinalityType
<1> QED
  BY <1>1, <1>2, <1>3

\* The same of the passports of a collection.
LEMMA PassportsCount ==
  ASSUME CustodyTypeOK, NEW n
  PROVE  IsFiniteSet(PassportsFor(n)) /\ Cardinality(PassportsFor(n)) \in Nat
<1>1. IsFiniteSet(1..Len(passports))
  BY Lengths, FS_Interval
<1> QED
  BY <1>1, FS_Subset, FS_CardinalityType DEF PassportsFor

\* What troubles may leave is a number, and grows with them.
LEMMA SlackGrows ==
  ASSUME NEW calls \in Nat, NEW f \in Nat, NEW g \in Nat, NEW r \in Nat, NEW s \in Nat,
         f <= g, r <= s
  PROVE  /\ calls * r + f \in Nat /\ calls * s + g \in Nat
         /\ calls * r + f <= calls * s + g
         /\ g = f + 1 => calls * r + f + 1 <= calls * s + g
         /\ s = r + 1 => calls * r + f + calls <= calls * s + g
<1>1. calls * r \in Nat /\ calls * s \in Nat
  OBVIOUS
<1>2. calls * r <= calls * s
  <2>1. PICK t \in Nat : s = r + t
    <3>1. s - r \in Nat /\ s = r + (s - r)
      OBVIOUS
    <3> QED
      BY <3>1
  <2>2. calls * t \in Nat /\ calls * s = calls * r + calls * t
    BY <2>1
  <2> QED
    BY <1>1, <2>2
<1>3. s = r + 1 => calls * s = calls * r + calls
  OBVIOUS
<1> QED
  BY <1>1, <1>2, <1>3

\* The requests that add and link passports, over a step of the request k.
LEMMA LinkersMove ==
  ASSUME CInv, NEW k \in Calls,
         Collecting(k) \/ Locating(k) \/ Documenting(k) \/ CustodyDatabaseFails(k),
         NEW n \in 1..Len(bags)
  PROVE  /\ Closed(n) => Adding(n)' \subseteq Adding(n)
         /\ Adding(n)' \cap Linking(n) = {}
         /\ Linking(n) \ {k} \subseteq Linking(n)'
         /\ k \in Linking(n) => LinkPassport(k) \/ Failing
<1>1. PICK c \in CustodyCalls : c = custodyCall[k]
  BY DEF CInv, CustodyTypeOK
<1>2. PICK d \in CustodyCalls : custodyCall'[k] = d /\ Follows(k, c, d)
  BY <1>1, StepFollows
<1>3. \A j \in Calls \ {k} : custodyCall'[j] = custodyCall[j]
  BY <1>1, StepFollows
<1>4. k \in Adding(n)' =>
        /\ c.op = "passport" /\ c.on = n
        /\ c.at = "asking" \/ ~ Closed(n)
  BY <1>2 DEF Adding, Follows, Closed
<1>5. Closed(n) => Adding(n)' \subseteq Adding(n)
  BY <1>1, <1>3, <1>4 DEF Adding
<1>6. k \in Linking(n) => d.op = "none" /\ (LinkPassport(k) \/ Failing)
  BY <1>1, <1>2 DEF Linking, Follows
<1>7. Adding(n)' \cap Linking(n) = {}
  BY <1>1, <1>2, <1>3, <1>6 DEF Adding, Linking
<1>8. Linking(n) \ {k} \subseteq Linking(n)'
  BY <1>3 DEF Linking
<1> QED
  BY <1>5, <1>6, <1>7, <1>8

\* The collection n over a step of the request k.
LEMMA ClosesForGood ==
  ASSUME CInv, NEW k \in Calls,
         Collecting(k) \/ Locating(k) \/ Documenting(k) \/ CustodyDatabaseFails(k),
         NEW n \in 1..Len(bags)
  PROVE  /\ Closed(n) => Closed(n)'
         /\ AddPassport(k) => (Closed(n)' <=> Closed(n))
         /\ LinkPassport(k) /\ custodyCall[k].on = n => Closed(n)'
<1>1. PICK c \in CustodyCalls : c = custodyCall[k] /\ CustodyCallFits(c)
  BY DEF CInv, CustodyTypeOK, CustodyCallsFit
<1>2. AddPassport(k) => bags' = bags
  BY DEF AddPassport
<1>3. LinkPassport(k) => c.todo # 0
  BY <1>1 DEF LinkPassport, Waiting, CustodyCallFits
<1>4. CASE bags' = bags /\ ~ LinkPassport(k)
  BY <1>4 DEF Closed
<1>5. CASE AddBag(k)
  <2>1. bags'[n] = bags[n]
    BY <1>5, AddBagAtEnd
  <2>2. ~ LinkPassport(k)
    BY <1>5 DEF AddBag, LinkPassport, Waiting
  <2> QED
    BY <2>1, <2>2 DEF Closed
<1>6. CASE WriteVerdict(k) \/ RemoveBag(k) \/ AddImages(k) \/ LinkPassport(k)
  <2>1. /\ n # c.on \/ bags[n] = Nil => bags'[n] = bags[n]
        /\ bags[n] # Nil /\ bags'[n] # Nil =>
             bags'[n].passport = IF LinkPassport(k) /\ n = c.on THEN c.todo ELSE bags[n].passport
    BY <1>1, <1>6, BagFields
  <2>2. Closed(n) => Closed(n)'
    BY <2>1, <1>3 DEF Closed
  <2>3. LinkPassport(k) /\ c.on = n => Closed(n)'
    BY <2>1, <1>3 DEF Closed
  <2> QED
    BY <1>1, <1>2, <2>2, <2>3 DEF Closed
<1> QED
  BY <1>4, <1>5, <1>6, BagSteps

\* The passports of the collection n over a step of the request k.
LEMMA PassportsForMove ==
  ASSUME CInv, NEW k \in Calls,
         Collecting(k) \/ Locating(k) \/ Documenting(k) \/ CustodyDatabaseFails(k),
         NEW n
  PROVE  \/ PassportsFor(n)' = PassportsFor(n)
         \/ /\ AddPassport(k) /\ custodyCall[k].on = n
            /\ PassportsFor(n)' = PassportsFor(n) \cup {Len(passports) + 1}
<1>1. PICK c \in CustodyCalls : c = custodyCall[k]
  BY DEF CInv, CustodyTypeOK
<1>2. Len(passports) \in Nat
  BY Lengths DEF CInv
<1>3. CASE passports' = passports
  BY <1>3 DEF PassportsFor
<1>4. CASE AddPassport(k)
  <2>1. /\ Len(passports') = Len(passports) + 1
        /\ passports'[Len(passports) + 1].bag = c.on
        /\ \A m \in 1..Len(passports) : passports'[m] = passports[m]
    BY <1>1, <1>4, AddPassportMoves, NewPassportIsOne
  <2>2. PassportsFor(n)' = IF c.on = n THEN PassportsFor(n) \cup {Len(passports) + 1}
                           ELSE PassportsFor(n)
    BY <2>1, <1>2 DEF PassportsFor
  <2> QED
    BY <2>2, <1>1, <1>4
<1>5. CASE WriteCustody(k) \/ WriteVerification(k) \/ WriteCarbonCredits(k)
  <2>1. Len(passports') = Len(passports)
    BY <1>5, WritesKeepLength
  <2>2. \A m \in 1..Len(passports) : passports'[m].bag = passports[m].bag
    BY RequestsAdvance DEF Advances, Grows
  <2> QED
    BY <2>1, <2>2 DEF PassportsFor
<1> QED
  BY <1>3, <1>4, <1>5, PassportSteps

\* The inequality is kept by every step of a request.
LEMMA PassportsFitStep ==
  ASSUME CInv, PassportsFit, NEW k \in Calls,
         Collecting(k) \/ Locating(k) \/ Documenting(k) \/ CustodyDatabaseFails(k)
  PROVE  PassportsFit'
<1>1. CInv' /\ Grows
  BY RequestsAdvance DEF Advances
<1>2. PICK calls \in Nat : calls = Cardinality(Calls)
  BY CallsCount
<1>3. PICK slack \in Nat, left \in Nat :
        /\ slack = Slack /\ left = Slack' /\ slack <= left
        /\ Failing => slack + 1 <= left
  <2>1. /\ faults \in Nat /\ crashes \in Nat /\ faults' \in Nat /\ crashes' \in Nat
        /\ faults <= faults' /\ crashes <= crashes'
    BY <1>1 DEF CInv, CustodyTypeOK, BudgetOK, Grows
  <2>2. /\ calls * crashes + faults \in Nat /\ calls * crashes' + faults' \in Nat
        /\ calls * crashes + faults <= calls * crashes' + faults'
        /\ faults' = faults + 1 => calls * crashes + faults + 1 <= calls * crashes' + faults'
    BY <2>1, SlackGrows
  <2> QED
    BY <1>2, <2>2 DEF Slack, Failing
<1> SUFFICES ASSUME NEW n \in 1..Len(bags')
             PROVE  IF Closed(n)'
                    THEN Cardinality(PassportsFor(n)') + Cardinality(Adding(n)') <= calls + left
                    ELSE Cardinality(PassportsFor(n)') <= Cardinality(Linking(n)') + left
  BY <1>2, <1>3 DEF PassportsFit
<1>4. /\ IsFiniteSet(PassportsFor(n)) /\ IsFiniteSet(Adding(n)) /\ IsFiniteSet(Linking(n))
      /\ IsFiniteSet(Adding(n)') /\ IsFiniteSet(Linking(n)')
      /\ Cardinality(Adding(n)') \in Nat /\ Cardinality(Adding(n)') <= calls
      /\ Cardinality(Linking(n)') \in Nat
  BY <1>2, CallsCount, PassportsCount DEF Adding, Linking, CInv
<1>5. CASE n \notin 1..Len(bags)
  <2>1. AddBag(k)
    <3>1. Len(bags') # Len(bags)
      BY <1>5
    <3>2. ~ (WriteVerdict(k) \/ RemoveBag(k) \/ AddImages(k) \/ LinkPassport(k))
      <4>1. PICK c \in CustodyCalls : c = custodyCall[k]
        BY DEF CInv, CustodyTypeOK
      <4> QED
        BY <3>1, <4>1, BagFields
    <3> QED
      BY <3>1, <3>2, BagSteps
  <2>2. passports' = passports
    BY <2>1 DEF AddBag, WriteBags
  <2>3. PassportsFor(n)' = {}
    BY <1>5, <2>2 DEF PassportsFor, CInv, RowsFit
  <2>4. Cardinality(PassportsFor(n)') = 0
    BY <2>3, FS_EmptySet
  <2> QED
    BY <1>3, <1>4, <2>4
<1>6. CASE n \in 1..Len(bags)
  <2>1. PICK p \in Nat, a \in Nat, l \in Nat :
          p = Cardinality(PassportsFor(n)) /\ a = Cardinality(Adding(n))
            /\ l = Cardinality(Linking(n))
    BY CallsCount, PassportsCount DEF Adding, Linking, CInv
  <2>2. IF Closed(n) THEN p + a <= calls + slack ELSE p <= l + slack
    BY <1>2, <1>3, <1>6, <2>1 DEF PassportsFit
  <2>3. CASE AddPassport(k) /\ custodyCall[k].on = n
             /\ PassportsFor(n)' = PassportsFor(n) \cup {Len(passports) + 1}
    <3>1. Cardinality(PassportsFor(n)') <= p + 1 /\ Cardinality(PassportsFor(n)') \in Nat
      <4>1. Cardinality(PassportsFor(n) \cup {Len(passports) + 1})
              = IF Len(passports) + 1 \in PassportsFor(n) THEN p ELSE p + 1
        BY <1>4, <2>1, FS_AddElement
      <4> QED
        BY <2>1, <2>3, <4>1
    <3>2. k \in Adding(n) /\ k \notin Linking(n)
      BY <2>3 DEF AddPassport, Waiting, Adding, Linking
    <3>3. k \notin Adding(n)' /\ k \in Linking(n)'
      <4>1. PICK c \in CustodyCalls : c = custodyCall[k]
        BY DEF CInv, CustodyTypeOK
      <4>2. PICK d \in CustodyCalls :
              Now(k, d) /\ d.op = "passport" /\ d.at = "linking" /\ d.on = c.on
        BY <2>3, <4>1, AddPassportMoves
      <4>3. custodyCall'[k] = d
        BY <4>2, CustodyCallMoves DEF CInv
      <4> QED
        BY <2>3, <4>1, <4>2, <4>3 DEF Adding, Linking
    <3>4. CASE Closed(n)
      <4>1. Adding(n)' \subseteq Adding(n) \ {k}
        BY <1>6, <3>3, <3>4, LinkersMove
      <4>2. IsFiniteSet(Adding(n) \ {k}) /\ Cardinality(Adding(n) \ {k}) = a - 1
        BY <1>4, <2>1, <3>2, FS_RemoveElement
      <4>3. Cardinality(Adding(n)') <= a - 1
        BY <4>1, <4>2, FS_Subset
      <4>4. Closed(n)'
        BY <1>6, <3>4, ClosesForGood
      <4> QED
        BY <1>3, <1>4, <2>2, <3>1, <3>4, <4>3, <4>4
    <3>5. CASE ~ Closed(n)
      <4>1. Linking(n) \cup {k} \subseteq Linking(n)'
        BY <1>6, <3>2, <3>3, LinkersMove
      <4>2. IsFiniteSet(Linking(n) \cup {k}) /\ Cardinality(Linking(n) \cup {k}) = l + 1
        BY <1>4, <2>1, <3>2, FS_AddElement
      <4>3. l + 1 <= Cardinality(Linking(n)')
        BY <1>4, <4>1, <4>2, FS_Subset
      <4>4. ~ Closed(n)'
        BY <1>6, <2>3, <3>5, ClosesForGood
      <4> QED
        BY <1>3, <1>4, <2>2, <3>1, <3>5, <4>3, <4>4
    <3> QED
      BY <3>4, <3>5
  <2>4. CASE PassportsFor(n)' = PassportsFor(n)
    <3>0. Cardinality(PassportsFor(n)') = p
      BY <2>1, <2>4
    <3>1. CASE Closed(n)
      <4>1. Adding(n)' \subseteq Adding(n) /\ Closed(n)'
        BY <1>6, <3>1, LinkersMove, ClosesForGood
      <4>2. Cardinality(Adding(n)') <= a
        BY <1>4, <2>1, <4>1, FS_Subset
      <4>3. PICK b \in Nat : b = Cardinality(Adding(n)')
        BY <1>4
      <4>4. b <= a
        BY <4>2, <4>3
      <4>5. p + a <= calls + slack /\ slack <= left
        BY <1>3, <2>2, <3>1
      <4>6. p + b <= calls + left
        BY <2>1, <4>4, <4>5
      <4> QED
        BY <3>0, <4>1, <4>3, <4>6
    <3>2. CASE ~ Closed(n) /\ Closed(n)'
      <4>1. Adding(n)' \cap Linking(n) = {}
        BY <1>6, LinkersMove
      <4>2. Cardinality(Adding(n)' \cup Linking(n))
              = Cardinality(Adding(n)') + Cardinality(Linking(n)) - 0
        BY <1>4, <4>1, FS_Union, FS_EmptySet
      <4>3. Adding(n)' \cup Linking(n) \in SUBSET Calls
        BY DEF Adding, Linking
      <4>4. Cardinality(Adding(n)') + l <= calls
        BY <1>2, <1>4, <2>1, <4>2, <4>3, CallsCount
      <4>5. PICK b \in Nat : b = Cardinality(Adding(n)')
        BY <1>4
      <4>6. b + l <= calls
        BY <4>4, <4>5
      <4>7. p <= l + slack /\ slack <= left
        BY <1>3, <2>1, <2>2, <3>2
      <4>8. p + b <= calls + left
        BY <2>1, <2>2, <4>6, <4>7
      <4> QED
        BY <1>3, <2>1, <2>2, <3>0, <3>2, <4>5, <4>8
    <3>3. CASE ~ Closed(n) /\ ~ Closed(n)'
      <4>1. CASE k \in Linking(n)
        <5>1. ~ LinkPassport(k)
          BY <1>6, <3>3, <4>1, ClosesForGood DEF Linking
        <5>2. Failing
          BY <1>6, <4>1, <5>1, LinkersMove
        <5>3. IsFiniteSet(Linking(n) \ {k}) /\ Cardinality(Linking(n) \ {k}) = l - 1
          BY <1>4, <2>1, <4>1, FS_RemoveElement
        <5>4. l - 1 <= Cardinality(Linking(n)')
          BY <1>4, <1>6, <5>3, LinkersMove, FS_Subset
        <5> QED
          BY <1>3, <1>4, <2>1, <2>2, <3>0, <3>3, <5>2, <5>4, SMTT(30)
      <4>2. CASE k \notin Linking(n)
        <5>1. Linking(n) \subseteq Linking(n)'
          BY <1>6, <4>2, LinkersMove
        <5>2. l <= Cardinality(Linking(n)')
          BY <1>4, <2>1, <5>1, FS_Subset
        <5> QED
          BY <1>3, <1>4, <2>1, <2>2, <3>0, <3>3, <5>2
      <4> QED
        BY <4>1, <4>2
    <3> QED
      BY <3>1, <3>2, <3>3
  <2> QED
    BY <2>3, <2>4, PassportsForMove
<1> QED
  BY <1>5, <1>6

\* It is kept by every step.
LEMMA PassportsFitKept == CInv /\ PassportsFit /\ [CustodyNext]_custodyVars => PassportsFit'
<1> SUFFICES ASSUME CInv, PassportsFit, [CustodyNext]_custodyVars PROVE PassportsFit'
  OBVIOUS
<1>1. CASE UNCHANGED custodyVars
  BY <1>1 DEF custodyVars, custodyState, budgetVars, PassportsFit, PassportsFor, Closed, Adding,
     Linking, Slack
<1>2. CASE RestartCustody
  <2>1. bags' = bags /\ passports' = passports
    BY <1>2 DEF RestartCustody
  <2>2. PICK calls \in Nat : calls = Cardinality(Calls)
    BY CallsCount
  <2>3. PICK slack \in Nat, left \in Nat :
          slack = Slack /\ left = Slack' /\ slack + calls <= left
    <3>1. /\ faults \in Nat /\ crashes \in Nat /\ faults' = faults /\ crashes' = crashes + 1
      BY <1>2, Lengths DEF RestartCustody, Crashing, CInv
    <3>2. faults' \in Nat /\ crashes' \in Nat /\ faults <= faults' /\ crashes <= crashes'
      BY <3>1
    <3>3. /\ calls * crashes + faults \in Nat /\ calls * crashes' + faults' \in Nat
          /\ calls * crashes + faults + calls <= calls * crashes' + faults'
      BY <3>1, <3>2, SlackGrows
    <3> QED
      BY <2>2, <3>3 DEF Slack
  <2> SUFFICES ASSUME NEW n \in 1..Len(bags)
               PROVE  IF Closed(n)'
                      THEN Cardinality(PassportsFor(n)') + Cardinality(Adding(n)') <= calls + left
                      ELSE Cardinality(PassportsFor(n)') <= Cardinality(Linking(n)') + left
    BY <2>1, <2>2, <2>3 DEF PassportsFit
  <2>4. PassportsFor(n)' = PassportsFor(n)
    BY <2>1 DEF PassportsFor
  <2>5. Adding(n)' = {} /\ Linking(n)' = {}
    BY <1>2, Nobody DEF RestartCustody, Adding, Linking
  <2>6. Cardinality(Adding(n)') = 0 /\ Cardinality(Linking(n)') = 0
    BY <2>5, FS_EmptySet
  <2>7. PICK p \in Nat, a \in Nat, l \in Nat :
          p = Cardinality(PassportsFor(n)) /\ a = Cardinality(Adding(n))
            /\ l = Cardinality(Linking(n)) /\ l <= calls
    BY <2>2, CallsCount, PassportsCount DEF Adding, Linking, CInv
  <2>8. IF Closed(n) THEN p + a <= calls + slack ELSE p <= l + slack
    BY <2>2, <2>3, <2>7 DEF PassportsFit
  <2>9. p <= left
    BY <2>3, <2>7, <2>8
  <2> QED
    BY <2>3, <2>4, <2>6, <2>7, <2>9
<1> QED
  BY <1>1, <1>2, PassportsFitStep DEF CustodyNext

\* Only requests that overlap, failures and restarts leave a collection with more than one
\* passport, and no more than each of them can (PassportsBounded).
THEOREM PassportsStayBounded == CustodySpec => []PassportsBounded
<1>1. CustodyInit => PassportsFit
  <2> SUFFICES ASSUME CustodyInit, NEW n \in 1..Len(bags)
               PROVE  /\ Cardinality(PassportsFor(n)) = 0
                      /\ Cardinality(Adding(n)) = 0 /\ Cardinality(Linking(n)) \in Nat
                      /\ Slack \in Nat /\ Cardinality(Calls) \in Nat
    BY DEF PassportsFit
  <2>1. PassportsFor(n) = {}
    BY DEF CustodyInit, PassportsFor
  <2>2. Adding(n) = {}
    BY Nobody DEF CustodyInit, Adding
  <2>3. Cardinality(Linking(n)) \in Nat /\ Cardinality(Calls) \in Nat
    BY CallsCount DEF Linking
  <2>4. Slack \in Nat
    BY <2>3 DEF Slack, CustodyInit, BudgetInit
  <2> QED
    BY <2>1, <2>2, <2>3, <2>4, FS_EmptySet
<1>2. CInv /\ PassportsFit => PassportsBounded
  <2> SUFFICES ASSUME CInv, PassportsFit, NEW n \in 1..Len(bags)
               PROVE  Cardinality(PassportsFor(n)) <= Cardinality(Calls) * (1 + crashes) + faults
    BY DEF PassportsBounded
  <2>1. PICK calls \in Nat : calls = Cardinality(Calls)
    BY CallsCount
  <2>2. faults \in Nat /\ crashes \in Nat
    BY Lengths DEF CInv
  <2>3. PICK p \in Nat, a \in Nat, l \in Nat :
          p = Cardinality(PassportsFor(n)) /\ a = Cardinality(Adding(n))
            /\ l = Cardinality(Linking(n)) /\ l <= calls
    BY <2>1, CallsCount, PassportsCount DEF Adding, Linking, CInv
  <2>4. PICK slack \in Nat : slack = calls * crashes + faults
    BY <2>2
  <2>5. p <= calls + slack
    BY <2>1, <2>3, <2>4 DEF PassportsFit, Slack
  <2>6. calls + slack = calls * (1 + crashes) + faults
    BY <2>2, <2>4
  <2> QED
    BY <2>1, <2>3, <2>5, <2>6
<1> QED
  BY <1>1, <1>2, PassportsFitKept, CustodyInvariant, PTL DEF CustodySpec

-----------------------------------------------------------------------------
(* How long the demo queue gets.                                           *)

\* The demo collections that wait for their review, and those that requests are about to
\* record, one for each that a request still has to do.
DemoQueue ==
  {n \in 1..Len(bags) : bags[n] # Nil /\ bags[n].demo /\ ~ bags[n].verified}

Owed ==
  {o \in Calls \X (1..DemoSize) :
     /\ custodyCall[o[1]].op = "topUp" /\ custodyCall[o[1]].at # "counting"
     /\ o[2] <= custodyCall[o[1]].todo}

QueueFits == Cardinality(DemoQueue) + Cardinality(Owed) <= DemoSize * Cardinality(Calls)

\* Both can be counted, and a demo collection is one of those a top-up counts.
LEMMA QueueCount ==
  ASSUME CustodyTypeOK
  PROVE  /\ IsFiniteSet(DemoQueue) /\ Cardinality(DemoQueue) \in Nat
         /\ Cardinality(DemoQueue) <= Cardinality(Pending)
         /\ IsFiniteSet(Owed) /\ Cardinality(Owed) \in Nat
<1>1. DemoQueue \subseteq Pending
  BY DEF DemoQueue, Pending
<1>2. IsFiniteSet(DemoQueue) /\ Cardinality(DemoQueue) <= Cardinality(Pending)
  BY <1>1, PendingIsFinite, FS_Subset
<1>3. IsFiniteSet(Calls) /\ IsFiniteSet(1..DemoSize)
  BY CallsCount, FS_Interval
<1>4. IsFiniteSet(Calls \X (1..DemoSize))
  BY <1>3, FS_Product
<1>5. Owed \subseteq Calls \X (1..DemoSize)
  BY DEF Owed
<1>6. IsFiniteSet(Owed)
  BY <1>4, <1>5, FS_Subset
<1> QED
  BY <1>2, <1>6, FS_CardinalityType

\* The queue over a step of the request k: only a top-up makes it longer, by one.
LEMMA QueueMoves ==
  ASSUME CInv, NEW k \in Calls,
         Collecting(k) \/ Locating(k) \/ Documenting(k) \/ CustodyDatabaseFails(k)
  PROVE  \/ DemoQueue' \subseteq DemoQueue
         \/ /\ AddBag(k) /\ custodyCall[k].op = "topUp"
            /\ DemoQueue' \subseteq DemoQueue \cup {Len(bags) + 1}
<1>1. CASE bags' = bags
  BY <1>1 DEF DemoQueue
<1>2. CASE AddBag(k)
  <2>1. /\ Len(bags) \in Nat /\ Len(bags') = Len(bags) + 1
        /\ \A n \in 1..Len(bags) : bags'[n] = bags[n]
        /\ bags'[Len(bags) + 1] = NewBag(custodyCall[k].op = "topUp")
    BY <1>2, AddBagAtEnd, Lengths DEF CInv
  <2>2. \A n \in 1..Len(bags') : n \in 1..Len(bags) \/ n = Len(bags) + 1
    BY <2>1
  <2>3. custodyCall[k].op # "topUp" => ~ bags'[Len(bags) + 1].demo
    <3>1. \A demo \in BOOLEAN : ~ demo => ~ NewBag(demo).demo
      BY DEF NewBag
    <3> QED
      BY <2>1, <3>1
  <2>4. DemoQueue' \subseteq DemoQueue \cup {Len(bags) + 1}
    BY <2>1, <2>2 DEF DemoQueue
  <2>5. custodyCall[k].op # "topUp" => DemoQueue' \subseteq DemoQueue
    BY <2>1, <2>2, <2>3 DEF DemoQueue
  <2> QED
    BY <1>2, <2>4, <2>5
<1>3. CASE WriteVerdict(k) \/ RemoveBag(k) \/ AddImages(k) \/ LinkPassport(k)
  <2>1. PICK c \in CustodyCalls : c = custodyCall[k]
    BY DEF CInv, CustodyTypeOK
  <2>2. /\ Len(bags') = Len(bags)
        /\ \A n \in 1..Len(bags) :
             /\ bags[n] = Nil => bags'[n] = Nil
             /\ bags[n] # Nil /\ bags'[n] # Nil =>
                  bags'[n].demo = bags[n].demo /\ (bags[n].verified => bags'[n].verified)
    BY <1>3, <2>1, BagFields
  <2> QED
    BY <2>2 DEF DemoQueue
<1> QED
  BY <1>1, <1>2, <1>3, BagSteps

\* What is owed over the same step: a top-up that records one owes one less, and only one that
\* counts comes to owe more: what is missing from those that wait.
LEMMA OwedMoves ==
  ASSUME CInv, NEW k \in Calls,
         Collecting(k) \/ Locating(k) \/ Documenting(k) \/ CustodyDatabaseFails(k)
  PROVE  \/ /\ Owed' \subseteq Owed
            /\ AddBag(k) /\ custodyCall[k].op = "topUp" =>
                 /\ <<k, custodyCall[k].todo>> \in Owed
                 /\ <<k, custodyCall[k].todo>> \notin Owed'
         \/ /\ CountQueue(k)
            /\ \E todo \in Nat : /\ todo + Cardinality(Pending) = DemoSize
                                 /\ Owed' \subseteq ((Calls \ {k}) \X (1..DemoSize))
                                                      \cup ({k} \X (1..todo))
<1>1. PICK c \in CustodyCalls : c = custodyCall[k] /\ CustodyCallFits(c) /\ c.todo \in Nat
  BY DEF CInv, CustodyTypeOK, CustodyCallsFit, CustodyCalls
<1>2. PICK d \in CustodyCalls : custodyCall'[k] = d /\ Follows(k, c, d) /\ d.todo \in Nat
  BY <1>1, StepFollows DEF CustodyCalls
<1>3. \A j \in Calls \ {k} : custodyCall'[j] = custodyCall[j]
  BY <1>1, StepFollows
<1>4. AddBag(k) => ~ CountQueue(k) /\ c.at = "adding"
  BY <1>1 DEF AddBag, CountQueue
<1>5. AddBag(k) /\ c.op = "topUp" => <<k, c.todo>> \in Owed
  BY <1>1, <1>4 DEF Owed, CustodyCallFits
<1>6. ASSUME NEW o \in Owed', o[1] # k
      PROVE  o \in Owed /\ o \in (Calls \ {k}) \X (1..DemoSize)
  <2>1. o \in Calls \X (1..DemoSize) /\ o[1] \in Calls \ {k}
    BY <1>6 DEF Owed
  <2>2. custodyCall'[o[1]] = custodyCall[o[1]]
    BY <1>3, <2>1
  <2> QED
    BY <2>1, <2>2 DEF Owed
<1>7. ASSUME NEW o \in Owed', o[1] = k
      PROVE  /\ o \in Calls \X (1..DemoSize) /\ o = <<k, o[2]>> /\ o[2] \in 1..DemoSize
             /\ o[2] <= d.todo /\ d.op = "topUp" /\ d.at # "counting"
  BY <1>2, <1>7 DEF Owed
<1>8. CASE CountQueue(k) /\ d.todo + Cardinality(Pending) = DemoSize
  <2>1. Owed' \subseteq ((Calls \ {k}) \X (1..DemoSize)) \cup ({k} \X (1..d.todo))
    <3> SUFFICES ASSUME NEW o \in Owed'
                 PROVE  o \in ((Calls \ {k}) \X (1..DemoSize)) \cup ({k} \X (1..d.todo))
      OBVIOUS
    <3>1. CASE o[1] # k
      BY <1>6, <3>1
    <3>2. CASE o[1] = k
      <4>1. o = <<k, o[2]>> /\ o[2] \in 1..DemoSize /\ o[2] <= d.todo
        BY <1>7, <3>2
      <4>2. o[2] \in 1..d.todo
        BY <1>2, <4>1
      <4> QED
        BY <4>1, <4>2
    <3> QED
      BY <3>1, <3>2
  <2> QED
    BY <1>2, <1>8, <2>1
<1>9. CASE ~ (CountQueue(k) /\ d.todo + Cardinality(Pending) = DemoSize)
  <2>1. d.op = "topUp" /\ d.at # "counting" =>
          /\ c.op = "topUp" /\ c.at # "counting" /\ d.todo <= c.todo
          /\ AddBag(k) => d.todo = c.todo - 1
    BY <1>1, <1>2, <1>4, <1>9 DEF Follows
  <2>2. Owed' \subseteq Owed
    <3> SUFFICES ASSUME NEW o \in Owed' PROVE o \in Owed
      OBVIOUS
    <3>1. CASE o[1] # k
      BY <1>6, <3>1
    <3>2. CASE o[1] = k
      <4>1. /\ o \in Calls \X (1..DemoSize) /\ o[2] \in 1..DemoSize
            /\ o[2] <= d.todo /\ d.op = "topUp" /\ d.at # "counting"
        BY <1>7, <3>2
      <4>2. c.op = "topUp" /\ c.at # "counting" /\ o[2] <= c.todo
        BY <1>1, <1>2, <2>1, <4>1
      <4> QED
        BY <1>1, <3>2, <4>1, <4>2 DEF Owed
    <3> QED
      BY <3>1, <3>2
  <2>3. AddBag(k) /\ c.op = "topUp" => <<k, c.todo>> \notin Owed'
    <3> SUFFICES ASSUME AddBag(k), <<k, c.todo>> \in Owed' PROVE FALSE
      OBVIOUS
    <3>1. c.todo <= d.todo /\ d.op = "topUp" /\ d.at # "counting"
      BY <1>7
    <3> QED
      BY <1>1, <1>2, <2>1, <3>1
  <2> QED
    BY <1>1, <1>5, <2>2, <2>3
<1> QED
  BY <1>8, <1>9

\* The inequality is kept by every step of a request.
LEMMA QueueFitsStep ==
  ASSUME CInv, QueueFits, NEW k \in Calls,
         Collecting(k) \/ Locating(k) \/ Documenting(k) \/ CustodyDatabaseFails(k)
  PROVE  QueueFits'
<1>1. CustodyTypeOK
  BY DEF CInv
<1>2. PICK calls \in Nat : calls = Cardinality(Calls)
  BY CallsCount
<1>3. PICK q \in Nat, o \in Nat : q = Cardinality(DemoQueue) /\ o = Cardinality(Owed)
  BY <1>1, QueueCount
<1>4. IsFiniteSet(DemoQueue) /\ IsFiniteSet(Owed)
  BY <1>1, QueueCount
<1>5. PICK r \in Nat, w \in Nat : r = Cardinality(DemoQueue') /\ w = Cardinality(Owed')
  <2>1. IsFiniteSet(DemoQueue \cup {Len(bags) + 1})
    BY <1>4, FS_AddElement
  <2>2. DemoQueue' \subseteq DemoQueue \cup {Len(bags) + 1}
    BY QueueMoves
  <2>3. IsFiniteSet(DemoQueue')
    BY <2>1, <2>2, FS_Subset
  <2>4. IsFiniteSet(Calls \X (1..DemoSize))
    <3>1. IsFiniteSet(Calls) /\ IsFiniteSet(1..DemoSize)
      BY CallsCount, FS_Interval
    <3> QED
      BY <3>1, FS_Product
  <2>5. Owed' \subseteq Calls \X (1..DemoSize)
    BY DEF Owed
  <2>6. IsFiniteSet(Owed')
    BY <2>4, <2>5, FS_Subset
  <2> QED
    BY <2>3, <2>6, FS_CardinalityType
<1>6. q + o <= DemoSize * calls
  BY <1>2, <1>3 DEF QueueFits
<1> SUFFICES r + w <= DemoSize * calls
  BY <1>2, <1>5 DEF QueueFits
<1>7. DemoSize * calls \in Nat
  BY <1>2
<1>8. CASE Owed' \subseteq Owed /\ DemoQueue' \subseteq DemoQueue
  <2>1. r <= q /\ w <= o
    BY <1>3, <1>5, <1>4, <1>8, FS_Subset
  <2> QED
    BY <1>6, <1>7, <2>1
<1>9. CASE /\ AddBag(k) /\ custodyCall[k].op = "topUp" /\ Owed' \subseteq Owed
           /\ DemoQueue' \subseteq DemoQueue \cup {Len(bags) + 1}
           /\ <<k, custodyCall[k].todo>> \in Owed /\ <<k, custodyCall[k].todo>> \notin Owed'
  <2>1. r <= q + 1
    <3>1. /\ IsFiniteSet(DemoQueue \cup {Len(bags) + 1})
          /\ Cardinality(DemoQueue \cup {Len(bags) + 1})
               = IF Len(bags) + 1 \in DemoQueue THEN q ELSE q + 1
      BY <1>3, <1>4, FS_AddElement
    <3>2. r <= Cardinality(DemoQueue \cup {Len(bags) + 1})
      BY <1>5, <1>9, <3>1, FS_Subset
    <3> QED
      BY <3>1, <3>2
  <2>2. w <= o - 1
    <3>1. PICK e \in Owed : e = <<k, custodyCall[k].todo>> /\ e \notin Owed'
      BY <1>9
    <3>2. IsFiniteSet(Owed \ {e}) /\ Cardinality(Owed \ {e}) = o - 1
      BY <1>3, <1>4, FS_RemoveElement
    <3>3. Owed' \subseteq Owed \ {e}
      BY <1>9, <3>1
    <3> QED
      BY <1>5, <3>2, <3>3, FS_Subset
  <2> QED
    BY <1>6, <1>7, <2>1, <2>2
<1>10. ASSUME CountQueue(k), NEW todo \in Nat, todo + Cardinality(Pending) = DemoSize,
              Owed' \subseteq ((Calls \ {k}) \X (1..DemoSize)) \cup ({k} \X (1..todo))
       PROVE  r + w <= DemoSize * calls
  <2>1. DemoQueue' = DemoQueue
    BY <1>10 DEF CountQueue, OnlyReads, DemoQueue
  <2>2. r = q /\ r <= Cardinality(Pending) /\ Cardinality(Pending) \in Nat
    BY <1>1, <1>3, <1>5, <2>1, QueueCount, PendingIsFinite
  <2>3. r + todo <= DemoSize
    BY <1>10, <2>2
  <2>4. IsFiniteSet(Calls \ {k}) /\ Cardinality(Calls \ {k}) = calls - 1
    BY <1>2, CallsCount, FS_RemoveElement
  <2>5. IsFiniteSet(1..DemoSize) /\ Cardinality(1..DemoSize) = DemoSize
    BY FS_Interval
  <2>6. IsFiniteSet(1..todo) /\ Cardinality(1..todo) = todo
    BY <1>10, FS_Interval
  <2>7. PICK rest \in Nat : rest = calls - 1
    BY <1>2, <2>4, CallsCount, FS_CardinalityType
  <2>8. /\ IsFiniteSet((Calls \ {k}) \X (1..DemoSize))
        /\ Cardinality((Calls \ {k}) \X (1..DemoSize)) = rest * DemoSize
    <3>1. /\ IsFiniteSet((Calls \ {k}) \X (1..DemoSize))
          /\ Cardinality((Calls \ {k}) \X (1..DemoSize))
               = Cardinality(Calls \ {k}) * Cardinality(1..DemoSize)
      BY <2>4, <2>5, FS_Product
    <3> QED
      BY <2>4, <2>5, <2>7, <3>1
  <2>9. IsFiniteSet({k} \X (1..todo)) /\ Cardinality({k} \X (1..todo)) = todo
    <3>1. IsFiniteSet({k}) /\ Cardinality({k}) = 1
      BY FS_Singleton
    <3>2. IsFiniteSet({k} \X (1..todo)) /\ Cardinality({k} \X (1..todo)) = 1 * todo
      BY <2>6, <3>1, FS_Product, ZenonT(40)
    <3> QED
      BY <3>2, <1>10
  <2> DEFINE Others == (Calls \ {k}) \X (1..DemoSize)
             Mine == {k} \X (1..todo)
  <2>10. /\ IsFiniteSet(Others \cup Mine)
         /\ Cardinality(Others \cup Mine) = rest * DemoSize + todo - 0
    <3>1. Others \cap Mine = {}
      OBVIOUS
    <3>2. IsFiniteSet(Others) /\ IsFiniteSet(Mine)
      BY <2>8, <2>9
    <3>3. Cardinality(Others) = rest * DemoSize /\ Cardinality(Mine) = todo
      BY <2>8, <2>9
    <3> HIDE DEF Others, Mine
    <3>4. /\ IsFiniteSet(Others \cup Mine)
          /\ Cardinality(Others \cup Mine) = Cardinality(Others) + Cardinality(Mine) - Cardinality({})
      BY <3>1, <3>2, FS_Union
    <3> QED
      BY <3>3, <3>4, FS_EmptySet
  <2>11. w <= rest * DemoSize + todo
    <3>1. Owed' \subseteq Others \cup Mine
      BY <1>10
    <3>2. PICK m \in Nat : m = rest * DemoSize + todo
      OBVIOUS
    <3>3. w <= Cardinality(Others \cup Mine)
      BY <1>5, <2>10, <3>1, FS_Subset
    <3> QED
      BY <2>10, <3>2, <3>3
  <2>12. DemoSize * calls = rest * DemoSize + DemoSize
    <3>1. calls = rest + 1
      BY <1>2, <2>7
    <3> QED
      BY <3>1
  <2>13. PICK m \in Nat : m = rest * DemoSize
    OBVIOUS
  <2> QED
    BY <2>3, <2>11, <2>12, <2>13
<1> QED
  BY <1>8, <1>9, <1>10, QueueMoves, OwedMoves

\* However the top-ups overlap, what they record between two reviews is at most a whole queue
\* for each request that is served at the same time (DemoQueueBounded).
THEOREM DemoQueueStaysBounded == CustodySpec => []DemoQueueBounded
<1>1. CustodyInit => QueueFits
  <2> SUFFICES ASSUME CustodyInit PROVE Cardinality(DemoQueue) = 0 /\ Cardinality(Owed) = 0
    <3>1. Cardinality(Calls) \in Nat
      BY CallsCount
    <3> QED
      BY <3>1 DEF QueueFits
  <2>1. Len(bags) = 1 /\ ~ bags[1].demo
    BY DEF CustodyInit, NewBag
  <2>2. DemoQueue = {}
    BY <2>1 DEF DemoQueue
  <2>3. Owed = {}
    BY Nobody DEF CustodyInit, Owed
  <2> QED
    BY <2>2, <2>3, FS_EmptySet
<1>2. CInv /\ QueueFits /\ [CustodyNext]_custodyVars => QueueFits'
  <2> SUFFICES ASSUME CInv, QueueFits, [CustodyNext]_custodyVars PROVE QueueFits'
    OBVIOUS
  <2>1. CASE UNCHANGED custodyVars
    BY <2>1 DEF custodyVars, custodyState, QueueFits, DemoQueue, Owed
  <2>2. CASE RestartCustody
    <3>1. DemoQueue' = DemoQueue
      BY <2>2 DEF RestartCustody, DemoQueue
    <3>2. Owed' = {}
      BY <2>2, Nobody DEF RestartCustody, Owed
    <3>3. Cardinality(Owed') = 0
      BY <3>2, FS_EmptySet
    <3>4. PICK q \in Nat, o \in Nat : q = Cardinality(DemoQueue) /\ o = Cardinality(Owed)
      BY QueueCount DEF CInv
    <3>5. PICK calls \in Nat : calls = Cardinality(Calls)
      BY CallsCount
    <3>6. DemoSize * calls \in Nat
      OBVIOUS
    <3> QED
      BY <3>1, <3>3, <3>4, <3>5, <3>6 DEF QueueFits
  <2> QED
    BY <2>1, <2>2, QueueFitsStep DEF CustodyNext
<1>3. CInv /\ QueueFits => DemoQueueBounded
  <2> SUFFICES ASSUME CInv, QueueFits PROVE DemoQueueBounded
    OBVIOUS
  <2>1. PICK q \in Nat, o \in Nat : q = Cardinality(DemoQueue) /\ o = Cardinality(Owed)
    BY QueueCount DEF CInv
  <2>2. PICK calls \in Nat : calls = Cardinality(Calls)
    BY CallsCount
  <2>3. DemoSize * calls \in Nat
    OBVIOUS
  <2>4. q <= DemoSize * calls
    BY <2>1, <2>2, <2>3 DEF QueueFits
  <2> QED
    BY <2>1, <2>2, <2>4 DEF DemoQueueBounded, DemoQueue
<1> QED
  BY <1>1, <1>2, <1>3, CustodyInvariant, PTL DEF CustodySpec
=============================================================================

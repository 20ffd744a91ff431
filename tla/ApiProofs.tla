------------------------------ MODULE ApiProofs ------------------------------
(***************************************************************************)
(* Proofs about what people and their apps hold: the records they create   *)
(* under their idempotency keys (Ledger), the grant an app signs in with   *)
(* (Grants), the category of a trip (Trips) and the boundaries a person    *)
(* edits into the trips (DetectorWindow), for every number of requests,    *)
(* rows, apps, grants, trips, places, rules and fixes, whatever the rules  *)
(* say and the detector's parameters are: MatchRule is not looked into.    *)
(***************************************************************************)
EXTENDS Ledger, Grants, Trips, DetectorWindow,
        SequenceTheorems, FiniteSetTheorems, TLAPS

ItemFields == {"state", "table", "key", "body", "by", "trip"}
CallFields == {"pc", "tries", "row", "trip"}
SetterFields == {"pc", "car", "old"}

ItemsTypeOK ==
    /\ DOMAIN item = Item
    /\ \A i \in Item : DOMAIN item[i] = ItemFields
    /\ \A i \in Item : item[i].state \in {"unborn", "pending", "stored", "gone"}

CallsTypeOK ==
    /\ DOMAIN call = Request
    /\ \A q \in Request : DOMAIN call[q] = CallFields

\* One holder of a key, whether it has committed or not.
KeysHeldOnce ==
    \A i, j \in Item :
        (/\ item[i].state \in {"pending", "stored"} /\ item[j].state \in {"pending", "stored"}
         /\ item[i].table = item[j].table
         /\ item[i].key = item[j].key /\ item[i].key # Nil) => i = j

\* A record that a request made is the one row of that request, which has not failed;
\* one that is not committed belongs to a request that is about to.
MakersKnow ==
    \A i \in Item :
        /\ item[i].by \in Request =>
             call[item[i].by].pc \in {"inserted", "created"} /\ call[item[i].by].row = i
        /\ item[i].state = "pending" =>
             item[i].by \in Request /\ call[item[i].by].pc = "inserted"

RowSays(q, i) ==
    <<item[i].table, item[i].key, item[i].body>> = <<Asks[q].table, Asks[q].key, Asks[q].body>>

\* The row that a request holds or was answered with is the row that it asked for.
RowsStand ==
    \A q \in Request :
        /\ call[q].pc = "inserted" =>
             /\ call[q].row \in Item /\ item[call[q].row].state = "pending"
             /\ item[call[q].row].by = q /\ RowSays(q, call[q].row)
        /\ call[q].pc \in {"created", "replayed"} =>
             /\ call[q].row \in Item /\ item[call[q].row].state \in {"stored", "gone"}
             /\ RowSays(q, call[q].row)

RequestsIInv == ItemsTypeOK /\ CallsTypeOK /\ KeysHeldOnce /\ MakersKnow /\ RowsStand

\* A vehicle that a setter has locked is in use or will be, no other setter has it, and
\* there is one default at most, which is in use.
VehiclesIInv ==
    /\ DOMAIN car = Vehicle /\ DOMAIN setter = Setter
    /\ \A s \in Setter : DOMAIN setter[s] = SetterFields
    /\ \A s \in Setter :
         setter[s].pc \in {"locked", "clearing", "cleared"} =>
             setter[s].car \in Vehicle /\ car[setter[s].car] \in {"none", "active"}
    /\ \A s \in Setter : setter[s].pc # "unlocked"
    /\ default \subseteq Vehicle /\ \A v, w \in default : v = w
    /\ \A v \in default : car[v] = "active"

-----------------------------------------------------------------------------

LEMMA FreshItemUnborn ==
    ASSUME \E i \in Item : item[i].state = "unborn"
    PROVE  FreshItem \in Item /\ item[FreshItem].state = "unborn"
  BY DEF FreshItem

\* The answer, or the next step, of a request that holds no row.
LEMMA RequestMoves ==
    ASSUME RequestsIInv, NEW q \in Request, call[q].pc \notin {"inserted", "created"},
           NEW c, DOMAIN c = CallFields,
           c.pc # "inserted",
           c.pc \in {"created", "replayed"} =>
               /\ c.row \in Item /\ item[c.row].state \in {"stored", "gone"} /\ RowSays(q, c.row),
           call' = [call EXCEPT ![q] = c], item' = item
    PROVE  RequestsIInv'
<1>1. \A p \in Request : call'[p] = IF p = q THEN c ELSE call[p]
  BY DEF RequestsIInv, CallsTypeOK
<1>2. ItemsTypeOK' /\ KeysHeldOnce'
  BY DEF RequestsIInv, ItemsTypeOK, KeysHeldOnce
<1>3. CallsTypeOK'
  BY <1>1 DEF RequestsIInv, CallsTypeOK
<1>4. MakersKnow'
  BY <1>1 DEF RequestsIInv, MakersKnow
<1>5. RowsStand'
  BY <1>1 DEF RequestsIInv, RowsStand, RowSays
<1> QED BY <1>2, <1>3, <1>4, <1>5 DEF RequestsIInv

LEMMA RequestsStep ==
    ASSUME RequestsIInv, [RequestNext]_ledgerVars
    PROVE  RequestsIInv'
<1>1. ASSUME UNCHANGED <<item, call>> PROVE RequestsIInv'
  BY <1>1 DEF RequestsIInv, ItemsTypeOK, CallsTypeOK, KeysHeldOnce, MakersKnow, RowsStand, RowSays
<1>2. ASSUME NEW q \in Request, NEW t, Validate(q, t) PROVE RequestsIInv'
  <2> DEFINE c == [call[q] EXCEPT !.pc = "valid", !.trip = t]
  <2>1. DOMAIN c = CallFields /\ c.pc = "valid"
    BY DEF RequestsIInv, CallsTypeOK, CallFields
  <2>2. call[q].pc = "new" /\ call' = [call EXCEPT ![q] = c] /\ item' = item
    BY <1>2 DEF Validate
  <2> HIDE DEF c
  <2> QED BY <2>1, <2>2, RequestMoves
<1>3. ASSUME NEW q \in Request, Conflict(q) PROVE RequestsIInv'
  <2> DEFINE c == [call[q] EXCEPT !.pc = "conflict", !.tries = call[q].tries + 1]
  <2>1. DOMAIN c = CallFields /\ c.pc = "conflict"
    BY DEF RequestsIInv, CallsTypeOK, CallFields
  <2>2. call[q].pc = "valid" /\ call' = [call EXCEPT ![q] = c] /\ item' = item
    BY <1>3 DEF Conflict, RequestsIInv, CallsTypeOK
  <2> HIDE DEF c
  <2> QED BY <2>1, <2>2, RequestMoves
<1>4. ASSUME NEW q \in Request, NEW pc \in {"refused", "replayed"}, NEW row, Answer(q, pc, row),
             call[q].pc \notin {"inserted", "created"}, item' = item,
             pc = "replayed" => row \in Item /\ item[row].state = "stored" /\ RowSays(q, row)
      PROVE  RequestsIInv'
  <2> DEFINE c == [NewRequest EXCEPT !.pc = pc, !.row = row]
  <2>1. call' = [call EXCEPT ![q] = c]
    BY <1>4 DEF Answer
  <2>2. DOMAIN c = CallFields /\ c.pc = pc /\ c.row = row
    BY DEF NewRequest, CallFields
  <2> HIDE DEF c
  <2> QED BY <1>4, <2>1, <2>2, RequestMoves
<1>5. ASSUME NEW q \in Request, ForeignKeyViolation(q) PROVE RequestsIInv'
  BY <1>4, <1>5 DEF ForeignKeyViolation
<1>6. ASSUME NEW q \in Request, Replay(q) PROVE RequestsIInv'
  <2>1. call[q].pc = "conflict" /\ item' = item
    BY <1>6 DEF Replay
  <2>2. ASSUME NEW i \in Holders(q) \cap Stored(Asks[q].table), item[i].body = Asks[q].body,
               Answer(q, "replayed", i)
        PROVE  RequestsIInv'
    BY <1>4, <2>1, <2>2 DEF Holders, Stored, RowSays
  <2>3. CASE Answer(q, "refused", Nil)
    BY <1>4, <2>1, <2>3
  <2>4. CASE call' = [call EXCEPT ![q].pc = "valid"]
    <3> DEFINE c == [call[q] EXCEPT !.pc = "valid"]
    <3>1. DOMAIN c = CallFields /\ c.pc = "valid"
      BY DEF RequestsIInv, CallsTypeOK, CallFields
    <3>2. call' = [call EXCEPT ![q] = c]
      BY <2>4
    <3> HIDE DEF c
    <3> QED BY <2>1, <3>1, <3>2, RequestMoves
  <2> QED BY <1>6, <2>2, <2>3, <2>4 DEF Replay
<1>7. ASSUME NEW q \in Request, Insert(q) PROVE RequestsIInv'
  <2> DEFINE f == FreshItem
             c == [call[q] EXCEPT !.pc = "inserted", !.row = f]
             r == [state |-> "pending", table |-> Asks[q].table, key |-> Asks[q].key,
                   body |-> Asks[q].body, by |-> q, trip |-> call[q].trip]
  <2>1. /\ call[q].pc = "valid" /\ Holders(q) = {}
        /\ f \in Item /\ item[f].state = "unborn"
        /\ item' = [item EXCEPT ![f] = r] /\ call' = [call EXCEPT ![q] = c]
    BY <1>7, FreshItemUnborn DEF Insert, Inserted, RequestsIInv, CallsTypeOK
  <2>2. DOMAIN c = CallFields /\ c.pc = "inserted" /\ c.row = f
    BY DEF RequestsIInv, CallsTypeOK, CallFields
  <2> HIDE DEF f, c
  <2>3. /\ \A i \in Item : item'[i] = IF i = f THEN r ELSE item[i]
        /\ \A p \in Request : call'[p] = IF p = q THEN c ELSE call[p]
    BY <2>1 DEF RequestsIInv, ItemsTypeOK, CallsTypeOK
  <2>4. ItemsTypeOK' /\ CallsTypeOK'
    BY <2>1, <2>2, <2>3 DEF RequestsIInv, ItemsTypeOK, CallsTypeOK, ItemFields
  <2>5. KeysHeldOnce'
    BY <2>1, <2>3 DEF RequestsIInv, KeysHeldOnce, Holders
  <2>6. MakersKnow'
    BY <2>1, <2>2, <2>3 DEF RequestsIInv, MakersKnow
  <2>7. RowsStand'
    BY <2>1, <2>2, <2>3 DEF RequestsIInv, RowsStand, RowSays
  <2> QED BY <2>4, <2>5, <2>6, <2>7 DEF RequestsIInv
<1>8. ASSUME NEW q \in Request, Commit(q) PROVE RequestsIInv'
  <2> DEFINE f == call[q].row
             c == [NewRequest EXCEPT !.pc = "created", !.row = f]
             r == [item[f] EXCEPT !.state = "stored"]
  <2>1. /\ call[q].pc = "inserted" /\ f \in Item /\ item[f].state = "pending"
        /\ item[f].by = q /\ RowSays(q, f)
        /\ item' = [item EXCEPT ![f] = r] /\ call' = [call EXCEPT ![q] = c]
    BY <1>8 DEF Commit, Answer, RequestsIInv, RowsStand
  <2>2. /\ DOMAIN c = CallFields /\ c.pc = "created" /\ c.row = f
        /\ DOMAIN r = ItemFields /\ r.state = "stored" /\ r.by = item[f].by
        /\ r.table = item[f].table /\ r.key = item[f].key /\ r.body = item[f].body
    BY <2>1 DEF RequestsIInv, ItemsTypeOK, ItemFields, CallFields, NewRequest
  <2> HIDE DEF f, r, c
  <2>3. /\ \A i \in Item : item'[i] = IF i = f THEN r ELSE item[i]
        /\ \A p \in Request : call'[p] = IF p = q THEN c ELSE call[p]
    BY <2>1 DEF RequestsIInv, ItemsTypeOK, CallsTypeOK
  <2>4. ItemsTypeOK' /\ CallsTypeOK'
    BY <2>1, <2>2, <2>3 DEF RequestsIInv, ItemsTypeOK, CallsTypeOK
  <2>5. KeysHeldOnce'
    BY <2>1, <2>2, <2>3 DEF RequestsIInv, KeysHeldOnce
  <2>6. \A p \in Request : p # q => (call[p].pc = "inserted" => call[p].row # f)
    BY <2>1 DEF RequestsIInv, RowsStand
  <2>7. MakersKnow'
    BY <2>1, <2>2, <2>3 DEF RequestsIInv, MakersKnow, f
  <2>8. RowsStand'
    BY <2>1, <2>2, <2>3, <2>6 DEF RequestsIInv, RowsStand, RowSays
  <2> QED BY <2>4, <2>5, <2>7, <2>8 DEF RequestsIInv
<1>9. ASSUME NEW q \in Request, RollBack(q) PROVE RequestsIInv'
  <2> DEFINE f == call[q].row
             c == [NewRequest EXCEPT !.pc = "refused", !.row = Nil]
  <2>1. /\ call[q].pc = "inserted" /\ f \in Item /\ item[f].state = "pending"
        /\ item[f].by = q /\ RowSays(q, f)
        /\ item' = [item EXCEPT ![f] = NoItem] /\ call' = [call EXCEPT ![q] = c]
    BY <1>9 DEF RollBack, Answer, RequestsIInv, RowsStand
  <2>2. /\ DOMAIN c = CallFields /\ c.pc = "refused"
        /\ DOMAIN NoItem = ItemFields /\ NoItem.state = "unborn" /\ NoItem.by = Nil
    BY DEF NoItem, ItemFields, CallFields, NewRequest
  <2> HIDE DEF c
  <2>3. /\ \A i \in Item : item'[i] = IF i = f THEN NoItem ELSE item[i]
        /\ \A p \in Request : call'[p] = IF p = q THEN c ELSE call[p]
    BY <2>1 DEF RequestsIInv, ItemsTypeOK, CallsTypeOK
  <2>4. ItemsTypeOK' /\ CallsTypeOK'
    BY <2>1, <2>2, <2>3 DEF RequestsIInv, ItemsTypeOK, CallsTypeOK
  <2>5. KeysHeldOnce'
    BY <2>1, <2>2, <2>3 DEF RequestsIInv, KeysHeldOnce
  <2>6. MakersKnow'
    BY <2>1, <2>2, <2>3, LedgerAssumption DEF RequestsIInv, MakersKnow
  <2>7. \A p \in Request : p # q => (call[p].pc = "inserted" => call[p].row # f)
    BY <2>1 DEF RequestsIInv, RowsStand
  <2>8. RowsStand'
    BY <2>1, <2>2, <2>3, <2>7 DEF RequestsIInv, RowsStand, RowSays
  <2> QED BY <2>4, <2>5, <2>6, <2>8 DEF RequestsIInv
<1>10. ASSUME NEW i \in Item, DeleteRecord(i) PROVE RequestsIInv'
  <2> DEFINE gone == [NoItem EXCEPT !.state = "gone", !.table = item[i].table,
                                     !.key = item[i].key, !.body = item[i].body]
  <2>1. item[i].state = "stored" /\ call' = call
    BY <1>10 DEF DeleteRecord
  <2>2. /\ DOMAIN gone = ItemFields /\ gone.state = "gone" /\ gone.by = Nil
        /\ gone.table = item[i].table /\ gone.key = item[i].key /\ gone.body = item[i].body
    BY DEF NoItem, ItemFields
  <2>3. \A j \in Item :
           LET r == [item[j] EXCEPT !.trip = Nil]
           IN /\ DOMAIN r = ItemFields /\ r.state = item[j].state /\ r.by = item[j].by
              /\ r.table = item[j].table /\ r.key = item[j].key /\ r.body = item[j].body
    BY DEF RequestsIInv, ItemsTypeOK, ItemFields
  <2> HIDE DEF gone
  <2>4. /\ DOMAIN item' = Item /\ item'[i] = gone
        /\ \A j \in Item \ {i} : item'[j] = item[j] \/ item'[j] = [item[j] EXCEPT !.trip = Nil]
    <3>1. item' = [j \in Item |-> CASE j = i -> gone
                                   [] j # i /\ item[j].trip = i -> [item[j] EXCEPT !.trip = Nil]
                                   [] OTHER -> item[j]]
      BY <1>10 DEF DeleteRecord, gone
    <3> QED BY <3>1
  <2>5. /\ item'[i].state = "gone" /\ item'[i].by = Nil
        /\ item'[i].table = item[i].table /\ item'[i].key = item[i].key /\ item'[i].body = item[i].body
        /\ \A j \in Item : DOMAIN item'[j] = ItemFields
        /\ \A j \in Item \ {i} :
             /\ item'[j].state = item[j].state /\ item'[j].by = item[j].by
             /\ item'[j].table = item[j].table /\ item'[j].key = item[j].key
             /\ item'[j].body = item[j].body
    BY <2>2, <2>3, <2>4 DEF RequestsIInv, ItemsTypeOK
  <2>6. ItemsTypeOK' /\ CallsTypeOK'
    BY <2>1, <2>4, <2>5 DEF RequestsIInv, ItemsTypeOK, CallsTypeOK
  <2>7. KeysHeldOnce'
    BY <2>1, <2>5 DEF RequestsIInv, KeysHeldOnce
  <2>8. MakersKnow'
    BY <2>1, <2>5, LedgerAssumption DEF RequestsIInv, MakersKnow
  <2>9. RowsStand'
    BY <2>1, <2>5 DEF RequestsIInv, RowsStand, RowSays
  <2> QED BY <2>6, <2>7, <2>8, <2>9 DEF RequestsIInv
<1>11. ASSUME NEW r, DOMAIN r = ItemFields, r.state = "stored", r.key = Nil, r.by = Nil,
              \E i \in Item : item[i].state = "unborn", item' = [item EXCEPT ![FreshItem] = r],
              call' = call
       PROVE  RequestsIInv'
  <2> DEFINE f == FreshItem
  <2>1. f \in Item /\ item[f].state = "unborn" /\ item' = [item EXCEPT ![f] = r]
    BY <1>11, FreshItemUnborn
  <2> HIDE DEF f
  <2>2. \A i \in Item : item'[i] = IF i = f THEN r ELSE item[i]
    BY <2>1 DEF RequestsIInv, ItemsTypeOK
  <2>3. ItemsTypeOK' /\ CallsTypeOK'
    BY <1>11, <2>1, <2>2 DEF RequestsIInv, ItemsTypeOK, CallsTypeOK
  <2>4. KeysHeldOnce'
    BY <1>11, <2>1, <2>2 DEF RequestsIInv, KeysHeldOnce
  <2>5. MakersKnow'
    BY <1>11, <2>1, <2>2, LedgerAssumption DEF RequestsIInv, MakersKnow
  <2>6. RowsStand'
    BY <1>11, <2>1, <2>2 DEF RequestsIInv, RowsStand, RowSays
  <2> QED BY <2>3, <2>4, <2>5, <2>6 DEF RequestsIInv
<1>12. ASSUME NEW table, AddRecord(table) PROVE RequestsIInv'
  <2> DEFINE r == [NoItem EXCEPT !.state = "stored", !.table = table]
  <2>1. DOMAIN r = ItemFields /\ r.state = "stored" /\ r.key = Nil /\ r.by = Nil
    BY DEF NoItem, ItemFields
  <2>2. /\ \E i \in Item : item[i].state = "unborn"
        /\ item' = [item EXCEPT ![FreshItem] = r] /\ call' = call
    BY <1>12 DEF AddRecord
  <2> HIDE DEF r
  <2> QED BY <1>11, <2>1, <2>2
<1>13. ASSUME NEW t, AddTripExpense(t) PROVE RequestsIInv'
  <2> DEFINE r == [NoItem EXCEPT !.state = "stored", !.table = Expenses, !.trip = t]
  <2>1. DOMAIN r = ItemFields /\ r.state = "stored" /\ r.key = Nil /\ r.by = Nil
    BY DEF NoItem, ItemFields
  <2>2. /\ \E i \in Item : item[i].state = "unborn"
        /\ item' = [item EXCEPT ![FreshItem] = r] /\ call' = call
    BY <1>13 DEF AddTripExpense
  <2> HIDE DEF r
  <2> QED BY <1>11, <2>1, <2>2
<1>14. ASSUME NEW i \in Item, NEW t, LinkExpense(i, t) PROVE RequestsIInv'
  <2> DEFINE r == [item[i] EXCEPT !.trip = t]
  <2>1. item' = [item EXCEPT ![i] = r] /\ call' = call
    BY <1>14 DEF LinkExpense
  <2>2. /\ DOMAIN r = ItemFields /\ r.state = item[i].state /\ r.by = item[i].by
        /\ r.table = item[i].table /\ r.key = item[i].key /\ r.body = item[i].body
    BY DEF RequestsIInv, ItemsTypeOK, ItemFields
  <2> HIDE DEF r
  <2>3. \A j \in Item : item'[j] = IF j = i THEN r ELSE item[j]
    BY <2>1 DEF RequestsIInv, ItemsTypeOK
  <2>4. \A j \in Item :
           /\ item'[j].state = item[j].state /\ item'[j].by = item[j].by
           /\ item'[j].table = item[j].table /\ item'[j].key = item[j].key
           /\ item'[j].body = item[j].body
    BY <2>2, <2>3
  <2>5. ItemsTypeOK' /\ CallsTypeOK'
    BY <2>1, <2>2, <2>3 DEF RequestsIInv, ItemsTypeOK, CallsTypeOK
  <2>6. KeysHeldOnce'
    BY <2>4 DEF RequestsIInv, KeysHeldOnce
  <2>7. MakersKnow'
    BY <2>1, <2>4 DEF RequestsIInv, MakersKnow
  <2>8. RowsStand'
    BY <2>1, <2>4 DEF RequestsIInv, RowsStand, RowSays
  <2> QED BY <2>5, <2>6, <2>7, <2>8 DEF RequestsIInv
<1> QED
  BY <1>1, <1>2, <1>3, <1>5, <1>6, <1>7, <1>8, <1>9, <1>10, <1>12, <1>13, <1>14
  DEF RequestNext, ledgerVars

-----------------------------------------------------------------------------

LEMMA VehiclesStep ==
    ASSUME VehiclesIInv, [VehicleNext]_ledgerVars
    PROVE  VehiclesIInv'
<1>1. ASSUME UNCHANGED vehicleVars PROVE VehiclesIInv'
  BY <1>1 DEF VehiclesIInv, vehicleVars
<1>2. ASSUME NEW s \in Setter, NEW x, Step(s, x), DOMAIN x = SetterFields,
             x.pc \in {"locked", "clearing", "cleared"},
             x.car \in Vehicle /\ car[x.car] \in {"none", "active"}
      PROVE  VehiclesIInv'
  <2>1. \A t \in Setter : setter'[t] = IF t = s THEN x ELSE setter[t]
    BY <1>2 DEF Step, VehiclesIInv
  <2> QED BY <1>2, <2>1 DEF Step, VehiclesIInv
<1>3. ASSUME NEW s \in Setter, NEW v \in Vehicle, LockVehicle(s, v) \/ AddDefaultVehicle(s, v)
      PROVE  VehiclesIInv'
  BY <1>2, <1>3 DEF LockVehicle, AddDefaultVehicle, SetterFields
<1>4. ASSUME NEW s \in Setter, SeeDefault(s) PROVE VehiclesIInv'
  <2>1. setter[s].pc = "locked"
    BY <1>4 DEF SeeDefault, VehiclesIInv
  <2>2. PICK x : Step(s, x) /\ \/ x = [setter[s] EXCEPT !.pc = "cleared"]
                               \/ \E v : x = [setter[s] EXCEPT !.pc = "clearing", !.old = v]
    BY <1>4 DEF SeeDefault
  <2>3. DOMAIN x = SetterFields /\ x.pc \in {"clearing", "cleared"} /\ x.car = setter[s].car
    BY <2>2 DEF VehiclesIInv, SetterFields
  <2> QED BY <1>2, <2>1, <2>2, <2>3 DEF VehiclesIInv
<1>5. ASSUME NEW s \in Setter, ClearDefault(s) PROVE VehiclesIInv'
  <2>1. PICK x : Step(s, x) /\ \E v : x = [setter[s] EXCEPT !.pc = "cleared", !.old = v]
    BY <1>5 DEF ClearDefault
  <2>2. DOMAIN x = SetterFields /\ x.pc = "cleared" /\ x.car = setter[s].car
    BY <2>1 DEF VehiclesIInv, SetterFields
  <2>3. setter[s].pc = "clearing"
    BY <1>5 DEF ClearDefault
  <2> QED BY <1>2, <2>1, <2>2, <2>3 DEF VehiclesIInv
<1>6. ASSUME NEW s \in Setter, SetDefaultVehicle(s) PROVE VehiclesIInv'
  <2>1. \A t \in Setter : setter'[t] = IF t = s THEN NoSetter ELSE setter[t]
    BY <1>6 DEF SetDefaultVehicle, VehiclesIInv
  <2>2. setter[s].car \in Vehicle /\ car[setter[s].car] \in {"none", "active"}
    BY <1>6 DEF SetDefaultVehicle, VehiclesIInv
  <2>3. CASE UNCHANGED <<car, default>>
    BY <1>6, <2>1, <2>3 DEF VehiclesIInv, NoSetter, SetterFields, SetDefaultVehicle
  <2>4. CASE /\ default' = {setter[s].car}
             /\ car' = [car EXCEPT ![setter[s].car] = IF @ = "none" THEN "active" ELSE @]
    <3>1. \A v \in Vehicle : car'[v] = IF v = setter[s].car THEN "active" ELSE car[v]
      BY <2>2, <2>4 DEF VehiclesIInv
    <3> QED BY <1>6, <2>1, <2>2, <2>4, <3>1 DEF VehiclesIInv, NoSetter, SetterFields, SetDefaultVehicle
  <2> QED BY <1>6, <2>3, <2>4 DEF SetDefaultVehicle
<1>7. ASSUME NEW v \in Vehicle, AddVehicle(v) PROVE VehiclesIInv'
  <2>1. \A w \in Vehicle : car'[w] = IF w = v THEN "active" ELSE car[w]
    BY <1>7 DEF AddVehicle, VehiclesIInv
  <2> QED BY <1>7, <2>1 DEF AddVehicle, VehiclesIInv
<1>8. ASSUME NEW v \in Vehicle, DeactivateVehicle(v) PROVE VehiclesIInv'
  <2>1. \A w \in Vehicle : car'[w] = IF w = v THEN "retired" ELSE car[w]
    BY <1>8 DEF DeactivateVehicle, VehiclesIInv
  <2>2. \A s \in Setter : setter[s].pc \in {"locked", "clearing", "cleared"} => setter[s].car # v
    BY <1>8 DEF DeactivateVehicle, Unlocked, Holds
  <2> QED BY <1>8, <2>1, <2>2 DEF DeactivateVehicle, VehiclesIInv
<1> QED
  BY <1>1, <1>3, <1>4, <1>5, <1>6, <1>7, <1>8 DEF VehicleNext, ledgerVars

-----------------------------------------------------------------------------

RecordsIInv == RequestsIInv /\ VehiclesIInv

LEMMA LedgerInitIInv == LedgerInit => RecordsIInv
<1> SUFFICES ASSUME LedgerInit PROVE RecordsIInv
  OBVIOUS
<1>1. RequestsIInv
  BY LedgerAssumption DEF LedgerInit, RequestsIInv, ItemsTypeOK, CallsTypeOK, KeysHeldOnce,
     MakersKnow, RowsStand, ItemFields, CallFields, NoItem, NewRequest
<1>2. VehiclesIInv
  BY DEF LedgerInit, VehiclesIInv, NoSetter, SetterFields
<1> QED BY <1>1, <1>2 DEF RecordsIInv

\* Requests and setters share no table.
LEMMA LedgerNextIInv == RecordsIInv /\ [LedgerNext]_ledgerVars => RecordsIInv'
<1> SUFFICES ASSUME RecordsIInv, [LedgerNext]_ledgerVars PROVE RecordsIInv'
  OBVIOUS
<1>1. ASSUME UNCHANGED <<item, call>> PROVE RequestsIInv'
  BY <1>1 DEF RecordsIInv, RequestsIInv, ItemsTypeOK, CallsTypeOK, KeysHeldOnce, MakersKnow,
     RowsStand, RowSays
<1>2. ASSUME UNCHANGED vehicleVars PROVE VehiclesIInv'
  BY <1>2 DEF RecordsIInv, VehiclesIInv, vehicleVars
<1>3. CASE RequestNext
  <2>1. UNCHANGED vehicleVars
    BY <1>3 DEF RequestNext, Insert, Conflict, ForeignKeyViolation, Replay, Commit, RollBack,
       Validate, DeleteRecord, AddTripExpense, AddRecord, LinkExpense
  <2> QED BY <1>2, <1>3, <2>1, RequestsStep DEF RecordsIInv
<1>4. CASE VehicleNext
  <2>1. UNCHANGED <<item, call>>
    BY <1>4 DEF VehicleNext, SeeDefault, ClearDefault, SetDefaultVehicle, LockVehicle,
       AddDefaultVehicle, AddVehicle, DeactivateVehicle, Step
  <2> QED BY <1>1, <1>4, <2>1, VehiclesStep DEF RecordsIInv
<1> QED
  BY <1>1, <1>2, <1>3, <1>4 DEF LedgerNext, ledgerVars, RecordsIInv

\* A record for each key and for no refused request, whatever repeats, deletions and
\* rollbacks interleave (create_manual_trip, create_expense), and at most one default
\* vehicle, which is in use (set_default_vehicle, deactivate_vehicle).
THEOREM RecordsAlwaysStand == LedgerSpec => []RecordsStand
<1>1. LedgerSpec => []RecordsIInv
  BY LedgerInitIInv, LedgerNextIInv, PTL DEF LedgerSpec
<1>2. RecordsIInv => RecordsStand
  <2> SUFFICES ASSUME RecordsIInv PROVE RecordsStand
    OBVIOUS
  <2>1. OneRecordPerKey
    BY DEF RecordsIInv, RequestsIInv, KeysHeldOnce, OneRecordPerKey
  <2>2. AnswersNameTheirRecord
    BY DEF RecordsIInv, RequestsIInv, RowsStand, RowSays, AnswersNameTheirRecord
  <2>3. RefusedLeaveNothing
    BY DEF RecordsIInv, RequestsIInv, MakersKnow, RefusedLeaveNothing
  <2>4. default = {} \/ \E v : default = {v}
    <3>1. \A v, w \in default : v = w
      BY DEF RecordsIInv, VehiclesIInv
    <3>2. \A v \in default : default = {v}
      BY <3>1
    <3> QED BY <3>2
  <2>5. Cardinality(default) <= 1
    BY <2>4, FS_EmptySet, FS_Singleton
  <2>6. DefaultIsActive
    BY <2>5 DEF RecordsIInv, VehiclesIInv, DefaultIsActive
  <2> QED BY <2>1, <2>2, <2>3, <2>6 DEF RecordsStand, KeysAreFaithful
<1> QED BY <1>1, <1>2, PTL

-----------------------------------------------------------------------------
(***************************************************************************)
(* Grants.  Nothing is said of a pair alone: what keeps two holders apart  *)
(* is that an answer under way is held by nobody, and that a pair heard    *)
(* after a renewal was never copied.                                       *)
(***************************************************************************)
Holder == Grant \cup {Nobody}

ClientRow == [grant : Holder, pair : Nat, answer : Nat, of : Holder, renewed : BOOLEAN]

GrantRow == [state : {"unborn", "live", "revoked", "reused"}, ver : Nat, cur : Nat, prev : Nat,
             seen : BOOLEAN, fresh : BOOLEAN, copied : BOOLEAN]

GrantsTypeOK ==
    /\ account \in [version : Nat, enabled : BOOLEAN, left : Int]
    /\ client \in [App -> ClientRow]
    /\ grant \in [Grant -> GrantRow]
    /\ looked \subseteq Grant \X Nat
    /\ pairs \in Nat

PartOf(h, g) == client[h].grant = g \/ client[h].of = g

\* Pairs are numbered in the order of their issue, and only grants that exist are held.
Numbered ==
    /\ \A h \in App : client[h].pair <= pairs /\ client[h].answer <= pairs
    /\ \A h \in App : client[h].answer = 0 <=> client[h].of = Nobody
    /\ \A g \in Grant : grant[g].cur <= pairs /\ grant[g].prev <= pairs
    /\ \A g \in Grant : grant[g].state # "unborn" => grant[g].prev < grant[g].cur
    /\ \A p \in looked : p[2] <= pairs
    /\ \A h \in App, g \in Grant : PartOf(h, g) => grant[g].state # "unborn"

\* What one app alone has of a grant.
AloneWith(h, g) ==
    /\ \A o \in App : PartOf(o, g) => o = h
    /\ grant[g].state # "reused"
    /\ client[h].of = g => client[h].answer = grant[g].cur
    /\ client[h].grant = g =>
         /\ client[h].pair = grant[g].cur \/ (client[h].pair = grant[g].prev /\ ~grant[g].seen)
         /\ <<g, grant[g].cur>> \in looked => client[h].pair = grant[g].cur

Alone == \A g \in Grant, h \in App : ~grant[g].copied /\ PartOf(h, g) => AloneWith(h, g)

\* An answer under way is nobody else's, and not renewed from.
AnswersAreNew ==
    \A h \in App : client[h].answer # 0 =>
        /\ \A o \in App : client[o].pair # client[h].answer
        /\ \A o \in App : o # h => client[o].answer # client[h].answer
        /\ \A g \in Grant : grant[g].prev # client[h].answer

\* An app that has renewed shares its pair with nobody, and while it holds the previous
\* pair, nobody else has or gets the current one.
RenewedIsOwn ==
    \A h \in App : client[h].renewed =>
        /\ \A o \in App : o # h => client[o].pair # client[h].pair
        /\ \A g \in Grant : client[h].grant = g /\ client[h].pair = grant[g].prev =>
             \A o \in App : o # h =>
                 client[o].pair # grant[g].cur /\ client[o].answer # grant[g].cur

Parted == AnswersAreNew /\ RenewedIsOwn

\* No grant waits for a version to come, or for its account to be enabled.
VersionsPass ==
    /\ \A g \in Grant : grant[g].ver <= account.version
    /\ ~account.enabled => \A g \in Grant : grant[g].state = "live" => grant[g].ver # account.version

FewActive == IsFiniteSet(ActiveGrants) /\ Cardinality(ActiveGrants) <= Limit

GrantsIInv == GrantsTypeOK /\ Numbered /\ Alone /\ Parted /\ VersionsPass /\ FewActive

-----------------------------------------------------------------------------

\* No app holds anything.
LEMMA GrantsInitIInv == GrantsInit => GrantsIInv
<1> SUFFICES ASSUME GrantsInit PROVE GrantsIInv
  OBVIOUS
<1> USE GrantsAssumption DEF GrantsInit
<1>1. GrantsTypeOK
  BY DEF GrantsTypeOK, ClientRow, GrantRow, Holder
<1>2. \A h \in App : client[h] = [grant |-> Nobody, pair |-> 0, answer |-> 0, of |-> Nobody,
                                 renewed |-> FALSE]
  OBVIOUS
<1>3. Numbered
  BY <1>2 DEF Numbered, PartOf
<1>4. Alone /\ Parted
  BY <1>2 DEF Alone, Parted, AnswersAreNew, RenewedIsOwn, PartOf
<1>5. VersionsPass
  BY DEF VersionsPass
<1>6. ActiveGrants = {}
  BY DEF ActiveGrants, Live
<1>7. FewActive
  BY <1>6, FS_EmptySet DEF FewActive
<1> QED BY <1>1, <1>3, <1>4, <1>5, <1>7 DEF GrantsIInv

\* No handler but an exchange makes a grant active.
LEMMA FewerActive ==
    ASSUME FewActive, ActiveGrants' \subseteq ActiveGrants
    PROVE  FewActive'
<1>1. IsFiniteSet(ActiveGrants') /\ Cardinality(ActiveGrants') <= Cardinality(ActiveGrants)
  BY FS_Subset DEF FewActive
<1>2. Cardinality(ActiveGrants) \in Nat /\ Cardinality(ActiveGrants') \in Nat
  BY <1>1, FS_CardinalityType DEF FewActive
<1> QED BY <1>1, <1>2, GrantsAssumption DEF FewActive

\* Requests, cookies and codes are no part of it.
LEMMA AsideGrants ==
    ASSUME GrantsIInv, UNCHANGED <<account, grant, client, looked, pairs>>
    PROVE  GrantsIInv'
<1>1. GrantsTypeOK' /\ Numbered' /\ Alone' /\ VersionsPass'
  BY DEF GrantsIInv, GrantsTypeOK, Numbered, Alone, AloneWith, PartOf, VersionsPass
<1>2. AnswersAreNew' /\ RenewedIsOwn'
  BY DEF GrantsIInv, Parted, AnswersAreNew, RenewedIsOwn
<1>3. ActiveGrants' = ActiveGrants
  BY DEF ActiveGrants, Live, Serves
<1>4. FewActive'
  BY <1>3 DEF GrantsIInv, FewActive
<1> QED BY <1>1, <1>2, <1>4 DEF GrantsIInv, Parted

\* A grant is marked or ends; its pairs stay.
LEMMA MarkedGrant ==
    ASSUME GrantsIInv, NEW g \in Grant, NEW r \in GrantRow,
           UNCHANGED <<account, client, pairs>>, looked' \subseteq looked,
           grant' = [grant EXCEPT ![g] = r], grant[g].state = "live", r.state # "unborn",
           r.ver = grant[g].ver, r.cur = grant[g].cur, r.prev = grant[g].prev,
           r.copied = grant[g].copied,
           \A h \in App : ~grant[g].copied /\ PartOf(h, g) => r.state # "reused",
           \A h \in App : ~grant[g].copied /\ client[h].grant = g /\ r.seen =>
               grant[g].seen \/ client[h].pair = grant[g].cur
    PROVE  GrantsIInv'
<1> USE DEF GrantsIInv
<1>1. GrantsTypeOK'
  BY DEF GrantsTypeOK
<1>2. /\ DOMAIN grant = Grant /\ grant'[g] = r
      /\ \A x \in Grant \ {g} : grant'[x] = grant[x]
  BY DEF GrantsTypeOK
<1>3. \A x \in Grant : /\ grant'[x].ver = grant[x].ver /\ grant'[x].cur = grant[x].cur
                       /\ grant'[x].prev = grant[x].prev /\ grant'[x].copied = grant[x].copied
                       /\ grant'[x].state = "live" => grant[x].state = "live"
                       /\ grant'[x].state = "unborn" <=> grant[x].state = "unborn"
  BY <1>2
<1>4. Numbered'
  BY <1>3 DEF Numbered, PartOf
<1>5. Alone'
  <2> SUFFICES ASSUME NEW x \in Grant, NEW h \in App, ~grant'[x].copied, PartOf(h, x)'
               PROVE  AloneWith(h, x)'
    BY DEF Alone
  <2>1. PartOf(h, x) /\ AloneWith(h, x)
    BY <1>3 DEF Alone, PartOf
  <2>2. \A o \in App : PartOf(o, x)' => o = h
    BY <2>1 DEF AloneWith, PartOf
  <2>3. CASE x # g
    BY <1>2, <2>1, <2>2, <2>3 DEF AloneWith
  <2>4. CASE x = g
    BY <1>2, <1>3, <2>1, <2>2, <2>4 DEF AloneWith
  <2> QED BY <2>3, <2>4
<1>6. AnswersAreNew' /\ RenewedIsOwn'
  BY <1>3 DEF Parted, AnswersAreNew, RenewedIsOwn
<1>7. VersionsPass'
  BY <1>3 DEF VersionsPass
<1>8. ActiveGrants' \subseteq ActiveGrants
  BY <1>3 DEF ActiveGrants, Live, Serves
<1>9. FewActive'
  BY <1>8, FewerActive
<1> QED BY <1>1, <1>4, <1>5, <1>6, <1>7, <1>9 DEF Parted

\* An app alone with its grant never presents a pair that was seen after it.
LEMMA ReuseGrants == ASSUME GrantsIInv, NEW h \in App, ReuseDetected(h) PROVE GrantsIInv'
<1> DEFINE g == client[h].grant
           r == [grant[g] EXCEPT !.state = "reused"]
<1>1. /\ g # Nobody /\ Live(g) /\ client[h].pair = grant[g].prev /\ grant[g].seen
      /\ grant' = [grant EXCEPT ![g].state = "reused"]
      /\ UNCHANGED <<account, client, looked, pairs>>
  BY DEF ReuseDetected
<1>2. g \in Grant /\ grant[g] \in GrantRow /\ DOMAIN grant = Grant
  BY <1>1 DEF GrantsIInv, GrantsTypeOK, ClientRow, Holder
<1>3. grant' = [grant EXCEPT ![g] = r]
  BY <1>1, <1>2
<1>4. /\ r \in GrantRow /\ r.state = "reused" /\ r.ver = grant[g].ver /\ r.cur = grant[g].cur
      /\ r.prev = grant[g].prev /\ r.copied = grant[g].copied /\ r.seen = grant[g].seen
  BY <1>2 DEF GrantRow
<1>5. grant[g].state = "live"
  BY <1>1 DEF Live
<1>6. grant[g].prev # grant[g].cur
  BY <1>2, <1>5 DEF GrantsIInv, Numbered, GrantRow
<1>7. grant[g].copied
  BY <1>1, <1>2, <1>6 DEF GrantsIInv, Alone, AloneWith, PartOf
<1> HIDE DEF r
<1> QED BY <1>1, <1>2, <1>3, <1>4, <1>5, <1>7, MarkedGrant

\* The retry window ends, or the grant does.
LEMMA WindowGrants ==
    ASSUME GrantsIInv, NEW g \in Grant, RetryWindowEnds(g) \/ Revoke(g)
    PROVE  GrantsIInv'
<1>1. grant[g] \in GrantRow /\ DOMAIN grant = Grant /\ grant[g].state = "live"
  BY DEF GrantsIInv, GrantsTypeOK, RetryWindowEnds, Revoke
<1>2. UNCHANGED <<account, client, looked, pairs>>
  BY DEF RetryWindowEnds, Revoke
<1>3. \E r \in GrantRow :
         /\ grant' = [grant EXCEPT ![g] = r]
         /\ r.state \in {"live", "revoked"} /\ r.ver = grant[g].ver /\ r.cur = grant[g].cur
         /\ r.prev = grant[g].prev /\ r.copied = grant[g].copied /\ r.seen = grant[g].seen
  <2>1. CASE RetryWindowEnds(g)
    <3> DEFINE r == [grant[g] EXCEPT !.fresh = FALSE]
    <3>1. grant' = [grant EXCEPT ![g] = r]
      BY <1>1, <2>1 DEF RetryWindowEnds
    <3>2. /\ r \in GrantRow /\ r.state = "live" /\ r.ver = grant[g].ver /\ r.cur = grant[g].cur
          /\ r.prev = grant[g].prev /\ r.copied = grant[g].copied /\ r.seen = grant[g].seen
      BY <1>1 DEF GrantRow
    <3> HIDE DEF r
    <3> QED BY <3>1, <3>2
  <2>2. CASE Revoke(g)
    <3> DEFINE r == [grant[g] EXCEPT !.state = "revoked"]
    <3>1. grant' = [grant EXCEPT ![g] = r]
      BY <1>1, <2>2 DEF Revoke
    <3>2. /\ r \in GrantRow /\ r.state = "revoked" /\ r.ver = grant[g].ver /\ r.cur = grant[g].cur
          /\ r.prev = grant[g].prev /\ r.copied = grant[g].copied /\ r.seen = grant[g].seen
      BY <1>1 DEF GrantRow
    <3> HIDE DEF r
    <3> QED BY <3>1, <3>2
  <2> QED BY <2>1, <2>2
<1> QED BY <1>1, <1>2, <1>3, MarkedGrant

\* A bearer check writes what it has looked at again under the lock.
LEMMA MarkGrants ==
    ASSUME GrantsIInv, NEW g \in Grant, NEW pair \in 1..MaxPairs, Mark(g, pair)
    PROVE  GrantsIInv'
<1> DEFINE r == [grant[g] EXCEPT !.seen = TRUE]
<1>1. /\ <<g, pair>> \in looked /\ looked' \subseteq looked /\ UNCHANGED <<account, client, pairs>>
      /\ (Live(g) /\ pair = grant[g].cur /\ grant' = [grant EXCEPT ![g].seen = TRUE]) \/ grant' = grant
  BY DEF Mark, SeenAsLocked
<1>2. grant[g] \in GrantRow /\ DOMAIN grant = Grant
  BY DEF GrantsIInv, GrantsTypeOK
<1>3. CASE Live(g) /\ pair = grant[g].cur /\ grant' = [grant EXCEPT ![g].seen = TRUE]
  <2>1. grant' = [grant EXCEPT ![g] = r]
    BY <1>2, <1>3
  <2>2. /\ r \in GrantRow /\ r.state = grant[g].state /\ r.ver = grant[g].ver /\ r.cur = grant[g].cur
        /\ r.prev = grant[g].prev /\ r.copied = grant[g].copied
    BY <1>2 DEF GrantRow
  <2>3. grant[g].state = "live"
    BY <1>3 DEF Live
  <2>4. \A h \in App : ~grant[g].copied /\ client[h].grant = g => client[h].pair = grant[g].cur
    BY <1>1, <1>3 DEF GrantsIInv, Alone, AloneWith, PartOf
  <2> HIDE DEF r
  <2>5. r.state # "unborn" /\ r.state # "reused"
    BY <2>2, <2>3
  <2>6. \A h \in App : ~grant[g].copied /\ PartOf(h, g) => r.state # "reused"
    BY <2>5
  <2>7. \A h \in App : ~grant[g].copied /\ client[h].grant = g /\ r.seen =>
           grant[g].seen \/ client[h].pair = grant[g].cur
    BY <2>4
  <2>8. UNCHANGED <<account, client, pairs>> /\ looked' \subseteq looked
    BY <1>1
  <2> QED BY <2>1, <2>2, <2>3, <2>5, <2>6, <2>7, <2>8, MarkedGrant
<1>4. CASE grant' = grant
  <2>1. GrantsTypeOK' /\ Numbered' /\ Alone' /\ VersionsPass'
    BY <1>1, <1>4 DEF GrantsIInv, GrantsTypeOK, Numbered, Alone, AloneWith, PartOf, VersionsPass
  <2>2. AnswersAreNew' /\ RenewedIsOwn'
    BY <1>1, <1>4 DEF GrantsIInv, Parted, AnswersAreNew, RenewedIsOwn
  <2>3. ActiveGrants' \subseteq ActiveGrants
    BY <1>1, <1>4 DEF ActiveGrants, Live, Serves
  <2>4. FewActive'
    BY <2>3, FewerActive DEF GrantsIInv
  <2> QED BY <2>1, <2>2, <2>4 DEF GrantsIInv, Parted
<1> QED BY <1>1, <1>3, <1>4

\* A bearer check reads the row of the pair its app holds.
LEMMA LookGrants == ASSUME GrantsIInv, NEW h \in App, Look(h) PROVE GrantsIInv'
<1> DEFINE g == client[h].grant
<1>1. /\ g # Nobody /\ Live(g) /\ client[h].pair = grant[g].cur
      /\ looked' = looked \cup {<<g, client[h].pair>>}
      /\ UNCHANGED <<account, grant, client, pairs>>
  BY DEF Look
<1>2. g \in Grant /\ client[h].pair \in Nat
  BY <1>1 DEF GrantsIInv, GrantsTypeOK, ClientRow, Holder
<1>3. GrantsTypeOK' /\ Numbered' /\ VersionsPass'
  BY <1>1, <1>2 DEF GrantsIInv, GrantsTypeOK, Numbered, PartOf, VersionsPass
<1>4. Alone'
  <2> SUFFICES ASSUME NEW x \in Grant, NEW k \in App, ~grant'[x].copied, PartOf(k, x)'
               PROVE  AloneWith(k, x)'
    BY DEF Alone
  <2>1. PartOf(k, x) /\ AloneWith(k, x)
    BY <1>1 DEF GrantsIInv, Alone, PartOf
  <2>2. <<x, grant[x].cur>> \in looked' => <<x, grant[x].cur>> \in looked \/ x = g
    BY <1>1
  <2>3. x = g => k = h
    BY <2>1 DEF AloneWith, PartOf
  <2> QED BY <1>1, <2>1, <2>2, <2>3 DEF AloneWith, PartOf
<1>5. AnswersAreNew' /\ RenewedIsOwn'
  BY <1>1 DEF GrantsIInv, Parted, AnswersAreNew, RenewedIsOwn
<1>6. ActiveGrants' \subseteq ActiveGrants
  BY <1>1 DEF ActiveGrants, Live, Serves
<1>7. FewActive'
  BY <1>6, FewerActive DEF GrantsIInv
<1> QED BY <1>3, <1>4, <1>5, <1>7 DEF GrantsIInv, Parted

\* An answer comes: its pair is the current one, and held by nobody else.
LEMMA HearGrants == ASSUME GrantsIInv, NEW h \in App, Hear(h) PROVE GrantsIInv'
<1> DEFINE g == client[h].of
           a == client[h].answer
<1>1. client[h] \in ClientRow /\ DOMAIN client = App
  BY DEF GrantsIInv, GrantsTypeOK
<1>2. a # 0 /\ g \in Grant /\ a \in Nat
  BY <1>1 DEF GrantsIInv, Numbered, Hear, ClientRow, Holder
<1>3. UNCHANGED <<account, grant, looked, pairs>>
  BY DEF Hear
<1>4. client' = [client EXCEPT ![h] = [grant |-> g, pair |-> a, answer |-> 0, of |-> Nobody,
                                       renewed |-> client[h].grant = g]]
  BY DEF Hear
<1>5. /\ client'[h].grant = g /\ client'[h].pair = a /\ client'[h].answer = 0
      /\ client'[h].of = Nobody /\ \A o \in App \ {h} : client'[o] = client[o]
  BY <1>1, <1>4
<1>6. GrantsTypeOK'
  BY <1>1, <1>2, <1>3, <1>4 DEF GrantsIInv, GrantsTypeOK, ClientRow, Holder
<1>7. \A o \in App, x \in Grant : PartOf(o, x)' => PartOf(o, x)
  BY <1>5, GrantsAssumption DEF PartOf
<1>8. Numbered'
  <2>1. \A o \in App : /\ client'[o].pair <= pairs' /\ client'[o].answer <= pairs'
                       /\ client'[o].answer = 0 <=> client'[o].of = Nobody
    <3> SUFFICES ASSUME NEW o \in App
                 PROVE  /\ client'[o].pair <= pairs' /\ client'[o].answer <= pairs'
                        /\ client'[o].answer = 0 <=> client'[o].of = Nobody
      OBVIOUS
    <3>1. CASE o = h
      BY <1>3, <1>5, <3>1 DEF GrantsIInv, GrantsTypeOK, Numbered
    <3>2. CASE o # h
      BY <1>3, <1>5, <3>2 DEF GrantsIInv, Numbered
    <3> QED BY <3>1, <3>2
  <2> QED BY <1>3, <1>7, <2>1 DEF GrantsIInv, Numbered
<1>9. Alone'
  <2> SUFFICES ASSUME NEW x \in Grant, NEW o \in App, ~grant'[x].copied, PartOf(o, x)'
               PROVE  AloneWith(o, x)'
    BY DEF Alone
  <2>1. PartOf(o, x) /\ AloneWith(o, x)
    BY <1>3, <1>7 DEF GrantsIInv, Alone
  <2>2. \A k \in App : PartOf(k, x)' => k = o
    BY <1>7, <2>1 DEF AloneWith
  <2>3. CASE o # h
    BY <1>3, <1>5, <2>1, <2>2, <2>3 DEF AloneWith
  <2>4. CASE o = h
    <3>1. x = g
      BY <1>5, <2>4, GrantsAssumption DEF PartOf
    <3>2. a = grant[g].cur
      BY <2>1, <2>4, <3>1 DEF AloneWith
    <3> QED BY <1>3, <1>5, <2>1, <2>2, <2>4, <3>1, <3>2, GrantsAssumption DEF AloneWith
  <2> QED BY <2>3, <2>4
<1>10. AnswersAreNew'
  BY <1>3, <1>5 DEF GrantsIInv, Parted, AnswersAreNew
<1>11. RenewedIsOwn'
  <2>1. \A x \in Grant : grant[x].prev # a
    BY <1>2 DEF GrantsIInv, Parted, AnswersAreNew
  <2>2. \A o \in App : o # h => client[o].pair # a
    BY <1>2 DEF GrantsIInv, Parted, AnswersAreNew
  <2>3. \A o \in App, x \in Grant : client[o].grant = x => grant[x].cur # 0
    BY DEF GrantsIInv, Numbered, PartOf, GrantsTypeOK, GrantRow
  <2> SUFFICES ASSUME NEW o \in App, client'[o].renewed
               PROVE  /\ \A k \in App : k # o => client'[k].pair # client'[o].pair
                      /\ \A x \in Grant : client'[o].grant = x /\ client'[o].pair = grant'[x].prev =>
                           \A k \in App : k # o =>
                               client'[k].pair # grant'[x].cur /\ client'[k].answer # grant'[x].cur
    BY DEF RenewedIsOwn
  <2>4. CASE o = h
    BY <1>3, <1>5, <2>1, <2>2, <2>4
  <2>5. CASE o # h
    BY <1>3, <1>5, <2>2, <2>3, <2>5 DEF GrantsIInv, Parted, RenewedIsOwn
  <2> QED BY <2>4, <2>5
<1>12. VersionsPass' /\ ActiveGrants' \subseteq ActiveGrants
  BY <1>3 DEF GrantsIInv, VersionsPass, ActiveGrants, Live, Serves
<1>13. FewActive'
  BY <1>12, FewerActive DEF GrantsIInv
<1> QED BY <1>6, <1>8, <1>9, <1>10, <1>11, <1>12, <1>13 DEF GrantsIInv, Parted

\* An answer is lost: the app keeps the pair it had.
LEMMA LoseGrants == ASSUME GrantsIInv, NEW h \in App, Lose(h) PROVE GrantsIInv'
<1>1. client[h] \in ClientRow /\ DOMAIN client = App
  BY DEF GrantsIInv, GrantsTypeOK
<1>2. UNCHANGED <<account, grant, looked, pairs>>
  BY DEF Lose
<1>3. client' = [client EXCEPT ![h].answer = 0, ![h].of = Nobody]
  BY DEF Lose
<1>4. /\ client'[h].grant = client[h].grant /\ client'[h].pair = client[h].pair
      /\ client'[h].answer = 0 /\ client'[h].of = Nobody /\ client'[h].renewed = client[h].renewed
      /\ \A o \in App \ {h} : client'[o] = client[o]
  BY <1>1, <1>3 DEF ClientRow
<1>5. GrantsTypeOK'
  BY <1>1, <1>2, <1>3 DEF GrantsIInv, GrantsTypeOK, ClientRow, Holder
<1>6. /\ \A o \in App : /\ client'[o].grant = client[o].grant /\ client'[o].pair = client[o].pair
                        /\ client'[o].renewed = client[o].renewed
                        /\ client'[o].answer \in {0, client[o].answer}
      /\ \A o \in App, x \in Grant : /\ PartOf(o, x)' => PartOf(o, x)
                                     /\ client'[o].of = x => client'[o] = client[o]
  BY <1>4, GrantsAssumption DEF PartOf
<1>7. Numbered'
  <2>1. \A o \in App : /\ client'[o].pair <= pairs' /\ client'[o].answer <= pairs'
                       /\ client'[o].answer = 0 <=> client'[o].of = Nobody
    <3> SUFFICES ASSUME NEW o \in App
                 PROVE  /\ client'[o].pair <= pairs' /\ client'[o].answer <= pairs'
                        /\ client'[o].answer = 0 <=> client'[o].of = Nobody
      OBVIOUS
    <3>1. CASE o = h
      BY <1>2, <1>4, <3>1 DEF GrantsIInv, GrantsTypeOK, Numbered
    <3>2. CASE o # h
      BY <1>2, <1>4, <3>2 DEF GrantsIInv, Numbered
    <3> QED BY <3>1, <3>2
  <2> QED BY <1>2, <1>6, <2>1 DEF GrantsIInv, Numbered
<1>8. Alone'
  <2> SUFFICES ASSUME NEW x \in Grant, NEW o \in App, ~grant'[x].copied, PartOf(o, x)'
               PROVE  AloneWith(o, x)'
    BY DEF Alone
  <2>1. PartOf(o, x) /\ AloneWith(o, x)
    BY <1>2, <1>6 DEF GrantsIInv, Alone
  <2>2. \A k \in App : PartOf(k, x)' => k = o
    BY <1>6, <2>1 DEF AloneWith
  <2>3. client'[o].of = x => client[o].of = x /\ client'[o].answer = client[o].answer
    BY <1>6
  <2>4. client'[o].grant = client[o].grant /\ client'[o].pair = client[o].pair
    BY <1>6
  <2> QED BY <1>2, <2>1, <2>2, <2>3, <2>4 DEF AloneWith
<1>9. AnswersAreNew'
  BY <1>2, <1>6 DEF GrantsIInv, Parted, AnswersAreNew
<1>10. RenewedIsOwn'
  <2>1. \A o \in App, x \in Grant : client[o].grant = x => grant[x].cur # 0
    BY DEF GrantsIInv, Numbered, PartOf, GrantsTypeOK, GrantRow
  <2> QED BY <1>2, <1>6, <2>1 DEF GrantsIInv, Parted, RenewedIsOwn
<1>11. VersionsPass' /\ ActiveGrants' \subseteq ActiveGrants
  BY <1>2 DEF GrantsIInv, VersionsPass, ActiveGrants, Live, Serves
<1>12. FewActive'
  BY <1>11, FewerActive DEF GrantsIInv
<1> QED BY <1>5, <1>7, <1>8, <1>9, <1>10, <1>11, <1>12 DEF GrantsIInv, Parted

\* A copy is made: the grant counts as copied, and neither copy as renewed.
LEMMA CopyGrants ==
    ASSUME GrantsIInv, NEW h \in App, NEW other \in App, CopyApp(h, other)
    PROVE  GrantsIInv'
<1> DEFINE g == client[h].grant
<1>1. /\ client[h] \in ClientRow /\ client[other] \in ClientRow
      /\ DOMAIN client = App /\ DOMAIN grant = Grant
  BY DEF GrantsIInv, GrantsTypeOK
<1>2. /\ h # other /\ g \in Grant /\ client[other].answer = 0 /\ UNCHANGED <<account, looked, pairs>>
      /\ client' = [client EXCEPT ![h].renewed = FALSE,
                                  ![other] = [client[h] EXCEPT !.answer = 0, !.of = Nobody,
                                                               !.renewed = FALSE]]
      /\ grant' = [grant EXCEPT ![g].copied = TRUE]
  BY <1>1 DEF CopyApp, ClientRow, Holder
<1>3. grant[g] \in GrantRow
  BY <1>2 DEF GrantsIInv, GrantsTypeOK
<1>4. GrantsTypeOK'
  <2>1. [client[h] EXCEPT !.answer = 0, !.of = Nobody, !.renewed = FALSE] \in ClientRow
    BY <1>1 DEF ClientRow, Holder
  <2>2. [client[h] EXCEPT !.renewed = FALSE] \in ClientRow
    BY <1>1 DEF ClientRow
  <2>3. client' = [client EXCEPT ![h] = [client[h] EXCEPT !.renewed = FALSE],
                                 ![other] = [client[h] EXCEPT !.answer = 0, !.of = Nobody,
                                                              !.renewed = FALSE]]
    BY <1>1, <1>2
  <2>4. client' \in [App -> ClientRow]
    BY <2>1, <2>2, <2>3 DEF GrantsIInv, GrantsTypeOK
  <2>5. grant' \in [Grant -> GrantRow]
    BY <1>2, <1>3 DEF GrantsIInv, GrantsTypeOK, GrantRow
  <2> QED BY <1>2, <2>4, <2>5 DEF GrantsIInv, GrantsTypeOK
<1>5. /\ client'[h].grant = g /\ client'[h].pair = client[h].pair /\ client'[h].of = client[h].of
      /\ client'[h].answer = client[h].answer /\ client'[h].renewed = FALSE
      /\ client'[other].grant = g /\ client'[other].pair = client[h].pair
      /\ client'[other].of = Nobody /\ client'[other].answer = 0 /\ client'[other].renewed = FALSE
      /\ \A o \in App \ {h, other} : client'[o] = client[o]
  BY <1>1, <1>2 DEF ClientRow
<1>6. /\ \A x \in Grant : /\ grant'[x].ver = grant[x].ver /\ grant'[x].cur = grant[x].cur
                          /\ grant'[x].prev = grant[x].prev /\ grant'[x].state = grant[x].state
                          /\ grant'[x].seen = grant[x].seen
      /\ grant'[g].copied /\ \A x \in Grant \ {g} : grant'[x].copied = grant[x].copied
  BY <1>1, <1>2, <1>3 DEF GrantRow
<1>7. client[other].of = Nobody
  BY <1>2 DEF GrantsIInv, Numbered
<1>8. /\ \A o \in App, x \in Grant : x # g /\ PartOf(o, x)' => PartOf(o, x)
      /\ \A o \in App : o # other => client'[o].grant = client[o].grant
      /\ \A o \in App : client'[o].of = client[o].of /\ client'[o].answer = client[o].answer
      /\ \A o \in App : o # other => client'[o].pair = client[o].pair
      /\ \A o \in App : client'[o].renewed => o # h /\ o # other /\ client[o].renewed
  BY <1>2, <1>5, <1>7 DEF PartOf
<1>9. Numbered'
  <2>1. \A o \in App, x \in Grant : PartOf(o, x)' => PartOf(o, x) \/ PartOf(h, x)
    BY <1>5, <1>8 DEF PartOf
  <2>2. \A o \in App : client'[o].pair \in {client[o].pair, client[h].pair}
    BY <1>5, <1>8
  <2>3. \A o \in App : client'[o].pair <= pairs
    BY <2>2 DEF GrantsIInv, Numbered
  <2>4. \A o \in App : /\ client'[o].answer <= pairs
                       /\ client'[o].answer = 0 <=> client'[o].of = Nobody
    BY <1>8 DEF GrantsIInv, Numbered
  <2>5. \A x \in Grant : /\ grant'[x].cur <= pairs /\ grant'[x].prev <= pairs
                         /\ grant'[x].state # "unborn" => grant'[x].prev < grant'[x].cur
    BY <1>6 DEF GrantsIInv, Numbered
  <2>6. \A o \in App, x \in Grant : PartOf(o, x)' => grant'[x].state # "unborn"
    BY <1>6, <2>1 DEF GrantsIInv, Numbered
  <2>7. \A p \in looked : p[2] <= pairs
    BY DEF GrantsIInv, Numbered
  <2> QED BY <1>2, <2>3, <2>4, <2>5, <2>6, <2>7 DEF Numbered
<1>10. Alone'
  <2> SUFFICES ASSUME NEW x \in Grant, NEW o \in App, ~grant'[x].copied, PartOf(o, x)'
               PROVE  AloneWith(o, x)'
    BY DEF Alone
  <2>1. x # g /\ PartOf(o, x) /\ AloneWith(o, x)
    BY <1>6, <1>8 DEF GrantsIInv, Alone
  <2>2. \A k \in App : PartOf(k, x)' => k = o
    BY <1>8, <2>1 DEF AloneWith
  <2>3. client'[o].grant = x => o # other
    BY <1>5, <2>1
  <2>4. o # other => client'[o].grant = client[o].grant /\ client'[o].pair = client[o].pair
    BY <1>8
  <2>5. client'[o].of = client[o].of /\ client'[o].answer = client[o].answer
    BY <1>8
  <2>6. /\ grant'[x].state = grant[x].state /\ grant'[x].cur = grant[x].cur
        /\ grant'[x].prev = grant[x].prev /\ grant'[x].seen = grant[x].seen
    BY <1>6
  <2> QED BY <1>2, <2>1, <2>2, <2>3, <2>4, <2>5, <2>6 DEF AloneWith
<1>11. AnswersAreNew'
  BY <1>5, <1>6, <1>8 DEF GrantsIInv, Parted, AnswersAreNew
<1>12. RenewedIsOwn'
  BY <1>5, <1>6, <1>8 DEF GrantsIInv, Parted, RenewedIsOwn
<1>13. VersionsPass' /\ ActiveGrants' \subseteq ActiveGrants
  BY <1>2, <1>6 DEF GrantsIInv, VersionsPass, ActiveGrants, Live, Serves
<1>14. FewActive'
  BY <1>13, FewerActive DEF GrantsIInv
<1> QED BY <1>4, <1>9, <1>10, <1>11, <1>12, <1>13, <1>14 DEF GrantsIInv, Parted

\* A refresh rotates, or answers again for a pair that was never used.
LEMMA RenewGrants == ASSUME GrantsIInv, NEW h \in App, Renew(h) PROVE GrantsIInv'
<1> DEFINE g == client[h].grant
           p == pairs + 1
<1>1. client[h] \in ClientRow /\ DOMAIN client = App /\ DOMAIN grant = Grant /\ pairs \in Nat
  BY DEF GrantsIInv, GrantsTypeOK
<1>0. p \in Nat
  BY <1>1
<1>2. /\ g \in Grant /\ client[h].answer = 0 /\ Live(g)
      /\ pairs' = p /\ UNCHANGED <<account, looked>>
      /\ client' = [client EXCEPT ![h].answer = p, ![h].of = g]
  BY <1>1 DEF Renew, NewPair, ClientRow, Holder
<1>3. grant[g] \in GrantRow /\ grant[g].state = "live"
  BY <1>2 DEF GrantsIInv, GrantsTypeOK, Live
<1>4. /\ client'[h].grant = g /\ client'[h].pair = client[h].pair /\ client'[h].answer = p
      /\ client'[h].of = g /\ client'[h].renewed = client[h].renewed
      /\ \A o \in App \ {h} : client'[o] = client[o]
  BY <1>1, <1>2 DEF ClientRow
<1>5. client' \in [App -> ClientRow]
  <2> DEFINE r == [client[h] EXCEPT !.answer = p, !.of = g]
  <2> HIDE DEF p
  <2>1. r \in ClientRow
    BY <1>0, <1>1, <1>2 DEF ClientRow, Holder
  <2>2. client' = [client EXCEPT ![h] = r]
    BY <1>1, <1>2
  <2> HIDE DEF r
  <2> QED BY <2>1, <2>2 DEF GrantsIInv, GrantsTypeOK
<1>6. /\ grant' \in [Grant -> GrantRow]
      /\ grant'[g].state = "live" /\ grant'[g].cur = p /\ grant'[g].ver = grant[g].ver
      /\ grant'[g].copied = grant[g].copied /\ ~grant'[g].seen
      /\ client[h].pair = grant'[g].prev
      /\ client[h].pair \in {grant[g].cur, grant[g].prev}
      /\ \A x \in Grant \ {g} : grant'[x] = grant[x]
  <2>1. CASE client[h].pair = grant[g].cur /\ Rotate(g)
    <3> HIDE DEF p
    <3> DEFINE r == [grant[g] EXCEPT !.prev = grant[g].cur, !.cur = p, !.seen = FALSE, !.fresh = TRUE]
    <3>1. /\ r \in GrantRow /\ r.state = "live" /\ r.cur = p /\ r.ver = grant[g].ver
          /\ r.copied = grant[g].copied /\ ~r.seen /\ r.prev = grant[g].cur
      BY <1>0, <1>3 DEF GrantRow
    <3>2. grant' = [grant EXCEPT ![g] = r]
      BY <1>1, <1>2, <2>1 DEF Rotate
    <3> HIDE DEF r
    <3> QED BY <1>1, <1>2, <2>1, <3>1, <3>2 DEF GrantsIInv, GrantsTypeOK
  <2>2. CASE client[h].pair = grant[g].prev /\ ~grant[g].seen /\ grant[g].fresh /\ Retry(g)
    <3> DEFINE r == [grant[g] EXCEPT !.cur = p]
    <3>1. /\ r \in GrantRow /\ r.state = "live" /\ r.cur = p /\ r.ver = grant[g].ver
          /\ r.copied = grant[g].copied /\ r.seen = grant[g].seen /\ r.prev = grant[g].prev
      BY <1>0, <1>3 DEF GrantRow
    <3>2. grant' = [grant EXCEPT ![g] = r]
      BY <1>1, <1>2, <2>2 DEF Retry
    <3> HIDE DEF r
    <3> QED BY <1>1, <1>2, <2>2, <3>1, <3>2 DEF GrantsIInv, GrantsTypeOK
  <2> QED BY <2>1, <2>2 DEF Renew
<1>7. GrantsTypeOK'
  BY <1>1, <1>2, <1>5, <1>6 DEF GrantsIInv, GrantsTypeOK
<1>8. /\ \A o \in App : client'[o].grant = client[o].grant /\ client'[o].pair = client[o].pair
      /\ \A o \in App : client'[o].renewed = client[o].renewed
      /\ \A o \in App, x \in Grant : PartOf(o, x)' => PartOf(o, x)
  BY <1>1, <1>4 DEF PartOf
<1>9. /\ \A o \in App : client[o].pair < p /\ client[o].answer < p /\ client[o].pair \in Nat
      /\ \A x \in Grant : grant[x].cur < p /\ grant[x].cur \in Nat
      /\ \A x \in Grant : grant[x].prev < p /\ grant[x].prev \in Nat
      /\ \A l \in looked : l[2] < p
      /\ p \in Nat
  BY <1>1 DEF GrantsIInv, GrantsTypeOK, Numbered, ClientRow, GrantRow
<1>10. Numbered'
  <2>1. \A o \in App : client'[o].pair <= pairs' /\ client'[o].answer <= pairs'
    BY <1>2, <1>4, <1>8, <1>9 DEF GrantsIInv, GrantsTypeOK, ClientRow
  <2>2. \A o \in App : client'[o].answer = 0 <=> client'[o].of = Nobody
    <3> SUFFICES ASSUME NEW o \in App PROVE client'[o].answer = 0 <=> client'[o].of = Nobody
      OBVIOUS
    <3>1. CASE o = h
      BY <1>1, <1>2, <1>4, <3>1, GrantsAssumption
    <3>2. CASE o # h
      BY <1>4, <3>2 DEF GrantsIInv, Numbered
    <3> QED BY <3>1, <3>2
  <2>3. \A x \in Grant : grant'[x].cur <= pairs' /\ grant'[x].prev <= pairs'
    BY <1>2, <1>6, <1>9
  <2>4. \A x \in Grant : grant'[x].state # "unborn" => grant'[x].prev < grant'[x].cur
    <3> SUFFICES ASSUME NEW x \in Grant, grant'[x].state # "unborn"
                 PROVE  grant'[x].prev < grant'[x].cur
      OBVIOUS
    <3>1. CASE x = g
      BY <1>1, <1>6, <1>9, <3>1
    <3>2. CASE x # g
      BY <1>6, <3>2 DEF GrantsIInv, Numbered
    <3> QED BY <3>1, <3>2
  <2>5. \A l \in looked' : l[2] <= pairs'
    BY <1>2, <1>9 DEF GrantsIInv, GrantsTypeOK
  <2>6. \A o \in App, x \in Grant : PartOf(o, x)' => grant'[x].state # "unborn"
    BY <1>6, <1>8 DEF GrantsIInv, Numbered
  <2> QED BY <2>1, <2>2, <2>3, <2>4, <2>5, <2>6 DEF Numbered
<1>11. Alone'
  <2> SUFFICES ASSUME NEW x \in Grant, NEW o \in App, ~grant'[x].copied, PartOf(o, x)'
               PROVE  AloneWith(o, x)'
    BY DEF Alone
  <2>1. PartOf(o, x) /\ AloneWith(o, x)
    BY <1>6, <1>8 DEF GrantsIInv, Alone
  <2>2. \A k \in App : PartOf(k, x)' => k = o
    BY <1>8, <2>1 DEF AloneWith
  <2>3. CASE x # g
    <3>1. grant'[x] = grant[x]
      BY <1>6, <2>3
    <3>2. o = h => client'[o].of # x
      BY <1>4, <2>3
    <3>3. client'[o].of = x => client[o].of = x /\ client'[o].answer = client[o].answer
      BY <1>4, <3>2
    <3> QED BY <1>2, <1>8, <2>1, <2>2, <3>1, <3>3 DEF AloneWith
  <2>4. CASE x = g
    <3>1. o = h
      BY <2>1, <2>4 DEF AloneWith, PartOf
    <3>2. <<g, grant'[g].cur>> \notin looked'
      BY <1>1, <1>2, <1>6, <1>9
    <3> QED BY <1>4, <1>6, <2>2, <2>4, <3>1, <3>2 DEF AloneWith
  <2> QED BY <2>3, <2>4
<1>12. AnswersAreNew'
  <2> SUFFICES ASSUME NEW o \in App, client'[o].answer # 0
               PROVE  /\ \A k \in App : client'[k].pair # client'[o].answer
                      /\ \A k \in App : k # o => client'[k].answer # client'[o].answer
                      /\ \A x \in Grant : grant'[x].prev # client'[o].answer
    BY DEF AnswersAreNew
  <2>1. \A x \in Grant : grant'[x].prev = grant[x].prev \/ grant'[x].prev = client[h].pair
    BY <1>6
  <2>2. \A x \in Grant : grant[x].prev < p
    BY <1>9
  <2>3. CASE o = h
    BY <1>4, <1>8, <1>9, <2>1, <2>2, <2>3
  <2>4. CASE o # h
    <3>1. client[o].answer # 0 /\ client'[o].answer = client[o].answer /\ client[o].answer < p
      BY <1>4, <1>9, <2>4
    <3>2. /\ \A k \in App : client[k].pair # client[o].answer
          /\ \A k \in App : k # o => client[k].answer # client[o].answer
          /\ \A x \in Grant : grant[x].prev # client[o].answer
      BY <3>1 DEF GrantsIInv, Parted, AnswersAreNew
    <3>3. client[h].pair # client[o].answer
      BY <3>2
    <3>4. \A k \in App : k # o => client'[k].answer # client'[o].answer
      BY <1>4, <1>9, <3>1, <3>2
    <3> QED BY <1>8, <2>1, <3>1, <3>2, <3>3, <3>4
  <2> QED BY <2>3, <2>4
<1>13. RenewedIsOwn'
  <2> SUFFICES ASSUME NEW o \in App, client'[o].renewed
               PROVE  /\ \A k \in App : k # o => client'[k].pair # client'[o].pair
                      /\ \A x \in Grant : client'[o].grant = x /\ client'[o].pair = grant'[x].prev =>
                           \A k \in App : k # o =>
                               client'[k].pair # grant'[x].cur /\ client'[k].answer # grant'[x].cur
    BY DEF RenewedIsOwn
  <2>1. \A k \in App : k # o => client[k].pair # client[o].pair
    BY <1>8 DEF GrantsIInv, Parted, RenewedIsOwn
  <2>2. ASSUME NEW x \in Grant, client[o].grant = x, client[o].pair = grant'[x].prev,
               NEW k \in App, k # o
        PROVE  client[k].pair # grant'[x].cur /\ client'[k].answer # grant'[x].cur
    <3>1. CASE x = g
      <4>1. o = h
        BY <1>6, <2>1, <2>2, <3>1
      <4> QED BY <1>4, <1>6, <1>9, <2>2, <3>1, <4>1
    <3>2. CASE x # g
      <4>1. client[k].pair # grant[x].cur /\ client[k].answer # grant[x].cur
        BY <1>6, <1>8, <2>2, <3>2 DEF GrantsIInv, Parted, RenewedIsOwn
      <4> QED BY <1>4, <1>6, <1>9, <3>2, <4>1
    <3> QED BY <3>1, <3>2
  <2> QED BY <1>8, <2>1, <2>2
<1>14. VersionsPass'
  BY <1>2, <1>3, <1>6 DEF GrantsIInv, VersionsPass
<1>15. ActiveGrants' \subseteq ActiveGrants
  BY <1>2, <1>3, <1>6 DEF ActiveGrants, Live, Serves
<1>16. FewActive'
  BY <1>15, FewerActive DEF GrantsIInv
<1> QED BY <1>7, <1>10, <1>11, <1>12, <1>13, <1>14, <1>16 DEF GrantsIInv, Parted

\* A grant is created for app h, with room under the limit.
LEMMA ExchangeGrants ==
    ASSUME GrantsIInv, NEW h \in App, NEW c \in Code, Exchange(h, c)
    PROVE  GrantsIInv'
<1>1. CASE UNCHANGED <<grant, client, pairs>>
  BY <1>1, AsideGrants DEF Exchange
<1>2. CASE code[c].app = h /\ Serves(code[c].ver)
  <2>0. PICK g, p : g = Fresh(Grant, grant) /\ p = pairs + 1
    OBVIOUS
  <2>1. /\ ~AtLimit(code[c].replaces) /\ Free(Grant, grant) /\ client[h].answer = 0
        /\ pairs' = p /\ UNCHANGED <<account, looked>>
        /\ grant' = Created(g, c)
        /\ client' = [client EXCEPT ![h].answer = p, ![h].of = g]
    BY <1>2, <2>0 DEF Exchange, LimitReached, NewPair
  <2>2. g \in Grant /\ grant[g].state = "unborn"
    BY <2>0, <2>1 DEF Fresh, Free
  <2>3. /\ client[h] \in ClientRow /\ DOMAIN client = App /\ DOMAIN grant = Grant /\ pairs \in Nat
        /\ account.version \in Nat
    BY DEF GrantsIInv, GrantsTypeOK
  <2>4. p \in Nat /\ pairs < p
    BY <2>0, <2>3
  <2>5. account.enabled /\ code[c].ver = account.version
    BY <1>2 DEF Serves
  <2>6. \A x \in Grant : /\ grant[x] \in GrantRow /\ grant[x].cur <= pairs /\ grant[x].prev <= pairs
                         /\ grant[x].cur \in Nat /\ grant[x].prev \in Nat
    BY DEF GrantsIInv, GrantsTypeOK, Numbered, GrantRow
  <2>7. /\ grant'[g] = [state |-> "live", ver |-> account.version, cur |-> p, prev |-> 0,
                        seen |-> FALSE, fresh |-> FALSE, copied |-> FALSE]
        /\ \A x \in Grant \ {g} :
             \/ grant'[x] = grant[x]
                  /\ (grant[x].state = "live" => grant[x].ver = account.version /\ x # code[c].replaces)
             \/ grant[x].state = "live" /\ grant'[x] = [grant[x] EXCEPT !.state = "revoked"]
        /\ DOMAIN grant' = Grant
    BY <2>1, <2>2, <2>5 DEF Created
  <2>8. \A x \in Grant \ {g} :
          /\ grant'[x] \in GrantRow
          /\ grant'[x].ver = grant[x].ver /\ grant'[x].cur = grant[x].cur
          /\ grant'[x].prev = grant[x].prev /\ grant'[x].seen = grant[x].seen
          /\ grant'[x].copied = grant[x].copied
          /\ grant'[x].state = grant[x].state
               \/ (grant[x].state = "live" /\ grant'[x].state = "revoked")
          /\ grant'[x].state = "live" => grant[x].state = "live" /\ grant[x].ver = account.version
                                           /\ x # code[c].replaces
    <3> SUFFICES ASSUME NEW x \in Grant, x # g
                 PROVE  /\ grant'[x] \in GrantRow
                        /\ grant'[x].ver = grant[x].ver /\ grant'[x].cur = grant[x].cur
                        /\ grant'[x].prev = grant[x].prev /\ grant'[x].seen = grant[x].seen
                        /\ grant'[x].copied = grant[x].copied
                        /\ grant'[x].state = grant[x].state
                             \/ (grant[x].state = "live" /\ grant'[x].state = "revoked")
                        /\ grant'[x].state = "live" =>
                             grant[x].state = "live" /\ grant[x].ver = account.version
                               /\ x # code[c].replaces
      OBVIOUS
    <3>1. CASE /\ grant'[x] = grant[x]
               /\ grant[x].state = "live" => grant[x].ver = account.version /\ x # code[c].replaces
      BY <2>6, <3>1
    <3>2. CASE grant[x].state = "live" /\ grant'[x] = [grant[x] EXCEPT !.state = "revoked"]
      BY <2>6, <3>2 DEF GrantRow
    <3> QED BY <2>7, <3>1, <3>2
  <2>9. /\ client'[h].grant = client[h].grant /\ client'[h].pair = client[h].pair
        /\ client'[h].answer = p /\ client'[h].of = g /\ client'[h].renewed = client[h].renewed
        /\ \A o \in App \ {h} : client'[o] = client[o]
    BY <2>1, <2>3 DEF ClientRow
  <2>10. GrantsTypeOK'
    <3> DEFINE r == [client[h] EXCEPT !.answer = p, !.of = g]
    <3>1. r \in ClientRow
      BY <2>2, <2>3, <2>4 DEF ClientRow, Holder
    <3>2. client' = [client EXCEPT ![h] = r]
      BY <2>1, <2>3
    <3>3. client' \in [App -> ClientRow]
      <4> HIDE DEF r
      <4> QED BY <3>1, <3>2 DEF GrantsIInv, GrantsTypeOK
    <3>4. grant'[g] \in GrantRow
      BY <2>3, <2>4, <2>7 DEF GrantRow
    <3>5. \A x \in Grant : grant'[x] \in GrantRow
      BY <2>8, <3>4
    <3>6. grant' = [x \in Grant |-> grant'[x]]
      BY <2>1 DEF Created
    <3>7. grant' \in [Grant -> GrantRow]
      BY <3>5, <3>6
    <3> QED BY <2>1, <2>4, <3>3, <3>7 DEF GrantsIInv, GrantsTypeOK
  <2>11. /\ \A o \in App : client'[o].grant = client[o].grant /\ client'[o].pair = client[o].pair
         /\ \A o \in App : client'[o].renewed = client[o].renewed
         /\ \A o \in App, x \in Grant : x # g => (PartOf(o, x)' => PartOf(o, x))
         /\ \A o \in App : client[o].grant # g /\ client[o].of # g
         /\ \A o \in App : PartOf(o, g)' => o = h
    <3>1. \A o \in App : client[o].grant # g /\ client[o].of # g
      BY <2>2 DEF GrantsIInv, Numbered, PartOf
    <3> QED BY <2>3, <2>9, <3>1 DEF PartOf
  <2>12. \A o \in App : /\ client[o].pair < p /\ client[o].answer < p
                        /\ client[o].pair \in Nat /\ client[o].answer \in Nat
    BY <2>3, <2>4 DEF GrantsIInv, GrantsTypeOK, Numbered, ClientRow
  <2>13. \A x \in Grant : grant'[x].prev \in {0, grant[x].prev} /\ grant'[x].cur \in {p, grant[x].cur}
    BY <2>7, <2>8
  <2>14. Numbered'
    <3>1. \A o \in App : client'[o].pair <= pairs' /\ client'[o].answer <= pairs'
      <4> SUFFICES ASSUME NEW o \in App PROVE client'[o].pair <= p /\ client'[o].answer <= p
        BY <2>1
      <4>1. CASE o = h
        BY <2>4, <2>9, <2>12, <4>1
      <4>2. CASE o # h
        BY <2>4, <2>9, <2>12, <4>2
      <4> QED BY <4>1, <4>2
    <3>2. \A o \in App : client'[o].answer = 0 <=> client'[o].of = Nobody
      <4> SUFFICES ASSUME NEW o \in App PROVE client'[o].answer = 0 <=> client'[o].of = Nobody
        OBVIOUS
      <4>1. CASE o = h
        BY <2>2, <2>3, <2>4, <2>9, <4>1, GrantsAssumption
      <4>2. CASE o # h
        BY <2>9, <4>2 DEF GrantsIInv, Numbered
      <4> QED BY <4>1, <4>2
    <3>3. \A x \in Grant : grant'[x].cur <= pairs' /\ grant'[x].prev <= pairs'
      BY <2>1, <2>3, <2>4, <2>6, <2>13
    <3>4. \A x \in Grant : grant'[x].state # "unborn" => grant'[x].prev < grant'[x].cur
      <4> SUFFICES ASSUME NEW x \in Grant, grant'[x].state # "unborn"
                   PROVE  grant'[x].prev < grant'[x].cur
        OBVIOUS
      <4>1. CASE x = g
        BY <2>3, <2>4, <2>7, <4>1
      <4>2. CASE x # g
        BY <2>8, <4>2 DEF GrantsIInv, Numbered
      <4> QED BY <4>1, <4>2
    <3>5. \A l \in looked' : l[2] <= pairs'
      <4> SUFFICES ASSUME NEW l \in looked PROVE l[2] <= p
        BY <2>1
      <4>1. l[2] <= pairs /\ l[2] \in Nat
        BY DEF GrantsIInv, GrantsTypeOK, Numbered
      <4> QED BY <2>3, <2>4, <4>1
    <3>6. \A o \in App, x \in Grant : PartOf(o, x)' => grant'[x].state # "unborn"
      <4> SUFFICES ASSUME NEW o \in App, NEW x \in Grant, PartOf(o, x)'
                   PROVE  grant'[x].state # "unborn"
        OBVIOUS
      <4>1. CASE x = g
        BY <2>7, <4>1
      <4>2. CASE x # g
        <5>1. grant[x].state # "unborn"
          BY <2>11, <4>2 DEF GrantsIInv, Numbered
        <5> QED BY <2>8, <4>2, <5>1
      <4> QED BY <4>1, <4>2
    <3> QED BY <3>1, <3>2, <3>3, <3>4, <3>5, <3>6 DEF Numbered
  <2>15. Alone'
    <3> SUFFICES ASSUME NEW x \in Grant, NEW o \in App, ~grant'[x].copied, PartOf(o, x)'
                 PROVE  AloneWith(o, x)'
      BY DEF Alone
    <3>1. CASE x = g
      <4>1. o = h /\ client'[o].grant # g
        BY <2>11, <3>1
      <4> QED BY <2>7, <2>9, <2>11, <3>1, <4>1 DEF AloneWith
    <3>2. CASE x # g
      <4>1. PartOf(o, x) /\ AloneWith(o, x)
        BY <2>8, <2>11, <3>2 DEF GrantsIInv, Alone
      <4>2. \A k \in App : PartOf(k, x)' => k = o
        BY <2>11, <3>2, <4>1 DEF AloneWith
      <4>3. client'[o].of = x => client[o].of = x /\ client'[o].answer = client[o].answer
        BY <2>9, <3>2
      <4>4. grant'[x].state # "reused"
        BY <2>8, <3>2, <4>1 DEF AloneWith
      <4>5. /\ grant'[x].cur = grant[x].cur /\ grant'[x].prev = grant[x].prev
            /\ grant'[x].seen = grant[x].seen
        BY <2>8, <3>2
      <4> QED BY <2>1, <2>11, <4>1, <4>2, <4>3, <4>4, <4>5 DEF AloneWith
    <3> QED BY <3>1, <3>2
  <2>16. AnswersAreNew'
    <3> SUFFICES ASSUME NEW o \in App, client'[o].answer # 0
                 PROVE  /\ \A k \in App : client'[k].pair # client'[o].answer
                        /\ \A k \in App : k # o => client'[k].answer # client'[o].answer
                        /\ \A x \in Grant : grant'[x].prev # client'[o].answer
      BY DEF AnswersAreNew
    <3>1. CASE o = h
      <4>1. \A x \in Grant : grant'[x].prev # p
        BY <2>3, <2>4, <2>6, <2>13
      <4> QED BY <2>9, <2>11, <2>12, <3>1, <4>1
    <3>2. CASE o # h
      <4>1. client[o].answer # 0 /\ client'[o].answer = client[o].answer /\ client[o].answer < p
        BY <2>9, <2>12, <3>2
      <4>2. /\ \A k \in App : client[k].pair # client[o].answer
            /\ \A k \in App : k # o => client[k].answer # client[o].answer
            /\ \A x \in Grant : grant[x].prev # client[o].answer
        BY <4>1 DEF GrantsIInv, Parted, AnswersAreNew
      <4>3. \A k \in App : k # o => client'[k].answer # client'[o].answer
        BY <2>4, <2>9, <2>12, <4>1, <4>2
      <4> QED BY <2>11, <2>13, <4>1, <4>2, <4>3
    <3> QED BY <3>1, <3>2
  <2>17. RenewedIsOwn'
    <3> SUFFICES ASSUME NEW o \in App, client'[o].renewed
                 PROVE  /\ \A k \in App : k # o => client'[k].pair # client'[o].pair
                        /\ \A x \in Grant : client'[o].grant = x /\ client'[o].pair = grant'[x].prev =>
                             \A k \in App : k # o =>
                                 client'[k].pair # grant'[x].cur /\ client'[k].answer # grant'[x].cur
      BY DEF RenewedIsOwn
    <3>1. \A k \in App : k # o => client[k].pair # client[o].pair
      BY <2>11 DEF GrantsIInv, Parted, RenewedIsOwn
    <3>2. ASSUME NEW x \in Grant, client[o].grant = x, client[o].pair = grant'[x].prev,
                 NEW k \in App, k # o
          PROVE  client[k].pair # grant'[x].cur /\ client'[k].answer # grant'[x].cur
      <4>1. x # g
        BY <2>11, <3>2
      <4>2. grant'[x].cur = grant[x].cur /\ grant'[x].prev = grant[x].prev
        BY <2>8, <4>1
      <4>3. client[k].pair # grant[x].cur /\ client[k].answer # grant[x].cur
        BY <2>11, <3>2, <4>2 DEF GrantsIInv, Parted, RenewedIsOwn
      <4>4. grant[x].cur # p
        BY <2>3, <2>4, <2>6
      <4> QED BY <2>9, <4>2, <4>3, <4>4
    <3> QED BY <2>11, <3>1, <3>2
  <2>18. VersionsPass'
    <3>1. \A x \in Grant : grant'[x].ver <= account'.version
      <4> SUFFICES ASSUME NEW x \in Grant PROVE grant'[x].ver <= account.version
        BY <2>1
      <4>1. CASE x = g
        BY <2>3, <2>7, <4>1
      <4>2. CASE x # g
        BY <2>8, <4>2 DEF GrantsIInv, VersionsPass
      <4> QED BY <4>1, <4>2
    <3> QED BY <2>1, <2>5, <3>1 DEF VersionsPass
  <2>19. FewActive'
    <3> DEFINE rest == ActiveGrants \ Honored(code[c].replaces)
    <3>1. ActiveGrants' \subseteq rest \cup {g}
      <4> SUFFICES ASSUME NEW x \in Grant, x # g, grant'[x].state = "live" PROVE x \in rest
        BY DEF ActiveGrants, Live
      <4>1. x \in ActiveGrants
        BY <2>5, <2>8 DEF ActiveGrants, Live, Serves
      <4>2. x # code[c].replaces
        BY <2>8
      <4> QED BY <4>1, <4>2 DEF Honored
    <3>2. IsFiniteSet(rest)
      BY FS_Subset DEF GrantsIInv, FewActive
    <3>3. Cardinality(rest) \in Nat /\ ~(Cardinality(rest) >= Limit)
      BY <2>1, <3>2, FS_CardinalityType DEF AtLimit
    <3> HIDE DEF rest
    <3>4. /\ IsFiniteSet(rest \cup {g})
          /\ Cardinality(rest \cup {g}) = IF g \in rest THEN Cardinality(rest) ELSE Cardinality(rest) + 1
      BY <3>2, FS_AddElement
    <3>5. Cardinality(rest \cup {g}) <= Limit
      BY <3>3, <3>4, GrantsAssumption
    <3>6. IsFiniteSet(ActiveGrants') /\ Cardinality(ActiveGrants') <= Cardinality(rest \cup {g})
      BY <3>1, <3>4, FS_Subset
    <3>7. Cardinality(ActiveGrants') \in Nat /\ Cardinality(rest \cup {g}) \in Nat
      BY <3>4, <3>6, FS_CardinalityType
    <3> QED BY <3>5, <3>6, <3>7, GrantsAssumption DEF FewActive
  <2> QED BY <2>10, <2>14, <2>15, <2>16, <2>17, <2>18, <2>19 DEF GrantsIInv, Parted
<1> QED BY <1>1, <1>2 DEF Exchange

\* A new version, or an account switched off, leaves no grant active.
LEMMA VersionGrants == ASSUME GrantsIInv, EndVersion PROVE GrantsIInv'
<1>1. UNCHANGED <<grant, client, looked, pairs>>
  BY DEF EndVersion
<1>2. account \in [version : Nat, enabled : BOOLEAN, left : Int]
  BY DEF GrantsIInv, GrantsTypeOK
<1>3. /\ account' \in [version : Nat, enabled : BOOLEAN, left : Int]
      /\ \/ account'.version = account.version + 1
         \/ account'.version = account.version /\ account'.enabled /\ ~account.enabled
  <2>1. CASE account' = [account EXCEPT !.version = @ + 1, !.left = @ - 1]
    <3> DEFINE v == account.version + 1
               l == account.left - 1
    <3>1. v \in Nat /\ l \in Int
      BY <1>2
    <3>2. account' = [account EXCEPT !.version = v, !.left = l]
      BY <1>2, <2>1
    <3>3. v = account.version + 1
      OBVIOUS
    <3> HIDE DEF v, l
    <3>4. account' \in [version : Nat, enabled : BOOLEAN, left : Int] /\ account'.version = v
      BY <1>2, <3>1, <3>2
    <3> QED BY <3>3, <3>4
  <2>2. CASE account' = [account EXCEPT !.enabled = ~@, !.left = @ - 1,
                                        !.version = IF account.enabled THEN @ + 1 ELSE @]
    <3> DEFINE v == IF account.enabled THEN account.version + 1 ELSE account.version
               l == account.left - 1
               e == ~account.enabled
    <3>1. v \in Nat /\ l \in Int /\ e \in BOOLEAN
      BY <1>2
    <3>2. account' = [account EXCEPT !.enabled = e, !.left = l, !.version = v]
      BY <1>2, <2>2
    <3>3. \/ v = account.version + 1
          \/ v = account.version /\ e /\ ~account.enabled
      OBVIOUS
    <3> HIDE DEF v, l, e
    <3>4. /\ account' \in [version : Nat, enabled : BOOLEAN, left : Int]
          /\ account'.version = v /\ account'.enabled = e
      BY <1>2, <3>1, <3>2
    <3> QED BY <3>3, <3>4
  <2> QED BY <2>1, <2>2 DEF EndVersion
<1>4. account.version \in Nat /\ \A x \in Grant : grant[x].ver \in Nat /\ grant[x].ver <= account.version
  BY <1>2 DEF GrantsIInv, GrantsTypeOK, GrantRow, VersionsPass
<1>5. \A x \in Grant : grant'[x].ver <= account'.version
  BY <1>1, <1>3, <1>4
<1>6. \A x \in Grant : grant[x].state = "live" => grant[x].ver # account'.version \/ account.enabled
  BY <1>3, <1>4 DEF GrantsIInv, VersionsPass
<1>7. account.enabled => \A x \in Grant : grant[x].ver # account'.version
  BY <1>3, <1>4
<1>8. VersionsPass'
  BY <1>1, <1>5, <1>6, <1>7 DEF VersionsPass
<1>9. ActiveGrants' = {}
  BY <1>1, <1>6, <1>7 DEF ActiveGrants, Live, Serves
<1>10. FewActive'
  BY <1>9, FewerActive DEF GrantsIInv
<1>11. GrantsTypeOK' /\ Numbered' /\ Alone'
  BY <1>1, <1>3 DEF GrantsIInv, GrantsTypeOK, Numbered, Alone, AloneWith, PartOf
<1>12. AnswersAreNew' /\ RenewedIsOwn'
  BY <1>1 DEF GrantsIInv, Parted, AnswersAreNew, RenewedIsOwn
<1> QED BY <1>8, <1>10, <1>11, <1>12 DEF GrantsIInv, Parted

\* The browser's part and the codes change nothing of grants and pairs.
LEMMA GrantsNextIInv == GrantsIInv /\ [GrantsNext]_grantVars => GrantsIInv'
<1> SUFFICES ASSUME GrantsIInv, [GrantsNext]_grantVars PROVE GrantsIInv'
  OBVIOUS
<1>1. CASE UNCHANGED grantVars
  BY <1>1, AsideGrants DEF grantVars
<1>2. ASSUME NEW b \in Browser,
             \/ \E h \in App : Start(b, h)
             \/ ReviewRequest(b)
             \/ \E approved \in BOOLEAN : Decide(b, approved)
      PROVE  GrantsIInv'
  BY <1>2, AsideGrants DEF Start, ReviewRequest, Decide
<1>3. ASSUME NEW r \in Req, ExpireRequest(r) PROVE GrantsIInv'
  BY <1>3, AsideGrants DEF ExpireRequest
<1>4. ASSUME NEW c \in Code, ExpireCode(c) PROVE GrantsIInv'
  BY <1>4, AsideGrants DEF ExpireCode
<1>5. ASSUME NEW c \in Code, NEW h \in App, Exchange(h, c) PROVE GrantsIInv'
  BY <1>5, ExchangeGrants
<1>6. ASSUME NEW h \in App,
             \/ Renew(h) \/ ReuseDetected(h) \/ Look(h) \/ Hear(h) \/ Lose(h)
             \/ \E other \in App : CopyApp(h, other)
      PROVE  GrantsIInv'
  BY <1>6, RenewGrants, ReuseGrants, LookGrants, HearGrants, LoseGrants, CopyGrants
<1>7. ASSUME NEW g \in Grant,
             \/ RetryWindowEnds(g) \/ Revoke(g)
             \/ \E pair \in 1..MaxPairs : Mark(g, pair)
      PROVE  GrantsIInv'
  BY <1>7, WindowGrants, MarkGrants
<1>8. CASE EndVersion
  BY <1>8, VersionGrants
<1> QED BY <1>1, <1>2, <1>3, <1>4, <1>5, <1>6, <1>7, <1>8 DEF GrantsNext

(***************************************************************************)
(* An app that holds its grant alone is never taken for two and never      *)
(* locked out, whatever answers are lost; two copies of an app that have   *)
(* both renewed cannot both go on; and exchanges, revocations and new      *)
(* versions leave no account above its limit of grants.                    *)
(***************************************************************************)
THEOREM GrantsStayContained == GrantsSpec => []GrantsContained
<1>1. GrantsIInv => GrantsContained
  <2> SUFFICES ASSUME GrantsIInv PROVE GrantsContained
    OBVIOUS
  <2>1. AloneNeverLockedOut
    <3> SUFFICES ASSUME NEW h \in App, client[h].grant # Nobody, ~grant[client[h].grant].copied
                 PROVE  AloneWith(h, client[h].grant)
      BY DEF AloneNeverLockedOut, AloneWith
    <3>1. client[h].grant \in Grant
      BY DEF GrantsIInv, GrantsTypeOK, ClientRow, Holder
    <3> QED BY <3>1 DEF GrantsIInv, Alone, PartOf
  <2>2. CopiesPart
    <3> SUFFICES ASSUME NEW h \in App, NEW o \in App, h # o, client[h].grant = client[o].grant,
                        client[h].renewed, client[o].renewed, Renewable(h), Renewable(o)
                 PROVE  FALSE
      BY DEF CopiesPart
    <3> DEFINE g == client[h].grant
    <3>1. g \in Grant
      BY DEF GrantsIInv, GrantsTypeOK, ClientRow, Holder, Renewable
    <3>2. client[h].pair # client[o].pair
      BY DEF GrantsIInv, Parted, RenewedIsOwn
    <3>3. client[h].pair = grant[g].prev => client[o].pair # grant[g].cur
      BY <3>1 DEF GrantsIInv, Parted, RenewedIsOwn
    <3>4. client[o].pair = grant[g].prev => client[h].pair # grant[g].cur
      BY <3>1 DEF GrantsIInv, Parted, RenewedIsOwn
    <3>5. /\ client[h].pair = grant[g].cur \/ client[h].pair = grant[g].prev
          /\ client[o].pair = grant[g].cur \/ client[o].pair = grant[g].prev
      BY DEF Renewable
    <3> QED BY <3>2, <3>3, <3>4, <3>5
  <2>3. WithinGrantLimit
    BY DEF GrantsIInv, FewActive, WithinGrantLimit
  <2> QED BY <2>1, <2>2, <2>3 DEF GrantsContained, ReuseMeansTwoHolders
<1> QED BY <1>1, GrantsInitIInv, GrantsNextIInv, PTL DEF GrantsSpec

-----------------------------------------------------------------------------
(***************************************************************************)
(* The category of a trip                                                  *)
(***************************************************************************)
RowFields == {"state", "category", "tag"}

RowsOK(t) == DOMAIN t = TripRow /\ \A r \in TripRow : DOMAIN t[r] = RowFields

TripsTypeOK == RowsOK(trip) /\ DOMAIN chosen = TripRow /\ DOMAIN into = Drive

\* Nothing is decided about a row that is not there.
NothingChosenAbsent == \A r \in TripRow : trip[r].state = "none" => chosen[r] = Null

\* A drive that was discarded or joined to another has no row.
AwayHaveNoRow ==
    \A d \in Drive : /\ trip[d].state # "none" => d \notin discarded /\ into[d] = Null
                     /\ into[d] # Null => d \notin discarded

\* A detected row that is not a person's holds no decision, and without a tag nothing.
UndecidedRow(row, choice) ==
    row.state # "none" /\ row.tag # "human" =>
        choice = Null /\ (row.tag # "rule" => row.category = "unclassified")

UndecidedRows == \A d \in Drive : UndecidedRow(trip[d], chosen[d])

ByRules(row, d, rs, knd, nr, jn) ==
    LET i == RuleFor(d, rs, knd, nr, jn)
    IN row.category = IF i = 0 THEN "unclassified" ELSE rs[i].category

Tagged == \A d \in Drive :
    trip[d].state # "none" /\ trip[d].tag # "human" => ByRules(trip[d], d, rules, kind, near, into)

Chosen == \A r \in TripRow :
    trip[r].state # "none" /\ chosen[r] # Null => trip[r].category = chosen[r]

TripsIInv ==
    /\ TripsTypeOK /\ NothingChosenAbsent /\ AwayHaveNoRow /\ UndecidedRows /\ Tagged /\ Chosen

LEMMA TripsInitIInv == TripsInit => TripsIInv
<1> SUFFICES ASSUME TripsInit PROVE TripsIInv
  OBVIOUS
<1>1. /\ DOMAIN trip = TripRow /\ \A r \in TripRow : trip[r] = Gone
      /\ chosen = [r \in TripRow |-> Null] /\ discarded = {} /\ into = [d \in Drive |-> Null]
  BY DEF TripsInit
<1>2. Drive \subseteq TripRow
  BY DEF TripRow
<1>3. TripsTypeOK
  BY <1>1 DEF TripsTypeOK, RowsOK, RowFields, Gone
<1>4. NothingChosenAbsent /\ AwayHaveNoRow /\ UndecidedRows /\ Tagged /\ Chosen
  BY <1>1, <1>2 DEF NothingChosenAbsent, AwayHaveNoRow, UndecidedRows, UndecidedRow, Tagged, Chosen, Gone
<1> QED BY <1>3, <1>4 DEF TripsIInv

-----------------------------------------------------------------------------
(* What autotagging does to rows.                                          *)

LEMMA PlanOfRow ==
    ASSUME NEW row, DOMAIN row = RowFields, NEW rs, NEW i, NEW u, u = PlanAutotags(row, rs, i)
    PROVE  /\ DOMAIN u = RowFields /\ u.state = row.state
           /\ row.tag = "human" => u = row
           /\ row.tag # "human" /\ (row.tag # "rule" => row.category = "unclassified") =>
                /\ u.category = IF i = 0 THEN "unclassified" ELSE rs[i].category
                /\ u.tag # "rule" => u.category = "unclassified"
<1>1. CASE row.tag # "human" /\ i # 0
  <2>1. u = [row EXCEPT !.category = rs[i].category, !.tag = "rule"]
    BY <1>1 DEF PlanAutotags
  <2> QED BY <1>1, <2>1 DEF RowFields
<1>2. CASE row.tag = "rule" /\ i = 0
  <2>1. u = [row EXCEPT !.category = "unclassified", !.tag = Null]
    BY <1>2 DEF PlanAutotags
  <2> QED BY <1>2, <2>1 DEF RowFields
<1>3. CASE row.tag = "human" \/ (row.tag # "rule" /\ i = 0)
  <2>1. u = row
    BY <1>3 DEF PlanAutotags
  <2> QED BY <1>3, <2>1
<1> QED BY <1>1, <1>2, <1>3

LEMMA TaggedRows ==
    ASSUME NEW t, RowsOK(t), NEW touched, NEW rs, NEW knd, NEW nr, NEW jn,
           NEW u, u = Autotagged(t, touched, rs, knd, nr, jn)
    PROVE  /\ RowsOK(u) /\ \A r \in TripRow : u[r].state = t[r].state
           /\ \A r \in TripRow : t[r].tag = "human" \/ r \notin touched \cap Drive => u[r] = t[r]
           /\ \A d \in Drive :
                t[d].state # "none" /\ t[d].tag # "human"
                  /\ (t[d].tag # "rule" => t[d].category = "unclassified") =>
                    /\ u[d].tag # "rule" => u[d].category = "unclassified"
                    /\ d \in touched => ByRules(u[d], d, rs, knd, nr, jn)
<1>1. /\ DOMAIN u = TripRow
      /\ \A r \in TripRow : u[r] = IF r \in touched \cap Drive /\ t[r].state # "none"
              THEN PlanAutotags(t[r], rs, RuleFor(r, rs, knd, nr, jn)) ELSE t[r]
  BY DEF Autotagged
<1>2. \A r \in TripRow :
        /\ DOMAIN u[r] = RowFields /\ u[r].state = t[r].state
        /\ t[r].tag = "human" \/ r \notin touched \cap Drive => u[r] = t[r]
  BY <1>1, PlanOfRow DEF RowsOK
<1>3. ASSUME NEW d \in Drive, t[d].state # "none", t[d].tag # "human",
             t[d].tag # "rule" => t[d].category = "unclassified"
      PROVE  /\ u[d].tag # "rule" => u[d].category = "unclassified"
             /\ d \in touched => ByRules(u[d], d, rs, knd, nr, jn)
  <2>1. d \in TripRow
    BY DEF TripRow
  <2>2. CASE d \in touched
    <3> DEFINE i == RuleFor(d, rs, knd, nr, jn)
    <3>1. u[d] = PlanAutotags(t[d], rs, i)
      BY <1>1, <1>3, <2>1, <2>2
    <3> HIDE DEF i
    <3>2. /\ u[d].category = IF i = 0 THEN "unclassified" ELSE rs[i].category
          /\ u[d].tag # "rule" => u[d].category = "unclassified"
      BY <1>3, <2>1, <3>1, PlanOfRow DEF RowsOK
    <3> QED BY <3>2 DEF ByRules, i
  <2>3. CASE d \notin touched
    BY <1>2, <1>3, <2>1, <2>3
  <2> QED BY <2>2, <2>3
<1> QED BY <1>1, <1>2, <1>3 DEF RowsOK

\* A step that leaves the rows t and tags those of a window, and makes the rows of own a
\* person's.
LEMMA RetagAndOwnIInv ==
    ASSUME NEW t, RowsOK(t), NEW window, NEW own,
           NEW u, u = Autotagged(t, window, rules', kind', near', into'),
           RowsOK(trip'), DOMAIN chosen' = TripRow, DOMAIN into' = Drive,
           \A r \in TripRow \ own : trip'[r] = u[r],
           \A r \in own : /\ t[r].state # "none" /\ trip'[r].state # "none"
                          /\ trip'[r].tag = "human" /\ chosen'[r] = trip'[r].category,
           \A r \in TripRow : t[r].state = "none" => chosen'[r] = Null,
           \A r \in TripRow \ own :
               t[r].state # "none" /\ chosen'[r] # Null => t[r].category = chosen'[r],
           \A d \in Drive : /\ t[d].state # "none" => d \notin discarded' /\ into'[d] = Null
                            /\ into'[d] # Null => d \notin discarded',
           \A d \in Drive \ own : UndecidedRow(t[d], chosen'[d]),
           \A d \in Drive \ window : t[d].state # "none" /\ t[d].tag # "human" =>
               ByRules(t[d], d, rules', kind', near', into')
    PROVE  TripsIInv'
<1>1. /\ \A r \in TripRow : u[r].state = t[r].state
      /\ \A r \in TripRow : t[r].tag = "human" \/ r \notin window \cap Drive => u[r] = t[r]
      /\ \A d \in Drive :
           t[d].state # "none" /\ t[d].tag # "human"
             /\ (t[d].tag # "rule" => t[d].category = "unclassified") =>
               /\ u[d].tag # "rule" => u[d].category = "unclassified"
               /\ d \in window => ByRules(u[d], d, rules', kind', near', into')
  BY TaggedRows
<1>2. Drive \subseteq TripRow
  BY DEF TripRow
<1>3. TripsTypeOK'
  BY DEF TripsTypeOK, RowsOK
<1>4. NothingChosenAbsent' /\ AwayHaveNoRow'
  BY <1>1, <1>2 DEF NothingChosenAbsent, AwayHaveNoRow
<1>5. UndecidedRows'
  <2> SUFFICES ASSUME NEW d \in Drive, trip'[d].state # "none", trip'[d].tag # "human"
               PROVE  chosen'[d] = Null /\ (trip'[d].tag # "rule" => trip'[d].category = "unclassified")
    BY DEF UndecidedRows, UndecidedRow
  <2> QED BY <1>1, <1>2 DEF UndecidedRow
<1>6. Tagged'
  <2> SUFFICES ASSUME NEW d \in Drive, trip'[d].state # "none", trip'[d].tag # "human"
               PROVE  ByRules(trip'[d], d, rules', kind', near', into')
    BY DEF Tagged, ByRules
  <2>1. d \in TripRow \ own /\ t[d].state # "none" /\ t[d].tag # "human"
    BY <1>1, <1>2
  <2>2. t[d].tag # "rule" => t[d].category = "unclassified"
    BY <2>1 DEF UndecidedRow
  <2> QED BY <1>1, <2>1, <2>2
<1>7. Chosen'
  <2> SUFFICES ASSUME NEW r \in TripRow \ own, trip'[r].state # "none", chosen'[r] # Null
               PROVE  trip'[r].category = chosen'[r]
    BY DEF Chosen
  <2>1. t[r].tag = "human" \/ r \notin Drive
    BY <1>1 DEF UndecidedRow
  <2> QED BY <1>1, <2>1
<1> QED BY <1>3, <1>4, <1>5, <1>6, <1>7 DEF TripsIInv

LEMMA RetagIInv ==
    ASSUME NEW t, RowsOK(t), NEW window,
           trip' = Autotagged(t, window, rules', kind', near', into'),
           DOMAIN chosen' = TripRow, DOMAIN into' = Drive,
           \A r \in TripRow : t[r].state = "none" => chosen'[r] = Null,
           \A r \in TripRow : t[r].state # "none" /\ chosen'[r] # Null => t[r].category = chosen'[r],
           \A d \in Drive : /\ t[d].state # "none" => d \notin discarded' /\ into'[d] = Null
                            /\ into'[d] # Null => d \notin discarded',
           \A d \in Drive : UndecidedRow(t[d], chosen'[d]),
           \A d \in Drive \ window : t[d].state # "none" /\ t[d].tag # "human" =>
               ByRules(t[d], d, rules', kind', near', into')
    PROVE  TripsIInv'
<1> DEFINE own == {r \in TripRow : FALSE}
<1>1. \A r : r \notin own
  OBVIOUS
<1>2. RowsOK(trip')
  BY TaggedRows
<1> HIDE DEF own
<1> QED BY <1>1, <1>2, RetagAndOwnIInv

\* Places and rules change under the rows.
LEMMA ReprocessIInv ==
    ASSUME TripsIInv, NEW rs, NEW knd, NEW nr, ReprocessPlaces(rs, knd, nr),
           UNCHANGED <<chosen, discarded, into>>
    PROVE  TripsIInv'
<1>1. trip' = Autotagged(trip, Drive, rules', kind', near', into')
  BY DEF ReprocessPlaces
<1> QED
  BY <1>1, RetagIInv DEF TripsIInv, TripsTypeOK, NothingChosenAbsent, AwayHaveNoRow, UndecidedRows, Chosen

LEMMA DetectedRows ==
    ASSUME TripsIInv, NEW lost, NEW found, NEW settled, NEW t, t = Detected(trip, lost, found, settled)
    PROVE  /\ RowsOK(t)
           /\ \A r \in TripRow :
                /\ r \in lost => t[r] = Gone
                /\ r \in found \ lost => t[r].state # "none" /\ t[r].category = "unclassified" /\ t[r].tag = Null
                /\ r \notin found \cup lost =>
                     /\ t[r].category = trip[r].category /\ t[r].tag = trip[r].tag
                     /\ t[r].state = trip[r].state \/ (r \in settled /\ t[r].state = "here")
<1>1. /\ DOMAIN t = TripRow
      /\ \A r \in TripRow :
           /\ r \in lost => t[r] = Gone
           /\ r \in found \ lost => t[r] = [Gone EXCEPT !.state = IF r \in settled THEN "here" ELSE "open"]
           /\ r \in settled \ (found \cup lost) => t[r] = [trip[r] EXCEPT !.state = "here"]
           /\ r \notin settled \cup found \cup lost => t[r] = trip[r]
  BY DEF Detected
<1>2. \A r \in TripRow : DOMAIN trip[r] = RowFields
  BY DEF TripsIInv, TripsTypeOK, RowsOK
<1>3. \A r \in TripRow : DOMAIN t[r] = RowFields
  BY <1>1, <1>2 DEF RowFields, Gone
<1>4. \A r \in TripRow :
        /\ r \in found \ lost => t[r].state # "none" /\ t[r].category = "unclassified" /\ t[r].tag = Null
        /\ r \notin found \cup lost =>
             /\ t[r].category = trip[r].category /\ t[r].tag = trip[r].tag
             /\ t[r].state = trip[r].state \/ (r \in settled /\ t[r].state = "here")
  BY <1>1, <1>2 DEF RowFields, Gone
<1> QED BY <1>1, <1>3, <1>4 DEF RowsOK

\* A run of the detector over the whole account, or over a window that contains what it
\* finds under the drives that are joined already.
LEMMA RunIInv ==
    ASSUME TripsIInv, NEW lost, NEW found \in SUBSET Drive, NEW settled, NEW window, NEW jn,
           RunDetector(lost, found, settled, window, jn), DOMAIN jn = Drive,
           lost \subseteq Drive, settled \subseteq found \cup (Here \ lost),
           \A d \in found : trip[d].state = "none" /\ jn[d] = Null /\ d \notin discarded',
           \A d \in Drive : jn[d] # Null => into[d] # Null,
           discarded' \subseteq discarded,
           window = Drive \/ (jn = into /\ found \subseteq window)
    PROVE  TripsIInv'
<1> DEFINE t == Detected(trip, lost, found, settled)
<1>1. /\ trip' = Autotagged(t, window, rules', kind', near', into')
      /\ chosen' = [r \in TripRow |-> IF r \in lost THEN Null ELSE chosen[r]]
      /\ into' = jn /\ UNCHANGED <<kind, near, rules>>
  BY DEF RunDetector
<1>2. /\ RowsOK(t)
      /\ \A r \in TripRow :
           /\ r \in lost => t[r] = Gone
           /\ r \in found \ lost => t[r].state # "none" /\ t[r].category = "unclassified" /\ t[r].tag = Null
           /\ r \notin found \cup lost =>
                /\ t[r].category = trip[r].category /\ t[r].tag = trip[r].tag
                /\ t[r].state = trip[r].state \/ (r \in settled /\ t[r].state = "here")
  BY DetectedRows
<1> HIDE DEF t
<1>3. Gone.state = "none" /\ Drive \subseteq TripRow
  BY DEF Gone, TripRow
<1>4. \A r \in TripRow : r \notin found \cup lost => (t[r].state = "none" <=> trip[r].state = "none")
  BY <1>2 DEF Here
<1>5. \A r \in TripRow : t[r].state = "none" => chosen'[r] = Null
  BY <1>1, <1>2, <1>4 DEF TripsIInv, NothingChosenAbsent
<1>6. \A r \in found : chosen'[r] = Null
  BY <1>1, <1>3 DEF TripsIInv, NothingChosenAbsent
<1>7. \A r \in TripRow : t[r].state # "none" /\ chosen'[r] # Null => t[r].category = chosen'[r]
  BY <1>1, <1>2, <1>3, <1>4, <1>6 DEF TripsIInv, Chosen
<1>8. \A d \in Drive : /\ t[d].state # "none" => d \notin discarded' /\ into'[d] = Null
                       /\ into'[d] # Null => d \notin discarded'
  BY <1>1, <1>2, <1>3, <1>4 DEF TripsIInv, AwayHaveNoRow
<1>9. \A d \in Drive : UndecidedRow(t[d], chosen'[d])
  BY <1>1, <1>2, <1>3, <1>4, <1>6 DEF TripsIInv, UndecidedRows, UndecidedRow
<1>10. \A d \in Drive \ window : t[d].state # "none" /\ t[d].tag # "human" =>
          ByRules(t[d], d, rules', kind', near', into')
  <2> SUFFICES ASSUME NEW d \in Drive \ window, t[d].state # "none", t[d].tag # "human"
               PROVE  ByRules(t[d], d, rules', kind', near', into')
    OBVIOUS
  <2>1. into' = into /\ d \notin found \cup lost
    BY <1>1, <1>2, <1>3
  <2>2. ByRules(trip[d], d, rules, kind, near, into) /\ t[d].category = trip[d].category
    BY <1>2, <1>3, <1>4, <2>1 DEF TripsIInv, Tagged
  <2> QED BY <1>1, <2>1, <2>2 DEF ByRules
<1>11. DOMAIN chosen' = TripRow /\ DOMAIN into' = Drive
  BY <1>1
<1> QED BY <1>1, <1>2, <1>5, <1>7, <1>8, <1>9, <1>10, <1>11, RetagIInv

-----------------------------------------------------------------------------
(* The runs of the detector.                                               *)

LEMMA RunOnceIInv ==
    ASSUME TripsIInv, RunOnce
    PROVE  TripsIInv'
<1>1. PICK lost \in SUBSET (Drive \cap Here), found \in SUBSET Findable, settled \in SUBSET Drive :
        /\ settled \subseteq found \cup {d \in Here \ lost : trip[d].state = "open"}
        /\ \E window \in {found \cup settled, Drive} : RunDetector(lost, found, settled, window, into)
        /\ UNCHANGED discarded
  BY DEF RunOnce
<1>2. PICK window \in {found \cup settled, Drive} : RunDetector(lost, found, settled, window, into)
  BY <1>1
<1>3. \A d \in found : d \in Drive /\ trip[d].state = "none" /\ into[d] = Null /\ d \notin discarded'
  BY <1>1 DEF Findable, Here, TripRow
<1>4. settled \subseteq found \cup (Here \ lost) /\ lost \subseteq Drive /\ discarded' \subseteq discarded
  BY <1>1
<1> QED BY <1>2, <1>3, <1>4, RunIInv DEF TripsIInv, TripsTypeOK

LEMMA DeleteOverrideIInv ==
    ASSUME TripsIInv, DeleteBoundaryOverride
    PROVE  TripsIInv'
<1>1. PICK d \in discarded, found \in SUBSET Drive, settled \in SUBSET Drive :
        /\ discarded' = discarded \ {d}
        /\ found \subseteq {d} /\ settled \subseteq found
        /\ RunDetector({}, found, settled, Drive, into)
  BY DEF DeleteBoundaryOverride
<1>2. \A e \in found : e \in Drive /\ trip[e].state = "none" /\ into[e] = Null /\ e \notin discarded'
  BY <1>1 DEF TripsIInv, AwayHaveNoRow
<1> QED BY <1>1, <1>2, RunIInv DEF TripsIInv, TripsTypeOK

LEMMA PartIInv ==
    ASSUME TripsIInv, NEW d \in Drive, Part(d)
    PROVE  TripsIInv'
<1> DEFINE jn == [into EXCEPT ![d] = Null]
<1>1. into[d] # Null /\ RunDetector({}, {d}, {d}, Drive, jn) /\ UNCHANGED discarded
  BY DEF Part
<1>2. DOMAIN jn = Drive /\ jn[d] = Null /\ \A e \in Drive : jn[e] # Null => into[e] # Null
  BY DEF TripsIInv, TripsTypeOK
<1> HIDE DEF jn
<1>3. trip[d].state = "none" /\ d \notin discarded'
  BY <1>1 DEF TripsIInv, AwayHaveNoRow
<1> QED BY <1>1, <1>2, <1>3, RunIInv

-----------------------------------------------------------------------------
(* What a person does.                                                     *)

\* Rows that a step writes for a person or gives up; the others it leaves alone.
LEMMA RowsWritten ==
    ASSUME TripsIInv, NEW rows \in SUBSET TripRow, UNCHANGED <<kind, near, rules>>,
           RowsOK(trip'), DOMAIN chosen' = TripRow, DOMAIN into' = Drive,
           \A r \in TripRow \ rows : trip'[r] = trip[r] /\ chosen'[r] = chosen[r],
           \A r \in rows :
               \/ trip'[r].state = "none" /\ chosen'[r] = Null
               \/ /\ trip'[r].state # "none" /\ chosen'[r] = trip'[r].category
                  /\ r \in Drive => trip[r].state # "none" /\ trip'[r].tag = "human",
           into' = into, discarded \subseteq discarded',
           \A d \in Drive : d \in discarded' \ discarded => d \in rows /\ trip'[d].state = "none" /\ into[d] = Null
    PROVE  TripsIInv'
<1>1. Drive \subseteq TripRow
  BY DEF TripRow
<1>2. TripsTypeOK' /\ NothingChosenAbsent' /\ Chosen'
  BY DEF TripsIInv, TripsTypeOK, RowsOK, NothingChosenAbsent, Chosen
<1>3. AwayHaveNoRow'
  BY <1>1 DEF TripsIInv, AwayHaveNoRow
<1>4. UndecidedRows'
  BY <1>1 DEF TripsIInv, UndecidedRows, UndecidedRow
<1>5. Tagged'
  BY <1>1 DEF TripsIInv, Tagged, ByRules
<1> QED BY <1>2, <1>3, <1>4, <1>5 DEF TripsIInv

LEMMA OwnIInv ==
    ASSUME TripsIInv, NEW choice, DOMAIN choice \subseteq Here, Own(choice)
    PROVE  TripsIInv'
<1> DEFINE rows == DOMAIN choice
<1>1. /\ rows \subseteq TripRow /\ \A r \in rows : trip[r].state # "none"
      /\ DOMAIN trip' = TripRow /\ DOMAIN chosen' = TripRow
      /\ \A r \in rows : /\ trip'[r] = [trip[r] EXCEPT !.category = choice[r], !.tag = "human"]
                         /\ chosen'[r] = choice[r]
      /\ \A r \in TripRow \ rows : trip'[r] = trip[r] /\ chosen'[r] = chosen[r]
      /\ UNCHANGED <<kind, near, rules, discarded, into>>
  BY DEF Own, Here
<1> HIDE DEF rows
<1>2. ASSUME NEW r \in rows
      PROVE  /\ DOMAIN trip'[r] = RowFields /\ trip'[r].state = trip[r].state
             /\ trip'[r].category = chosen'[r] /\ trip'[r].tag = "human"
  <2>1. DOMAIN trip[r] = RowFields
    BY <1>1 DEF TripsIInv, TripsTypeOK, RowsOK
  <2>2. trip'[r] = [trip[r] EXCEPT !.category = choice[r], !.tag = "human"] /\ chosen'[r] = choice[r]
    BY <1>1
  <2> QED BY <2>1, <2>2 DEF RowFields
<1>3. RowsOK(trip')
  BY <1>1, <1>2 DEF TripsIInv, TripsTypeOK, RowsOK
<1>4. rows \in SUBSET TripRow /\ discarded \subseteq discarded' /\ DOMAIN into' = Drive
  BY <1>1 DEF TripsIInv, TripsTypeOK
<1>5. \A r \in rows : trip'[r].state # "none" /\ chosen'[r] = trip'[r].category
                      /\ trip[r].state # "none" /\ trip'[r].tag = "human"
  BY <1>1, <1>2
<1>6. \A d \in Drive : d \notin discarded' \ discarded
  BY <1>1
<1> QED BY <1>1, <1>3, <1>4, <1>5, <1>6, RowsWritten

LEMMA InsertIInv ==
    ASSUME TripsIInv, NEW r \in Manual, NEW category, InsertManualTrip(r, category)
    PROVE  TripsIInv'
<1>1. r \in TripRow /\ r \notin Drive
  BY TripsAssumption DEF TripRow
<1>2. /\ trip' = [trip EXCEPT ![r] = [state |-> "here", category |-> category, tag |-> Null]]
      /\ chosen' = [chosen EXCEPT ![r] = category] /\ UNCHANGED <<kind, near, rules, discarded, into>>
  BY DEF InsertManualTrip
<1>3. /\ RowsOK(trip') /\ DOMAIN chosen' = TripRow
      /\ trip'[r].state # "none" /\ chosen'[r] = trip'[r].category
      /\ \A q \in TripRow \ {r} : trip'[q] = trip[q] /\ chosen'[q] = chosen[q]
  BY <1>1, <1>2 DEF TripsIInv, TripsTypeOK, RowsOK, RowFields
<1>4. {r} \in SUBSET TripRow /\ into' = into /\ DOMAIN into' = Drive /\ discarded' = discarded
  BY <1>1, <1>2 DEF TripsIInv, TripsTypeOK
<1>5. \A d \in Drive : d \notin discarded' \ discarded
  BY <1>4
<1>6. UNCHANGED <<kind, near, rules>> /\ discarded \subseteq discarded'
  BY <1>2
<1>7. \A q \in {r} : /\ trip'[q].state # "none" /\ chosen'[q] = trip'[q].category
                     /\ q \notin Drive
  BY <1>1, <1>3
<1> QED BY <1>3, <1>4, <1>5, <1>6, <1>7, RowsWritten

LEMMA DeleteIInv ==
    ASSUME TripsIInv, NEW rows, DeleteTrips(rows)
    PROVE  TripsIInv'
<1>1. /\ rows \subseteq TripRow /\ \A r \in rows : trip[r].state # "none"
      /\ DOMAIN trip' = TripRow /\ DOMAIN chosen' = TripRow
      /\ \A r \in rows : trip'[r] = Gone /\ chosen'[r] = Null
      /\ \A r \in TripRow \ rows : trip'[r] = trip[r] /\ chosen'[r] = chosen[r]
      /\ discarded' = discarded \cup (rows \cap Drive)
      /\ UNCHANGED <<kind, near, rules, into>>
  BY DEF DeleteTrips, Here
<1>2. RowsOK(trip') /\ \A r \in rows : trip'[r].state = "none"
  BY <1>1 DEF TripsIInv, TripsTypeOK, RowsOK, RowFields, Gone
<1>3. \A d \in Drive : d \in discarded' \ discarded => d \in rows /\ trip'[d].state = "none" /\ into[d] = Null
  BY <1>1, <1>2 DEF TripsIInv, AwayHaveNoRow
<1> QED BY <1>1, <1>2, <1>3, RowsWritten DEF TripsIInv, TripsTypeOK

LEMMA ImportIInv ==
    ASSUME TripsIInv, ApplyImport
    PROVE  TripsIInv'
<1>1. PICK rows \in SUBSET Imported,
           row \in [Imported -> [state : {"here"}, category : CATEGORIES, tag : {"human", "rule"}]] :
        /\ trip' = [r \in TripRow |-> IF r \in rows THEN row[r] ELSE Gone]
        /\ chosen' = [r \in TripRow |-> IF r \in rows THEN row[r].category ELSE Null]
  BY DEF ApplyImport
<1>2. discarded = {} /\ (\A d \in Drive : into[d] = Null) /\ UNCHANGED <<discarded, into>>
  BY DEF ApplyImport
<1>3. Drive \subseteq TripRow /\ Drive \cap rows = {} /\ Gone.state = "none" /\ DOMAIN Gone = RowFields
  BY TripsAssumption DEF TripRow, Gone, RowFields
<1>4. \A r \in rows : DOMAIN row[r] = RowFields /\ row[r].state = "here"
  BY DEF RowFields
<1>5. TripsTypeOK'
  BY <1>1, <1>2, <1>3, <1>4 DEF TripsTypeOK, RowsOK, TripsIInv
<1>6. \A d \in Drive : trip'[d].state = "none"
  BY <1>1, <1>3
<1>7. NothingChosenAbsent' /\ Chosen'
  BY <1>1, <1>3, <1>4 DEF NothingChosenAbsent, Chosen
<1>8. AwayHaveNoRow' /\ UndecidedRows' /\ Tagged'
  BY <1>2, <1>6 DEF AwayHaveNoRow, UndecidedRows, UndecidedRow, Tagged
<1> QED BY <1>5, <1>7, <1>8 DEF TripsIInv

\* A merge gives up the other row, joins its drive to the longer one, tags what is left,
\* and leaves the longer one to a person when that is what was decided.
LEMMA MergeIInv ==
    ASSUME TripsIInv, NEW pair \in Neighbours, NEW longer \in ToSet(pair), NEW c,
           MergeTrips(pair, longer, c)
    PROVE  TripsIInv'
<1> DEFINE other == IF longer = pair[1] THEN pair[2] ELSE pair[1]
           jn == [into EXCEPT ![other] = longer]
           t == Detected(trip, {other}, {}, {})
           u == Autotagged(t, Drive, rules, kind, near, jn)
           before == trip[longer]
           after == <<u[longer].category, u[longer].tag>>
           kept == IF before.tag = "rule" /\ after # <<before.category, "rule">> THEN before.category ELSE Null
           decided == IF c = "keep" THEN kept ELSE c
<1>1. /\ ToSet(pair) \subseteq Here
      /\ trip' = (IF decided = Null THEN u
                   ELSE [u EXCEPT ![longer].category = decided, ![longer].tag = "human"])
      /\ chosen' = [chosen EXCEPT ![other] = Null,
                                  ![longer] = IF decided = Null THEN @ ELSE decided]
      /\ into' = jn
      /\ UNCHANGED <<kind, near, rules, discarded>>
  BY DEF MergeTrips
<1> HIDE DEF decided
<1>2. /\ pair[1] \in Drive /\ pair[2] \in Drive /\ pair[1] # pair[2]
      /\ ToSet(pair) = {pair[1], pair[2]}
  BY TripsAssumption DEF ToSet
<1>3. other \in Drive /\ longer \in Drive /\ other # longer /\ other \in Here /\ longer \in Here
  BY <1>1, <1>2
<1> HIDE DEF other
<1>4. /\ Drive \subseteq TripRow /\ Gone.state = "none"
      /\ trip[other].state # "none" /\ trip[longer].state # "none"
  BY <1>3 DEF TripRow, Gone, Here
<1>5. /\ RowsOK(t) /\ t[other] = Gone
      /\ \A r \in TripRow \ {other} :
           t[r].category = trip[r].category /\ t[r].tag = trip[r].tag /\ t[r].state = trip[r].state
  BY <1>3, <1>4, DetectedRows
<1> HIDE DEF t
<1>6. /\ RowsOK(u) /\ \A r \in TripRow : u[r].state = t[r].state
  BY <1>5, TaggedRows
<1>7. /\ DOMAIN into' = Drive /\ DOMAIN jn = Drive
      /\ \A d \in Drive : into'[d] = IF d = other THEN longer ELSE into[d]
  BY <1>1, <1>3 DEF TripsIInv, TripsTypeOK
<1>8. u = Autotagged(t, Drive, rules', kind', near', into')
  BY <1>1
<1> HIDE DEF u, jn
<1>9. /\ DOMAIN chosen' = TripRow /\ chosen'[other] = Null
      /\ chosen'[longer] = IF decided = Null THEN chosen[longer] ELSE decided
      /\ \A r \in TripRow \ {other, longer} : chosen'[r] = chosen[r]
  BY <1>1, <1>3, <1>4 DEF TripsIInv, TripsTypeOK
<1>10. \A r \in TripRow : t[r].state = "none" => chosen'[r] = Null
  BY <1>3, <1>4, <1>5, <1>9 DEF TripsIInv, NothingChosenAbsent
<1>11. \A r \in TripRow \ {longer} : t[r].state # "none" /\ chosen'[r] # Null => t[r].category = chosen'[r]
  BY <1>4, <1>5, <1>9 DEF TripsIInv, Chosen
<1>12. \A d \in Drive : /\ t[d].state # "none" => d \notin discarded' /\ into'[d] = Null
                        /\ into'[d] # Null => d \notin discarded'
  BY <1>1, <1>3, <1>4, <1>5, <1>7 DEF TripsIInv, AwayHaveNoRow
<1>13. \A d \in Drive \ {longer} : UndecidedRow(t[d], chosen'[d])
  BY <1>4, <1>5, <1>9 DEF TripsIInv, UndecidedRows, UndecidedRow
<1>14. CASE decided = Null
  <2>1. chosen'[longer] = chosen[longer] /\ trip' = u
    BY <1>1, <1>9, <1>14
  <2>2. t[longer].state # "none" /\ chosen'[longer] # Null => t[longer].category = chosen'[longer]
    BY <1>3, <1>4, <1>5, <2>1 DEF TripsIInv, Chosen
  <2>3. UndecidedRow(t[longer], chosen'[longer])
    BY <1>3, <1>4, <1>5, <2>1 DEF TripsIInv, UndecidedRows, UndecidedRow
  <2>4. /\ \A r \in TripRow : t[r].state # "none" /\ chosen'[r] # Null => t[r].category = chosen'[r]
        /\ \A d \in Drive : UndecidedRow(t[d], chosen'[d])
    BY <1>11, <1>13, <2>2, <2>3
  <2>5. trip' = Autotagged(t, Drive, rules', kind', near', into')
    BY <1>8, <2>1
  <2> QED BY <1>5, <1>7, <1>9, <1>10, <1>12, <2>4, <2>5, RetagIInv
<1>15. CASE decided # Null
  <2> DEFINE mine == [u[longer] EXCEPT !.category = decided, !.tag = "human"]
  <2>1. longer \in TripRow /\ DOMAIN u = TripRow /\ DOMAIN u[longer] = RowFields
    BY <1>3, <1>4, <1>6 DEF RowsOK
  <2>2. trip' = [u EXCEPT ![longer].category = decided, ![longer].tag = "human"]
    BY <1>1, <1>15
  <2>3. trip' = [u EXCEPT ![longer] = mine]
    BY <2>1, <2>2
  <2>4. /\ DOMAIN mine = RowFields /\ mine.state = u[longer].state
        /\ mine.category = decided /\ mine.tag = "human"
    BY <2>1 DEF RowFields
  <2> HIDE DEF mine
  <2>5. RowsOK(trip') /\ trip'[longer] = mine /\ \A r \in TripRow \ {longer} : trip'[r] = u[r]
    BY <1>6, <2>1, <2>3, <2>4 DEF RowsOK
  <2>6. \A r \in {longer} : /\ t[r].state # "none" /\ trip'[r].state # "none"
                            /\ trip'[r].tag = "human" /\ chosen'[r] = trip'[r].category
    BY <1>3, <1>4, <1>5, <1>6, <1>9, <1>15, <2>1, <2>4, <2>5
  <2>7. PICK own : own = {longer}
    OBVIOUS
  <2>8. /\ \A r \in TripRow \ own : trip'[r] = u[r]
        /\ \A r \in own : /\ t[r].state # "none" /\ trip'[r].state # "none"
                         /\ trip'[r].tag = "human" /\ chosen'[r] = trip'[r].category
        /\ \A r \in TripRow \ own : t[r].state # "none" /\ chosen'[r] # Null => t[r].category = chosen'[r]
        /\ \A d \in Drive \ own : UndecidedRow(t[d], chosen'[d])
    BY <1>11, <1>13, <2>5, <2>6, <2>7
  <2>9. RowsOK(t) /\ RowsOK(trip') /\ DOMAIN chosen' = TripRow /\ DOMAIN into' = Drive
    BY <1>5, <1>7, <1>9, <2>5
  <2>10. \A d \in Drive \ Drive : FALSE
    OBVIOUS
  <2> QED BY <1>8, <1>10, <1>12, <2>8, <2>9, <2>10, RetagAndOwnIInv
<1> QED BY <1>14, <1>15

-----------------------------------------------------------------------------

LEMMA PersonIInv ==
    ASSUME TripsIInv, PersonNext
    PROVE  TripsIInv'
<1>1. ASSUME NEW r \in Here, NEW c, Own([x \in {r} |-> c]) PROVE TripsIInv'
  BY <1>1, OwnIInv
<1>2. CASE \E pair \in Neighbours, c \in CATEGORIES \cup {"keep"} :
             \E longer \in ToSet(pair) : MergeTrips(pair, longer, c)
  BY <1>2, MergeIInv
<1>3. CASE \E d \in Drive : SplitTrip(d) \/ UnjoinTrips(d)
  BY <1>3, PartIInv DEF SplitTrip, UnjoinTrips
<1>4. CASE \E r \in Manual, c \in CATEGORIES : InsertManualTrip(r, c)
  BY <1>4, InsertIInv
<1>5. CASE \E r \in Here, c \in CATEGORIES :
             TagTrip(r, c) \/ ReviewTagTrip(r, c) \/ SaveTripCard(r, c) \/ PatchTrip(r, c)
  BY <1>1, <1>5 DEF TagTrip, ReviewTagTrip, SaveTripCard, PatchTrip, ApplyHumanTag, UpdateLockedTrip
<1>6. CASE \E r \in Here : PurposeTrip(r) \/ ReviewUndoTag(r) \/ DeleteTrip(r)
  BY <1>1, <1>6, DeleteIInv DEF PurposeTrip, ReviewUndoTag, DeleteTrip, ApplyHumanTag
<1>7. ASSUME NEW rows \in SUBSET Here,
             \/ BatchUpdatePurpose(rows) \/ BatchDeleteTrips(rows)
             \/ \E c \in CATEGORIES : BatchUpdateTrips(rows, c)
      PROVE  TripsIInv'
  <2>1. CASE BatchDeleteTrips(rows)
    BY <2>1, DeleteIInv DEF BatchDeleteTrips
  <2>2. CASE BatchUpdatePurpose(rows)
    BY <2>2, OwnIInv DEF BatchUpdatePurpose
  <2>3. CASE \E c \in CATEGORIES : BatchUpdateTrips(rows, c)
    BY <2>3, OwnIInv DEF BatchUpdateTrips
  <2> QED BY <1>7, <2>1, <2>2, <2>3
<1> QED
  BY <1>2, <1>3, <1>4, <1>5, <1>6, <1>7 DEF PersonNext

LEMMA ConfigIInv ==
    ASSUME TripsIInv, ConfigNext
    PROVE  TripsIInv'
<1>1. CASE ApplyImport
  BY <1>1, ImportIInv
<1>2. CASE \E p \in Place, k \in Kind, holds \in BOOLEAN : CreatePlace(p, k, holds) \/ UpdatePlace(p, k, holds)
  BY <1>2, ReprocessIInv DEF CreatePlace, UpdatePlace
<1>3. CASE \E p \in Place : DeletePlace(p)
  <2>1. PICK rs, knd, nr : ReprocessPlaces(rs, knd, nr) /\ UNCHANGED <<chosen, discarded, into>>
    BY <1>3 DEF DeletePlace
  <2> QED BY <2>1, ReprocessIInv
<1>4. CASE \E rule \in Rule : CreateRule(rule)
  BY <1>4, ReprocessIInv DEF CreateRule
<1>5. CASE \E i \in 1 .. MaxRules : DeleteRule(i)
  BY <1>5, ReprocessIInv DEF DeleteRule
<1> QED
  BY <1>1, <1>2, <1>3, <1>4, <1>5 DEF ConfigNext

LEMMA TripsNextIInv == TripsIInv /\ [TripsNext]_tripsVars => TripsIInv'
<1> SUFFICES ASSUME TripsIInv, [TripsNext]_tripsVars PROVE TripsIInv'
  OBVIOUS
<1>1. CASE UNCHANGED tripsVars
  BY <1>1 DEF tripsVars, TripsIInv, TripsTypeOK, RowsOK, NothingChosenAbsent, AwayHaveNoRow,
     UndecidedRows, UndecidedRow, Tagged, ByRules, Chosen
<1> QED
  BY <1>1, PersonIInv, ConfigIInv, RunOnceIInv, DeleteOverrideIInv DEF TripsNext

\* What a person last decided about a trip stands, and every other detected trip shows what
\* today's rules say of today's places, through every run of the detector, merge, split,
\* edit and import, whatever the rules say (apply_human_tag, plan_autotags).
THEOREM CategoriesAlwaysAgree == TripsSpec => []CategoriesAgree
<1>1. TripsSpec => []TripsIInv
  BY TripsInitIInv, TripsNextIInv, PTL DEF TripsSpec
<1>2. TripsIInv => CategoriesAgree
  BY DEF TripsIInv, Tagged, ByRules, Chosen, CategoriesAgree, ChoicesStand, RulesApplied, Here, TripRow
<1> QED BY <1>1, <1>2, PTL

-----------------------------------------------------------------------------
(* Fixes in time order, and what is selected of them (DetectorWindow).     *)

LEMMA TheOne == ASSUME NEW v PROVE The({v}) = v
  BY DEF The

\* The elements of K are numbered by how many come up to each.
LEMMA PlacesAreNumbers ==
    ASSUME NEW n \in Nat, NEW K \in SUBSET (1 .. n)
    PROVE  /\ Cardinality(K) \in Nat
           /\ \A i \in K : Cardinality(K \cap (1 .. i)) \in 1 .. Cardinality(K)
           /\ \A i, j \in K : i < j => Cardinality(K \cap (1 .. i)) < Cardinality(K \cap (1 .. j))
           /\ \A k \in 1 .. Cardinality(K) : \E i \in K : Cardinality(K \cap (1 .. i)) = k
<1> DEFINE Upto(i) == K \cap (1 .. i)
           m == Cardinality(K)
           places == [i \in K |-> Cardinality(Upto(i))]
<1>1. IsFiniteSet(K) /\ m \in Nat /\ K \subseteq Nat
  <2>1. 1 \in Int /\ n \in Int
    OBVIOUS
  <2>2. IsFiniteSet(1 .. n)
    BY <2>1, FS_Interval
  <2>3. IsFiniteSet(K)
    BY <2>2, FS_Subset
  <2> QED BY <2>3, FS_CardinalityType
<1>2. ASSUME NEW i \in K
      PROVE  Cardinality(Upto(i)) \in 1 .. m /\ IsFiniteSet(Upto(i))
  <2>1. IsFiniteSet(Upto(i)) /\ Cardinality(Upto(i)) <= m
    BY <1>1, FS_Subset
  <2>2. Cardinality(Upto(i)) \in Nat
    BY <2>1, FS_CardinalityType
  <2>3. i \in Upto(i)
    BY <1>1
  <2>4. Cardinality(Upto(i)) # 0
    BY <2>1, <2>3, FS_EmptySet
  <2> HIDE DEF Upto, m
  <2> QED BY <1>1, <2>1, <2>2, <2>4
<1>3. ASSUME NEW i \in K, NEW j \in K, i < j
      PROVE  Cardinality(Upto(i)) < Cardinality(Upto(j))
  <2>1. Upto(i) \subseteq Upto(j) /\ j \in Upto(j) /\ j \notin Upto(i)
    BY <1>1, <1>3
  <2>2. IsFiniteSet(Upto(j))
    BY <1>2
  <2>3. Cardinality(Upto(i)) <= Cardinality(Upto(j)) /\ Cardinality(Upto(i)) # Cardinality(Upto(j))
    BY <2>1, <2>2, FS_Subset
  <2>4. Cardinality(Upto(i)) \in Int /\ Cardinality(Upto(j)) \in Int
    BY <1>2
  <2> HIDE DEF Upto
  <2> QED BY <2>3, <2>4
<1>4. places \in Injection(K, 1 .. m)
  <2> HIDE DEF Upto, m
  <2>1. \A i, j \in K : Cardinality(Upto(i)) = Cardinality(Upto(j)) => i = j
    BY <1>1, <1>2, <1>3
  <2> QED BY <1>2, <2>1 DEF Injection, IsInjective
<1>5. IsFiniteSet(1 .. m) /\ Cardinality(1 .. m) = m
  <2>1. 1 \in Int /\ m \in Int /\ m \in Nat
    BY <1>1
  <2>2. IsFiniteSet(1 .. m) /\ Cardinality(1 .. m) = IF 1 > m THEN 0 ELSE m - 1 + 1
    BY <2>1, FS_Interval
  <2> HIDE DEF m
  <2> QED BY <2>1, <2>2
<1>6. places \in Surjection(K, 1 .. m)
  BY <1>4, <1>5, FS_Injection
<1>7. \A k \in 1 .. m : \E i \in K : Cardinality(Upto(i)) = k
  <2> HIDE DEF Upto, m
  <2> QED BY <1>6 DEF Surjection
<1> HIDE DEF Upto
<1> QED BY <1>1, <1>2, <1>3, <1>7 DEF Upto

Fix == [t : Nat \ {0}, x : Int, trig : BOOLEAN, poor : BOOLEAN]

InTime(pts) ==
    /\ pts \in Seq(Fix)
    /\ \A i, j \in 1 .. Len(pts) : i < j => pts[i].t < pts[j].t

\* A selection of fixes is in time order, and nothing else than what was selected.
Selects(s, pts, K) ==
    /\ \A k \in 1 .. Len(s) : \E i \in K : s[k] = pts[i]
    /\ \A i \in K : \E k \in 1 .. Len(s) : s[k] = pts[i]

LEMMA SubsequenceInTime ==
    ASSUME NEW pts, InTime(pts), NEW K \in SUBSET (1 .. Len(pts))
    PROVE  InTime(Subsequence(pts, K)) /\ Selects(Subsequence(pts, K), pts, K)
<1> DEFINE m == Cardinality(K)
           at(k) == CHOOSE i \in K : Cardinality(K \cap (1 .. i)) = k
           s == Subsequence(pts, K)
<1>1. Len(pts) \in Nat /\ \A i \in 1 .. Len(pts) : pts[i] \in Fix
  BY LenProperties, ElementOfSeq DEF InTime
<1>0. \A i, j \in K : i < j => Cardinality(K \cap (1 .. i)) < Cardinality(K \cap (1 .. j))
  BY <1>1, PlacesAreNumbers
<1>2. m \in Nat /\ \A k \in 1 .. m : at(k) \in K /\ Cardinality(K \cap (1 .. at(k))) = k
  BY <1>1, PlacesAreNumbers
<1>3. ASSUME NEW j \in 1 .. m, NEW k \in 1 .. m, j < k PROVE at(j) < at(k)
  <2>1. PICK a \in K, b \in K : /\ a = at(j) /\ Cardinality(K \cap (1 .. a)) = j
                                /\ b = at(k) /\ Cardinality(K \cap (1 .. b)) = k
    BY <1>2
  <2>2. b < a => Cardinality(K \cap (1 .. b)) < Cardinality(K \cap (1 .. a))
    BY <1>0
  <2>3. a \in Nat /\ b \in Nat
    BY <1>1
  <2> HIDE DEF at, m
  <2>5. j \in Nat /\ k \in Nat /\ ~(k < j) /\ j # k
    BY <1>2, <1>3
  <2>4. ~(b < a) /\ a # b
    BY <2>1, <2>2, <2>5
  <2> QED BY <2>1, <2>3, <2>4
<1>4. \A i \in K : \E k \in 1 .. m : at(k) = i
  <2> TAKE i \in K
  <2>1. Cardinality(K \cap (1 .. i)) \in 1 .. m
    BY <1>1, PlacesAreNumbers
  <2>2. PICK k \in 1 .. m : Cardinality(K \cap (1 .. i)) = k
    BY <2>1
  <2>3. PICK a \in K : a = at(k) /\ Cardinality(K \cap (1 .. a)) = k
    BY <1>2
  <2>4. a < i => Cardinality(K \cap (1 .. a)) < Cardinality(K \cap (1 .. i))
    BY <1>0
  <2>5. i < a => Cardinality(K \cap (1 .. i)) < Cardinality(K \cap (1 .. a))
    BY <1>0
  <2>6. a \in Nat /\ i \in Nat /\ k \in Nat /\ ~(k < k)
    BY <1>1, <1>2, <2>2
  <2>7. a = i
    BY <2>2, <2>3, <2>4, <2>5, <2>6
  <2> HIDE DEF at, m
  <2> QED BY <2>3, <2>7
<1>5. s = [k \in 1 .. m |-> pts[at(k)]]
  BY DEF Subsequence
<1> HIDE DEF at, m, s
<1>6. s \in Seq(Fix) /\ Len(s) = m
  <2>1. s \in [1 .. m -> Fix]
    BY <1>1, <1>2, <1>5
  <2>2. s \in Seq(Fix)
    BY <1>2, <2>1, SeqDef
  <2> QED BY <1>2, <2>1, <2>2, LenProperties
<1>7. \A j, k \in 1 .. m : j < k => s[j].t < s[k].t
  <2> TAKE j, k \in 1 .. m
  <2> HAVE j < k
  <2>1. at(j) < at(k) /\ at(j) \in 1 .. Len(pts) /\ at(k) \in 1 .. Len(pts)
    BY <1>2, <1>3
  <2>2. pts[at(j)].t < pts[at(k)].t
    BY <2>1 DEF InTime
  <2> QED BY <1>5, <2>2
<1>8. Selects(s, pts, K)
  BY <1>2, <1>4, <1>5, <1>6 DEF Selects
<1>9. InTime(s)
  BY <1>6, <1>7 DEF InTime
<1> QED BY <1>8, <1>9 DEF s

\* filter_points keeps every fix that a split pins.
LEMMA FilteredInTime ==
    ASSUME NEW pts, InTime(pts), NEW pinned
    PROVE  \E K \in SUBSET (1 .. Len(pts)) :
              /\ \A i \in 1 .. Len(pts) : pts[i].t \in pinned => i \in K
              /\ InTime(FilterPoints(pts, pinned))
              /\ Selects(FilterPoints(pts, pinned), pts, K)
<1> DEFINE last == LastKept(pts, pinned)
           K == {j \in DOMAIN pts : Keeps(pts, pinned, last[j], j)}
<1>1. DOMAIN pts = 1 .. Len(pts)
  BY LenProperties DEF InTime
<1>2. FilterPoints(pts, pinned) = Filtered(pts, pinned, last)
  <2>1. {Filtered(pts, pinned, l) : l \in {last}} = {Filtered(pts, pinned, last)}
    OBVIOUS
  <2> QED BY <2>1, TheOne DEF FilterPoints
<1>3. Filtered(pts, pinned, last) = Subsequence(pts, K)
  <2>1. {Subsequence(pts, k) : k \in {K}} = {Subsequence(pts, K)}
    OBVIOUS
  <2> QED BY <2>1, TheOne DEF Filtered
<1>4. K \in SUBSET (1 .. Len(pts)) /\ \A i \in 1 .. Len(pts) : pts[i].t \in pinned => i \in K
  BY <1>1 DEF Keeps
<1> HIDE DEF K
<1> QED BY <1>2, <1>3, <1>4, SubsequenceInTime

LEMMA WindowInTime ==
    ASSUME InTime(fixes), NEW t0
    PROVE  /\ InTime(Window(t0))
           /\ Selects(Window(t0), fixes, {i \in 1 .. Len(fixes) : fixes[i].t >= t0})
<1> DEFINE K == {i \in DOMAIN fixes : fixes[i].t >= t0}
<1>1. DOMAIN fixes = 1 .. Len(fixes)
  BY LenProperties DEF InTime
<1>2. Window(t0) = Subsequence(fixes, K)
  <2>1. {Subsequence(fixes, k) : k \in {K}} = {Subsequence(fixes, K)}
    OBVIOUS
  <2> QED BY <2>1, TheOne DEF Window
<1>3. K \in SUBSET (1 .. Len(fixes))
  BY <1>1
<1> QED BY <1>1, <1>2, <1>3, SubsequenceInTime
LEMMA Extremes ==
    ASSUME NEW S \in SUBSET Int, IsFiniteSet(S), S # {}
    PROVE  /\ \E x \in S : \A y \in S : x <= y
           /\ \E x \in S : \A y \in S : y <= x
<1> DEFINE below == {{y \in S : y <= x} : x \in S}
           above == {{y \in S : x <= y} : x \in S}
<1>1. IsWellFoundedOn(StrictSubsetOrdering(S), SUBSET S)
  BY FS_StrictSubsetOrderingWellFounded, FS_FiniteSubsetsOfFinite
<1>2. below \subseteq SUBSET S /\ below # {} /\ above \subseteq SUBSET S /\ above # {}
  OBVIOUS
<1>3. \E T \in below : \A U \in below : <<U, T>> \notin StrictSubsetOrdering(S)
  <2> HIDE DEF below
  <2> QED BY <1>1, <1>2, WFMin
<1>4. \E T \in above : \A U \in above : <<U, T>> \notin StrictSubsetOrdering(S)
  <2> HIDE DEF above
  <2> QED BY <1>1, <1>2, WFMin
<1>5. PICK x \in S : \A y \in S : <<{z \in S : z <= y}, {z \in S : z <= x}>> \notin StrictSubsetOrdering(S)
  BY <1>3
<1>6. PICK m \in S : \A y \in S : <<{z \in S : y <= z}, {z \in S : m <= z}>> \notin StrictSubsetOrdering(S)
  BY <1>4
<1>7. ASSUME NEW y \in S, y < x PROVE FALSE
  <2>1. {z \in S : z <= y} \subseteq {z \in S : z <= x}
    <3>1. \A z \in S : z \in Int /\ x \in Int /\ y \in Int
      OBVIOUS
    <3>2. \A z \in S : z <= y => z <= x
      BY <1>7, <3>1
    <3> QED BY <3>2, Zenon
  <2>2. x \in {z \in S : z <= x} /\ x \notin {z \in S : z <= y}
    BY <1>7
  <2> QED BY <1>5, <2>1, <2>2 DEF StrictSubsetOrdering
<1>8. ASSUME NEW y \in S, m < y PROVE FALSE
  <2>1. {z \in S : y <= z} \subseteq {z \in S : m <= z}
    <3>1. \A z \in S : z \in Int /\ m \in Int /\ y \in Int
      OBVIOUS
    <3>2. \A z \in S : y <= z => m <= z
      BY <1>8, <3>1
    <3> QED BY <3>2, Zenon
  <2>2. m \in {z \in S : m <= z} /\ m \notin {z \in S : y <= z}
    BY <1>8
  <2> QED BY <1>6, <2>1, <2>2 DEF StrictSubsetOrdering
<1> QED
  BY <1>7, <1>8


-----------------------------------------------------------------------------
(* Stays are apart, and no trip goes over one (TripDetector).              *)

Apart(marks, n) ==
    /\ marks \subseteq (1 .. n) \X (1 .. n)
    /\ \A s \in marks : s[1] <= s[2]
    /\ \A r, s \in marks : r = s \/ r[2] < s[1] \/ s[2] < r[1]

LEMMA RunsApart ==
    ASSUME NEW pts, InTime(pts), NEW links
    PROVE  Apart(RunsOf(pts, links), Len(pts))
<1> DEFINE runs == RunsOf(pts, links)
<1>1. DOMAIN pts = 1 .. Len(pts) /\ Len(pts) \in Nat
  BY LenProperties DEF InTime
<1>2. /\ runs \subseteq (1 .. Len(pts)) \X (1 .. Len(pts))
      /\ \A s \in runs : /\ s[1] - 1 \notin links /\ s[2] \notin links /\ s[1] < s[2]
                         /\ \A k \in s[1] .. s[2] - 1 : k \in links
  BY <1>1 DEF RunsOf
<1> HIDE DEF runs
<1>3. ASSUME NEW r \in runs, NEW s \in runs, r[1] < s[1], s[1] <= r[2] PROVE FALSE
  <2>1. r[1] \in Nat /\ r[2] \in Nat /\ s[1] \in Nat
    BY <1>1, <1>2
  <2>2. s[1] - 1 \in r[1] .. r[2] - 1
    BY <1>3, <2>1
  <2> QED BY <1>2, <2>2
<1>4. ASSUME NEW r \in runs, NEW s \in runs, r[1] = s[1], r[2] < s[2] PROVE FALSE
  <2>1. r[1] \in Nat /\ r[2] \in Nat /\ s[2] \in Nat /\ r[1] < r[2]
    BY <1>1, <1>2
  <2>2. r[2] \in s[1] .. s[2] - 1
    BY <1>4, <2>1
  <2> QED BY <1>2, <2>2
<1>5. ASSUME NEW r \in runs, NEW s \in runs
      PROVE  r = s \/ r[2] < s[1] \/ s[2] < r[1]
  <2>1. r \in Nat \X Nat /\ s \in Nat \X Nat
    BY <1>1, <1>2
  <2>2. r = <<r[1], r[2]>> /\ s = <<s[1], s[2]>> /\ {r[1], r[2], s[1], s[2]} \subseteq Nat
    BY <2>1
  <2>3. r[1] = s[1] => r[2] = s[2]
    BY <1>4, <2>2
  <2>4. r[1] = s[1] => r = s
    BY <2>2, <2>3
  <2> QED BY <1>3, <2>2, <2>4
<1>6. \A s \in runs : s[1] <= s[2]
  <2> TAKE s \in runs
  <2>1. s[1] \in Nat /\ s[2] \in Nat /\ s[1] < s[2]
    BY <1>1, <1>2
  <2> QED BY <2>1
<1> QED BY <1>2, <1>5, <1>6 DEF Apart, runs

LEMMA FindStaysApart ==
    ASSUME NEW pts, InTime(pts)
    PROVE  Apart(FindStays(pts), Len(pts))
<1> DEFINE linked == UnionRanges(pts, StationaryRanges(pts) \cup OnFootRanges(pts))
<1>1. FindStays(pts) = MergeBoundarySplits(pts, linked)
  <2>1. {MergeBoundarySplits(pts, s) : s \in {linked}} = {MergeBoundarySplits(pts, linked)}
    OBVIOUS
  <2> QED BY <2>1, TheOne DEF FindStays
<1>2. ASSUME NEW marks
      PROVE  \E links : MergeBoundarySplits(pts, marks) = RunsOf(pts, links)
  <2> DEFINE within == UNION {s[1] .. s[2] - 1 : s \in marks}
             between == {g \in Successive(marks) : Path(pts, g[1][2], g[2][1]) <= StayRadius}
             bridged == UNION {g[1][2] .. g[2][1] - 1 : g \in between}
             links == within \cup bridged
  <2>1. {RunsOf(pts, l) : l \in {links}} = {RunsOf(pts, links)}
    OBVIOUS
  <2>2. MergeBoundarySplits(pts, marks) = The({RunsOf(pts, l) : l \in {links}})
    BY DEF MergeBoundarySplits
  <2> HIDE DEF links
  <2> QED BY <2>1, <2>2, TheOne
<1> HIDE DEF linked
<1> QED BY <1>1, <1>2, RunsApart

LEMMA LastStayIsLast ==
    ASSUME NEW n \in Nat, NEW marks, Apart(marks, n), marks # {}
    PROVE  LastStay(marks) \in marks /\ \A s \in marks : s[2] <= LastStay(marks)[2]
<1> DEFINE firsts == {s[1] : s \in marks}
<1>1. \A s \in marks : s[1] \in 1 .. n /\ s[2] \in 1 .. n /\ s[1] <= s[2]
  BY DEF Apart
<1>2. IsFiniteSet(firsts) /\ firsts \in SUBSET Int /\ firsts # {}
  <2>1. 1 \in Int /\ n \in Int
    OBVIOUS
  <2>2. IsFiniteSet(1 .. n)
    BY <2>1, FS_Interval
  <2>3. firsts \in SUBSET (1 .. n)
    BY <1>1
  <2>4. IsFiniteSet(firsts)
    BY <2>2, <2>3, FS_Subset
  <2> QED BY <2>3, <2>4
<1>3. PICK x \in firsts : \A y \in firsts : y <= x
  <2> HIDE DEF firsts
  <2> QED BY <1>2, Extremes
<1>4. \E s \in marks : \A r \in marks : r[1] <= s[1]
  BY <1>3
<1>5. LastStay(marks) \in marks /\ \A r \in marks : r[1] <= LastStay(marks)[1]
  BY <1>4 DEF LastStay
<1>6. PICK m : m = LastStay(marks)
  OBVIOUS
<1>7. ASSUME NEW s \in marks PROVE s[2] <= m[2]
  <2>1. s = m \/ s[2] < m[1] \/ m[2] < s[1]
    BY <1>5, <1>6 DEF Apart
  <2> QED BY <2>1, <1>1, <1>5, <1>6
<1> QED BY <1>5, <1>6, <1>7

LEMMA ArrivalApart ==
    ASSUME NEW pts, InTime(pts), NEW marks, Apart(marks, Len(pts))
    PROVE  Apart(marks \cup TrailingArrivalStay(pts, marks), Len(pts))
<1> DEFINE n == Len(pts)
           start == IF marks = {} THEN 1 ELSE LastStay(marks)[2] + 1
           anchors == ArrivalAnchors(pts, start)
           i == Min(anchors)
<1>1. n \in Nat
  BY LenProperties DEF InTime
<1>2. \A s \in marks : s[1] \in 1 .. n /\ s[2] \in 1 .. n /\ s[1] <= s[2]
  BY DEF Apart
<1>3. start \in Nat /\ start >= 1 /\ \A s \in marks : s[2] < start
  BY <1>1, <1>2, LastStayIsLast
<1>4. anchors \in SUBSET (start .. n - 1)
  BY DEF ArrivalAnchors
<1>5. anchors # {} => i \in anchors
  <2> HIDE DEF n, start
  <2>1. start \in Int /\ n - 1 \in Int
    BY <1>1, <1>3
  <2>2. IsFiniteSet(start .. n - 1)
    BY <2>1, FS_Interval
  <2>3. IsFiniteSet(anchors) /\ anchors \in SUBSET Int
    <3>1. IsFiniteSet(anchors)
      BY <1>4, <2>2, FS_Subset
    <3>2. start .. n - 1 \subseteq Int
      BY <2>1
    <3> QED BY <1>4, <3>1, <3>2
  <2> HIDE DEF anchors
  <2>4. anchors # {} => \E x \in anchors : \A y \in anchors : x <= y
    BY <2>3, Extremes
  <2> QED BY <2>4 DEF Min
<1>6. TrailingArrivalStay(pts, marks) \subseteq {<<i, n>>} /\ (anchors = {} => TrailingArrivalStay(pts, marks) = {})
  BY DEF TrailingArrivalStay
<1>7. CASE anchors = {}
  BY <1>6, <1>7
<1>8. CASE anchors # {}
  <2>1. PICK a : a = i /\ a \in start .. n - 1
    BY <1>4, <1>5, <1>8
  <2> DEFINE arrival == TrailingArrivalStay(pts, marks)
  <2>2. arrival \subseteq {<<a, n>>}
    BY <1>6, <2>1
  <2> HIDE DEF n, start, i, anchors, arrival
  <2>3. a \in 1 .. n /\ a <= n /\ n \in 1 .. n
    BY <1>1, <1>3, <2>1
  <2>4. \A s \in marks : s[2] < a
    BY <1>1, <1>2, <1>3, <2>1
  <2>5. Apart(marks, n)
    BY DEF n
  <2>6. \A s \in arrival : s = <<a, n>> /\ s[1] = a /\ s[2] = n
    BY <2>2
  <2>7. marks \cup arrival \subseteq (1 .. n) \X (1 .. n)
    BY <2>2, <2>3, <2>5 DEF Apart
  <2>8. \A s \in marks \cup arrival : s[1] <= s[2]
    BY <2>3, <2>6, <1>2
  <2>9. ASSUME NEW r \in marks \cup arrival, NEW s \in marks \cup arrival
        PROVE  r = s \/ r[2] < s[1] \/ s[2] < r[1]
    <3>1. CASE r \in marks /\ s \in marks
      BY <3>1, <2>5 DEF Apart
    <3>2. CASE r \in arrival /\ s \in arrival
      BY <3>2, <2>6
    <3>3. CASE r \in marks /\ s \in arrival
      BY <3>3, <2>4, <2>6
    <3>4. CASE r \in arrival /\ s \in marks
      BY <3>4, <2>4, <2>6
    <3> QED BY <3>1, <3>2, <3>3, <3>4
  <2>10. Apart(marks \cup arrival, n)
    BY <2>7, <2>8, <2>9 DEF Apart
  <2> QED BY <2>10 DEF n, arrival
<1> QED BY <1>7, <1>8


\* t is in none of the ranges in which a merge suppressed the stays.
Clear(t, ranges) == \A r \in ranges : t < r[1] \/ r[2] < t

\* _apply_overrides: the stays stay apart, none of them is in a suppressed range, and there
\* is one at each fix of a split that is in no such range.
LEMMA OverridesApart ==
    ASSUME NEW pts, InTime(pts), NEW marks, Apart(marks, Len(pts)),
           NEW ranges \in SUBSET (Int \X Int), NEW splits
    PROVE  LET all == ApplyOverrides(pts, marks, ranges, splits)
           IN  /\ Apart(all, Len(pts))
               /\ \A s \in all, r \in ranges : pts[s[2]].t < r[1] \/ r[2] < pts[s[1]].t
               /\ \A i \in 1 .. Len(pts) : pts[i].t \in splits /\ Clear(pts[i].t, ranges) =>
                     \E s \in all : s[1] <= i /\ i <= s[2]
<1> DEFINE n == Len(pts)
           kept == {s \in marks :
                       ~\E r \in ranges : r[1] <= pts[s[2]].t /\ pts[s[1]].t <= r[2]}
           forced == {i \in DOMAIN pts :
                       /\ pts[i].t \in splits
                       /\ ~\E r \in ranges : r[1] <= pts[i].t /\ pts[i].t <= r[2]
                       /\ ~\E s \in kept : s[1] <= i /\ i <= s[2]}
           all == ApplyOverrides(pts, marks, ranges, splits)
<1>1. /\ n \in Nat /\ DOMAIN pts = 1 .. n /\ \A i \in 1 .. n : pts[i].t \in Nat
      /\ \A r \in ranges : r[1] \in Int /\ r[2] \in Int
  <2>1. \A i \in 1 .. Len(pts) : pts[i] \in Fix
    BY ElementOfSeq DEF InTime
  <2> QED BY <2>1, LenProperties DEF InTime, Fix
<1>2. all = kept \cup {<<i, i>> : i \in forced}
  BY DEF ApplyOverrides
<1>3. \A s \in marks : s[1] \in 1 .. n /\ s[2] \in 1 .. n /\ s[1] <= s[2]
  BY DEF Apart
<1>4. kept \subseteq marks /\ \A s \in kept, r \in ranges : ~(r[1] <= pts[s[2]].t /\ pts[s[1]].t <= r[2])
  OBVIOUS
<1>5. \A i \in forced : /\ i \in 1 .. n
                        /\ \A r \in ranges : ~(r[1] <= pts[i].t /\ pts[i].t <= r[2])
                        /\ \A s \in kept : ~(s[1] <= i /\ i <= s[2])
  BY <1>1
<1>6. \A i \in 1 .. n : pts[i].t \in splits /\ Clear(pts[i].t, ranges) =>
        i \in forced \/ \E s \in kept : s[1] <= i /\ i <= s[2]
  <2> TAKE i \in 1 .. n
  <2> HAVE pts[i].t \in splits /\ Clear(pts[i].t, ranges)
  <2>1. \A r \in ranges : ~(r[1] <= pts[i].t /\ pts[i].t <= r[2])
    BY <1>1 DEF Clear
  <2> HIDE DEF kept
  <2> QED BY <1>1, <2>1
<1>7. Apart(marks, n)
  OBVIOUS
<1> DEFINE single == {<<i, i>> : i \in forced}
<1>8. \A s \in single : s[1] \in forced /\ s[2] = s[1] /\ s = <<s[1], s[1]>>
  <2> HIDE DEF forced
  <2> QED OBVIOUS
<1>9. \A i \in forced : <<i, i>> \in single
  OBVIOUS
<1> HIDE DEF n, kept, forced, all, single
<1>10. all = kept \cup single
  BY <1>2 DEF single
<1>11. all \subseteq (1 .. n) \X (1 .. n)
  <2>1. kept \subseteq (1 .. n) \X (1 .. n)
    BY <1>4, <1>7 DEF Apart
  <2>2. single \subseteq (1 .. n) \X (1 .. n)
    BY <1>5, <1>8
  <2> QED BY <1>10, <2>1, <2>2
<1>12. \A s \in all : s[1] \in 1 .. n /\ s[2] \in 1 .. n /\ s[1] <= s[2]
  <2>1. \A s \in single : s[1] \in 1 .. n /\ s[2] \in 1 .. n /\ s[1] <= s[2]
    BY <1>1, <1>5, <1>8
  <2> QED BY <1>3, <1>4, <1>10, <2>1
<1>13. ASSUME NEW r \in all, NEW s \in all PROVE r = s \/ r[2] < s[1] \/ s[2] < r[1]
  <2>1. CASE r \in kept /\ s \in kept
    BY <2>1, <1>4, <1>7 DEF Apart
  <2>2. CASE r \in kept /\ s \in single
    <3>1. ~(r[1] <= s[1] /\ s[1] <= r[2]) /\ s[2] = s[1]
      BY <2>2, <1>5, <1>8
    <3> QED BY <3>1, <1>1, <1>12
  <2>3. CASE r \in single /\ s \in kept
    <3>1. ~(s[1] <= r[1] /\ r[1] <= s[2]) /\ r[2] = r[1]
      BY <2>3, <1>5, <1>8
    <3> QED BY <3>1, <1>1, <1>12
  <2>4. CASE r \in single /\ s \in single
    <3>1. r = <<r[1], r[1]>> /\ s = <<s[1], s[1]>> /\ r[2] = r[1] /\ s[2] = s[1]
      BY <2>4, <1>8
    <3>2. r[1] = s[1] \/ r[1] < s[1] \/ s[1] < r[1]
      BY <1>1, <1>12
    <3> QED BY <3>1, <3>2
  <2> QED BY <1>10, <2>1, <2>2, <2>3, <2>4
<1>14. Apart(all, n)
  BY <1>11, <1>12, <1>13 DEF Apart
<1>15. ASSUME NEW s \in all, NEW r \in ranges PROVE pts[s[2]].t < r[1] \/ r[2] < pts[s[1]].t
  <2>1. ~(r[1] <= pts[s[2]].t /\ pts[s[1]].t <= r[2])
    <3>1. CASE s \in kept
      BY <1>4, <3>1
    <3>2. CASE s \in single
      BY <1>5, <1>8, <3>2
    <3> QED BY <1>10, <3>1, <3>2
  <2>2. pts[s[2]].t \in Nat /\ pts[s[1]].t \in Nat /\ r[1] \in Int /\ r[2] \in Int
    BY <1>1, <1>12
  <2> QED BY <2>1, <2>2
<1>16. \A i \in 1 .. n : pts[i].t \in splits /\ Clear(pts[i].t, ranges) =>
         \E s \in all : s[1] <= i /\ i <= s[2]
  <2> TAKE i \in 1 .. n
  <2> HAVE pts[i].t \in splits /\ Clear(pts[i].t, ranges)
  <2>1. CASE i \in forced
    <3>1. <<i, i>> \in all /\ i <= i
      BY <1>1, <1>9, <1>10, <2>1
    <3> QED BY <3>1
  <2>2. CASE \E s \in kept : s[1] <= i /\ i <= s[2]
    BY <1>10, <2>2
  <2> QED BY <1>6, <2>1, <2>2
<1> QED BY <1>14, <1>15, <1>16 DEF n, all

\* assemble_trips: a trip goes from the last fix of a stay to the first of a later one, and
\* has no fix of a stay between the two.
LEMMA NoTripOverAStay ==
    ASSUME NEW pts, InTime(pts), NEW marks, Apart(marks, Len(pts)),
           NEW e \in AssembleTrips(pts, marks)
    PROVE  /\ e.from \in {pts[i].t : i \in 1 .. Len(pts)}
           /\ e.to \in {pts[i].t : i \in 1 .. Len(pts)}
           /\ e.from < e.to /\ e.fixes \subseteq {pts[i].t : i \in 1 .. Len(pts)}
           /\ \A i \in 1 .. Len(pts), s \in marks :
                 s[1] <= i /\ i <= s[2] => ~(e.from < pts[i].t /\ pts[i].t < e.to)
<1> DEFINE n == Len(pts)
<1>1. PICK g \in Successive(marks) :
         e = [from |-> pts[g[1][2]].t, to |-> pts[g[2][1]].t,
              fixes |-> {pts[k].t : k \in g[1][2] .. g[2][1]}]
  BY DEF AssembleTrips
<1>2. PICK a \in marks, b \in marks :
         g = <<a, b>> /\ a[1] < b[1] /\ \A c \in marks : c[1] <= a[1] \/ b[1] <= c[1]
  BY DEF Successive
<1>3. e.from = pts[a[2]].t /\ e.to = pts[b[1]].t
  BY <1>1, <1>2
<1>4. n \in Nat /\ \A s \in marks : s[1] \in 1 .. n /\ s[2] \in 1 .. n /\ s[1] <= s[2]
  BY LenProperties DEF InTime, Apart
<1>5. \A i, j \in 1 .. n : pts[i].t \in Nat /\ (i < j => pts[i].t < pts[j].t)
  <2>1. \A i \in 1 .. Len(pts) : pts[i] \in Fix
    BY ElementOfSeq DEF InTime
  <2> QED BY <2>1 DEF InTime, Fix
<1>6. \A r, s \in marks : r = s \/ r[2] < s[1] \/ s[2] < r[1]
  BY DEF Apart
<1> HIDE DEF n
<1>7. ASSUME NEW i \in 1 .. n, NEW c \in marks, c[1] <= i, i <= c[2],
             pts[a[2]].t < pts[i].t, pts[i].t < pts[b[1]].t
      PROVE  FALSE
  <2>1. /\ i \in Nat /\ a[1] \in Nat /\ a[2] \in Nat /\ b[1] \in Nat /\ c[1] \in Nat /\ c[2] \in Nat
        /\ a[2] \in 1 .. n /\ b[1] \in 1 .. n
    <3>1. \A k \in 1 .. n : k \in Nat
      BY <1>4
    <3>2. /\ a[1] \in 1 .. n /\ a[2] \in 1 .. n /\ b[1] \in 1 .. n
          /\ c[1] \in 1 .. n /\ c[2] \in 1 .. n
      BY <1>4
    <3> QED BY <3>1, <3>2
  <2>2. ~(i < a[2]) /\ i # a[2] /\ ~(b[1] < i) /\ i # b[1]
    <3>1. pts[i].t \in Nat /\ pts[a[2]].t \in Nat /\ pts[b[1]].t \in Nat
      BY <1>5, <2>1
    <3>2. ~(pts[i].t < pts[a[2]].t) /\ pts[i].t # pts[a[2]].t
          /\ ~(pts[b[1]].t < pts[i].t) /\ pts[b[1]].t # pts[i].t
      <4>1. \A x, y \in Nat : x < y => ~(y < x) /\ x # y
        OBVIOUS
      <4> QED BY <1>7, <3>1, <4>1
    <3> QED BY <1>5, <2>1, <3>2
  <2>3. a[2] < i /\ i < b[1]
    BY <1>4, <2>1, <2>2
  <2>4. c[1] <= a[1] \/ b[1] <= c[1]
    BY <1>2
  <2>5. c = a \/ c[2] < a[1] \/ a[2] < c[1]
    BY <1>6
  <2>6. a[1] <= a[2]
    BY <1>4
  <2>7. c[1] <= i /\ i <= c[2]
    BY <1>7
  <2>8. c # a
    BY <2>1, <2>3, <2>7
  <2>9. ~(c[2] < a[1])
    BY <2>1, <2>3, <2>6, <2>7
  <2>10. ~(a[2] < c[1])
    BY <2>1, <2>3, <2>4, <2>6, <2>7
  <2> QED BY <2>5, <2>8, <2>9, <2>10
<1>8. \A i \in 1 .. n, s \in marks :
         s[1] <= i /\ i <= s[2] => ~(e.from < pts[i].t /\ pts[i].t < e.to)
  BY <1>3, <1>7
<1>9. e.from < e.to
  <2>1. /\ a[1] \in 1 .. n /\ a[2] \in 1 .. n /\ b[1] \in 1 .. n /\ b[2] \in 1 .. n
        /\ b[1] <= b[2]
    BY <1>4
  <2>2. a[2] < b[1]
    BY <1>2, <1>4, <1>6, <2>1
  <2> QED BY <1>3, <1>5, <2>1, <2>2
<1>10. e.fixes \subseteq {pts[i].t : i \in 1 .. n}
  <2>1. a[2] \in 1 .. n /\ b[1] \in 1 .. n
    BY <1>4
  <2>2. a[2] .. b[1] \subseteq 1 .. n
    BY <1>4, <2>1
  <2>3. e.fixes = {pts[k].t : k \in a[2] .. b[1]}
    BY <1>1, <1>2
  <2> QED BY <2>2, <2>3
<1> QED BY <1>3, <1>4, <1>8, <1>9, <1>10 DEF n


-----------------------------------------------------------------------------
(* What detect derives from fixes in time order (TripDetector).            *)

TimesOf(pts) == {pts[i].t : i \in 1 .. Len(pts)}

Derived(d, points, ranges, splits) ==
    /\ \A s \in d.stays \cup d.arrival :
          s.from \in TimesOf(points) /\ s.to \in TimesOf(points) /\ s.from <= s.to
    /\ \A r, s \in d.stays : r.from < s.from => r.to < s.from
    /\ \A s \in d.stays, r \in ranges : s.to < r[1] \/ r[2] < s.from
    /\ \A e \in d.trips :
          /\ e.from \in TimesOf(points) /\ e.to \in TimesOf(points) /\ e.from < e.to
          /\ e.fixes \subseteq TimesOf(points)
          /\ \A t \in TimesOf(points) \cap splits : Clear(t, ranges) => ~(e.from < t /\ t < e.to)

LEMMA OutcomeDerived ==
    ASSUME NEW pts, InTime(pts), NEW real, NEW arrival, Apart(real \cup arrival, Len(pts)),
           NEW ranges \in SUBSET (Int \X Int), NEW splits, NEW discards
    PROVE  Derived(Outcome(pts, ApplyOverrides(pts, real \cup arrival, ranges, splits), arrival,
                           discards), pts, ranges, splits)
<1> DEFINE all == ApplyOverrides(pts, real \cup arrival, ranges, splits)
           d == Outcome(pts, all, arrival, discards)
<1>1. /\ Apart(all, Len(pts))
      /\ \A s \in all, r \in ranges : pts[s[2]].t < r[1] \/ r[2] < pts[s[1]].t
      /\ \A i \in 1 .. Len(pts) : pts[i].t \in splits /\ Clear(pts[i].t, ranges) =>
            \E s \in all : s[1] <= i /\ i <= s[2]
  BY OverridesApart
<1> HIDE DEF all
<1>2. \A s \in d.stays \cup d.arrival : \E a \in all : s = Span(pts, a)
  BY DEF Outcome
<1>3. \A e \in d.trips : e \in AssembleTrips(pts, all)
  BY DEF Outcome
<1> HIDE DEF d
<1>4. \A i, j \in 1 .. Len(pts) : pts[i].t \in Nat /\ (i < j => pts[i].t < pts[j].t)
  <2>1. \A i \in 1 .. Len(pts) : pts[i] \in Fix
    BY ElementOfSeq DEF InTime
  <2> QED BY <2>1 DEF InTime, Fix
<1>5. ASSUME NEW s \in d.stays \cup d.arrival
      PROVE  /\ s.from \in TimesOf(pts) /\ s.to \in TimesOf(pts) /\ s.from <= s.to
             /\ \A r \in ranges : s.to < r[1] \/ r[2] < s.from
  <2>1. PICK a \in all : s = Span(pts, a)
    BY <1>2
  <2>2. s.from = pts[a[1]].t /\ s.to = pts[a[2]].t
    BY <2>1 DEF Span
  <2>3. a[1] \in 1 .. Len(pts) /\ a[2] \in 1 .. Len(pts) /\ a[1] <= a[2]
    BY <1>1 DEF Apart
  <2>4. pts[a[1]].t <= pts[a[2]].t
    <3>1. a[1] = a[2] \/ a[1] < a[2]
      BY <2>3
    <3> QED BY <1>4, <2>3, <3>1
  <2>5. s.from \in TimesOf(pts) /\ s.to \in TimesOf(pts)
    BY <2>2, <2>3 DEF TimesOf
  <2> QED BY <1>1, <2>2, <2>4, <2>5
<1>6. ASSUME NEW r \in d.stays, NEW s \in d.stays, r.from < s.from PROVE r.to < s.from
  <2>1. PICK a \in all, b \in all : r = Span(pts, a) /\ s = Span(pts, b)
    BY <1>2
  <2>2. r.from = pts[a[1]].t /\ r.to = pts[a[2]].t /\ s.from = pts[b[1]].t /\ s.to = pts[b[2]].t
    BY <2>1 DEF Span
  <2>3. /\ a[1] \in 1 .. Len(pts) /\ a[2] \in 1 .. Len(pts)
        /\ b[1] \in 1 .. Len(pts) /\ b[2] \in 1 .. Len(pts) /\ b[1] <= b[2]
        /\ (a = b \/ a[2] < b[1] \/ b[2] < a[1])
    BY <1>1 DEF Apart
  <2>4. pts[a[1]].t < pts[b[1]].t /\ pts[a[1]].t \in Nat /\ pts[b[1]].t \in Nat
    BY <1>4, <1>6, <2>2, <2>3
  <2>5. a # b
    BY <2>4
  <2>6. ~(b[2] < a[1])
    <3>1. SUFFICES ASSUME b[2] < a[1] PROVE FALSE
      OBVIOUS
    <3>2. b[1] < a[1]
      BY <2>3, <3>1
    <3>3. pts[b[1]].t < pts[a[1]].t
      BY <1>4, <2>3, <3>2
    <3> QED BY <2>4, <3>3
  <2>7. a[2] < b[1]
    BY <2>3, <2>5, <2>6
  <2> QED BY <1>4, <2>2, <2>3, <2>7
<1>7. ASSUME NEW e \in d.trips
      PROVE  /\ e.from \in TimesOf(pts) /\ e.to \in TimesOf(pts) /\ e.from < e.to
             /\ e.fixes \subseteq TimesOf(pts)
             /\ \A t \in TimesOf(pts) \cap splits :
                   Clear(t, ranges) => ~(e.from < t /\ t < e.to)
  <2>1. /\ e.from \in {pts[i].t : i \in 1 .. Len(pts)}
        /\ e.to \in {pts[i].t : i \in 1 .. Len(pts)}
        /\ e.from < e.to /\ e.fixes \subseteq {pts[i].t : i \in 1 .. Len(pts)}
        /\ \A i \in 1 .. Len(pts), s \in all :
              s[1] <= i /\ i <= s[2] => ~(e.from < pts[i].t /\ pts[i].t < e.to)
    BY <1>1, <1>3, NoTripOverAStay
  <2>2. ASSUME NEW t \in TimesOf(pts) \cap splits, Clear(t, ranges)
        PROVE  ~(e.from < t /\ t < e.to)
    <3>1. PICK i \in 1 .. Len(pts) : t = pts[i].t
      BY DEF TimesOf
    <3>2. PICK s \in all : s[1] <= i /\ i <= s[2]
      BY <1>1, <2>2, <3>1
    <3> QED BY <2>1, <3>1, <3>2
  <2> QED BY <2>1, <2>2 DEF TimesOf
<1>8. Derived(d, pts, ranges, splits)
  BY <1>5, <1>7, <1>6 DEF Derived
<1> QED BY <1>8 DEF d, all

LEMMA DetectIsOutcome ==
    ASSUME NEW points, NEW ranges, NEW splits, NEW discards
    PROVE  LET pts == FilterPoints(points, splits)
               real == FindStays(pts)
               arrival == TrailingArrivalStay(pts, real)
               all == ApplyOverrides(pts, real \cup arrival, ranges, splits)
           IN  Detect(points, ranges, splits, discards) = Outcome(pts, all, arrival, discards)
<1> DEFINE pts == FilterPoints(points, splits)
           real == FindStays(pts)
           arrival == TrailingArrivalStay(pts, real)
           all == ApplyOverrides(pts, real \cup arrival, ranges, splits)
<1>1. {Found(p, ranges, splits, discards) : p \in {pts}} = {Found(pts, ranges, splits, discards)}
  OBVIOUS
<1>2. Detect(points, ranges, splits, discards) = Found(pts, ranges, splits, discards)
  BY <1>1, TheOne DEF Detect
<1> HIDE DEF pts
<1>3. {Extended(pts, x, ranges, splits, discards) : x \in {real}}
        = {Extended(pts, real, ranges, splits, discards)}
  OBVIOUS
<1>4. Found(pts, ranges, splits, discards) = Extended(pts, real, ranges, splits, discards)
  BY <1>3, TheOne DEF Found
<1> HIDE DEF real
<1>5. {Overridden(pts, real, x, ranges, splits, discards) : x \in {arrival}}
        = {Overridden(pts, real, arrival, ranges, splits, discards)}
  OBVIOUS
<1>6. Extended(pts, real, ranges, splits, discards)
        = Overridden(pts, real, arrival, ranges, splits, discards)
  BY <1>5, TheOne DEF Extended
<1> HIDE DEF arrival
<1>7. {Outcome(pts, x, arrival, discards) : x \in {all}} = {Outcome(pts, all, arrival, discards)}
  OBVIOUS
<1>8. Overridden(pts, real, arrival, ranges, splits, discards) = Outcome(pts, all, arrival, discards)
  BY <1>7, TheOne DEF Overridden
<1> QED BY <1>2, <1>4, <1>6, <1>8 DEF pts, real, arrival

LEMMA DetectDerived ==
    ASSUME NEW points, InTime(points), NEW ranges \in SUBSET (Int \X Int), NEW splits, NEW discards
    PROVE  Derived(Detect(points, ranges, splits, discards), points, ranges, splits)
<1> DEFINE pts == FilterPoints(points, splits)
           real == FindStays(pts)
           arrival == TrailingArrivalStay(pts, real)
           all == ApplyOverrides(pts, real \cup arrival, ranges, splits)
           d == Outcome(pts, all, arrival, discards)
<1>1. PICK K \in SUBSET (1 .. Len(points)) :
         /\ \A i \in 1 .. Len(points) : points[i].t \in splits => i \in K
         /\ InTime(pts)
         /\ Selects(pts, points, K)
  BY FilteredInTime
<1>2. Detect(points, ranges, splits, discards) = d
  BY DetectIsOutcome
<1>3. Apart(real \cup arrival, Len(pts))
  BY <1>1, FindStaysApart, ArrivalApart
<1> HIDE DEF pts, real, arrival
<1>4. Derived(d, pts, ranges, splits)
  BY <1>1, <1>3, OutcomeDerived
<1>5. TimesOf(pts) \subseteq TimesOf(points) /\ TimesOf(points) \cap splits \subseteq TimesOf(pts)
  <2>1. TimesOf(pts) \subseteq TimesOf(points)
    BY <1>1 DEF Selects, TimesOf
  <2>2. ASSUME NEW t \in TimesOf(points) \cap splits PROVE t \in TimesOf(pts)
    <3>1. PICK i \in 1 .. Len(points) : t = points[i].t
      BY DEF TimesOf
    <3>2. PICK k \in 1 .. Len(pts) : pts[k] = points[i]
      BY <1>1, <3>1 DEF Selects
    <3> QED BY <3>1, <3>2 DEF TimesOf
  <2> QED BY <2>1, <2>2
<1> HIDE DEF d
<1>6. Derived(d, points, ranges, splits)
  BY <1>4, <1>5 DEF Derived
<1> QED BY <1>2, <1>6

-----------------------------------------------------------------------------
(* Where the trips of one pass lie among its stays (TripDetector).         *)

\* A fix that two trips of d share is their boundary, and a split.
SharesSplitsOnly(d, splits) ==
    \A e, f \in d.trips : e # f =>
        /\ e.to <= f.from \/ f.to <= e.from
        /\ \A t \in e.fixes \cap f.fixes : t \in splits /\ t \in {e.from, e.to}

\* A trip has the fixes from the stay it leaves to the stay it ends at, and reaches over no
\* other.  It leaves its stay at a later fix than that began with, but for a split.
LiesBetween(d, splits) ==
    \A e \in d.trips :
        /\ \A t \in e.fixes : e.from <= t /\ t <= e.to
        /\ \E s \in d.stays \cup d.arrival : s.from = e.to
        /\ \E s \in d.stays \cup d.arrival : s.from <= e.from /\ (s.from = e.from => e.from \in splits)
        /\ \A s \in d.stays \cup d.arrival : ~(e.from < s.from /\ s.from < e.to)

LEMMA FindStaysLast ==
    ASSUME NEW pts, NEW s \in FindStays(pts)
    PROVE  s[1] < s[2]
<1> DEFINE linked == UnionRanges(pts, StationaryRanges(pts) \cup OnFootRanges(pts))
<1>1. FindStays(pts) = MergeBoundarySplits(pts, linked)
  <2>1. {MergeBoundarySplits(pts, q) : q \in {linked}} = {MergeBoundarySplits(pts, linked)}
    OBVIOUS
  <2> QED BY <2>1, TheOne DEF FindStays
<1> HIDE DEF linked
<1> DEFINE within == UNION {q[1] .. q[2] - 1 : q \in linked}
           between == {g \in Successive(linked) : Path(pts, g[1][2], g[2][1]) <= StayRadius}
           bridged == UNION {g[1][2] .. g[2][1] - 1 : g \in between}
           links == within \cup bridged
<1>2. MergeBoundarySplits(pts, linked) = RunsOf(pts, links)
  <2>1. {RunsOf(pts, l) : l \in {links}} = {RunsOf(pts, links)}
    OBVIOUS
  <2>2. MergeBoundarySplits(pts, linked) = The({RunsOf(pts, l) : l \in {links}})
    BY DEF MergeBoundarySplits
  <2> HIDE DEF links
  <2> QED BY <2>1, <2>2, TheOne
<1> HIDE DEF links
<1> QED BY <1>1, <1>2 DEF RunsOf

LEMMA ArrivalLasts ==
    ASSUME NEW pts, InTime(pts), NEW marks, Apart(marks, Len(pts)),
           NEW s \in TrailingArrivalStay(pts, marks)
    PROVE  s[1] < s[2]
<1> DEFINE n == Len(pts)
           start == IF marks = {} THEN 1 ELSE LastStay(marks)[2] + 1
           anchors == ArrivalAnchors(pts, start)
           i == Min(anchors)
<1>1. n \in Nat
  BY LenProperties DEF InTime
<1>2. \A q \in marks : q[1] \in 1 .. n /\ q[2] \in 1 .. n /\ q[1] <= q[2]
  BY DEF Apart
<1>3. start \in Nat
  BY <1>1, <1>2, LastStayIsLast
<1>4. anchors \in SUBSET (start .. n - 1)
  BY DEF ArrivalAnchors
<1>5. s = <<i, n>> /\ anchors # {}
  BY DEF TrailingArrivalStay
<1>6. i \in anchors
  <2> HIDE DEF n, start
  <2>1. start \in Int /\ n - 1 \in Int
    BY <1>1, <1>3
  <2>2. IsFiniteSet(start .. n - 1)
    BY <2>1, FS_Interval
  <2>3. IsFiniteSet(anchors) /\ anchors \in SUBSET Int
    <3>1. IsFiniteSet(anchors)
      BY <1>4, <2>2, FS_Subset
    <3>2. start .. n - 1 \subseteq Int
      BY <2>1
    <3> QED BY <1>4, <3>1, <3>2
  <2> HIDE DEF anchors
  <2>4. \E x \in anchors : \A y \in anchors : x <= y
    BY <1>5, <2>3, Extremes
  <2> QED BY <2>4 DEF Min
<1>7. PICK a : a = i /\ a \in start .. n - 1
  BY <1>4, <1>6
<1>8. s[1] = a /\ s[2] = n
  BY <1>5, <1>7
<1> HIDE DEF n, start
<1> QED BY <1>1, <1>3, <1>7, <1>8

\* A stay of one fix is forced by a split.
LEMMA SingleIsSplit ==
    ASSUME NEW pts, NEW n \in Nat, NEW marks, Apart(marks, n), \A s \in marks : s[1] < s[2],
           NEW ranges, NEW splits, NEW s \in ApplyOverrides(pts, marks, ranges, splits),
           s[1] = s[2]
    PROVE  pts[s[1]].t \in splits
<1> DEFINE kept == {q \in marks :
                       ~\E r \in ranges : r[1] <= pts[q[2]].t /\ pts[q[1]].t <= r[2]}
           forced == {i \in DOMAIN pts :
                       /\ pts[i].t \in splits
                       /\ ~\E r \in ranges : r[1] <= pts[i].t /\ pts[i].t <= r[2]
                       /\ ~\E q \in kept : q[1] <= i /\ i <= q[2]}
<1>1. ApplyOverrides(pts, marks, ranges, splits) = kept \cup {<<i, i>> : i \in forced}
  BY DEF ApplyOverrides
<1>2. s \notin kept
  <2>1. \A q \in marks : q[1] \in 1 .. n /\ q[2] \in 1 .. n /\ q[1] < q[2]
    BY DEF Apart
  <2>2. \A q \in marks : q[1] # q[2]
    BY <2>1
  <2> QED BY <2>2
<1>3. PICK i \in forced : s = <<i, i>>
  BY <1>1, <1>2
<1> QED BY <1>3

LEMMA AssembledBetween ==
    ASSUME NEW pts, InTime(pts), NEW marks, Apart(marks, Len(pts)),
           NEW e \in AssembleTrips(pts, marks)
    PROVE  \E a, b \in marks :
              /\ a[2] < b[1] /\ \A c \in marks : c[1] <= a[1] \/ b[1] <= c[1]
              /\ e = [from |-> pts[a[2]].t, to |-> pts[b[1]].t,
                      fixes |-> {pts[k].t : k \in a[2] .. b[1]}]
<1>1. PICK g \in Successive(marks) :
         e = [from |-> pts[g[1][2]].t, to |-> pts[g[2][1]].t,
              fixes |-> {pts[k].t : k \in g[1][2] .. g[2][1]}]
  BY DEF AssembleTrips
<1>2. PICK a \in marks, b \in marks :
         g = <<a, b>> /\ a[1] < b[1] /\ \A c \in marks : c[1] <= a[1] \/ b[1] <= c[1]
  BY DEF Successive
<1>3. a[2] < b[1]
  <2>1. a[1] \in Nat /\ a[2] \in Nat /\ b[1] \in Nat /\ b[2] \in Nat /\ b[1] <= b[2]
    BY DEF Apart
  <2>2. a = b \/ a[2] < b[1] \/ b[2] < a[1]
    BY DEF Apart
  <2> QED BY <1>2, <2>1, <2>2
<1> QED BY <1>1, <1>2, <1>3

LEMMA AssembledLie ==
    ASSUME NEW pts, InTime(pts), NEW marks, Apart(marks, Len(pts)), NEW splits,
           \A s \in marks : s[1] = s[2] => pts[s[1]].t \in splits,
           NEW e \in AssembleTrips(pts, marks)
    PROVE  /\ \A t \in e.fixes : e.from <= t /\ t <= e.to
           /\ \E s \in marks : pts[s[1]].t = e.to
           /\ \E s \in marks : pts[s[1]].t <= e.from
                               /\ (pts[s[1]].t = e.from => e.from \in splits)
           /\ \A s \in marks : ~(e.from < pts[s[1]].t /\ pts[s[1]].t < e.to)
<1>1. PICK a \in marks, b \in marks :
         /\ a[2] < b[1]
         /\ e = [from |-> pts[a[2]].t, to |-> pts[b[1]].t,
                 fixes |-> {pts[k].t : k \in a[2] .. b[1]}]
  BY AssembledBetween
<1>2. \A s \in marks : s[1] \in 1 .. Len(pts) /\ s[2] \in 1 .. Len(pts) /\ s[1] <= s[2]
  BY DEF Apart
<1>3. \A i, j \in 1 .. Len(pts) : pts[i].t \in Nat /\ (i < j => pts[i].t < pts[j].t)
  <2>1. \A i \in 1 .. Len(pts) : pts[i] \in Fix
    BY ElementOfSeq DEF InTime
  <2> QED BY <2>1 DEF InTime, Fix
<1>4. ASSUME NEW t \in e.fixes PROVE e.from <= t /\ t <= e.to
  <2>1. PICK k \in a[2] .. b[1] : t = pts[k].t
    BY <1>1
  <2>2. k \in 1 .. Len(pts) /\ (a[2] = k \/ a[2] < k) /\ (k = b[1] \/ k < b[1])
    <3>1. PICK n \in Nat : n = Len(pts)
      BY LenProperties DEF InTime
    <3>2. a[2] \in 1 .. n /\ b[1] \in 1 .. n
      BY <1>2, <3>1
    <3> QED BY <3>1, <3>2
  <2>3. a[2] \in 1 .. Len(pts) /\ b[1] \in 1 .. Len(pts)
    BY <1>2
  <2>4. e.from = pts[a[2]].t /\ e.to = pts[b[1]].t
    BY <1>1
  <2>5. pts[a[2]].t <= pts[k].t /\ pts[k].t <= pts[b[1]].t
    <3>1. pts[a[2]].t \in Nat /\ pts[k].t \in Nat /\ pts[b[1]].t \in Nat
      BY <1>3, <2>2, <2>3
    <3>2. a[2] < k => pts[a[2]].t < pts[k].t
      BY <1>3, <2>2, <2>3
    <3>3. k < b[1] => pts[k].t < pts[b[1]].t
      BY <1>3, <2>2, <2>3
    <3> QED BY <2>2, <3>1, <3>2, <3>3
  <2> QED BY <2>1, <2>4, <2>5
<1>5. pts[a[1]].t <= e.from /\ (pts[a[1]].t = e.from => e.from \in splits)
  <2>1. a[1] \in 1 .. Len(pts) /\ a[2] \in 1 .. Len(pts) /\ (a[1] = a[2] \/ a[1] < a[2])
    BY <1>2
  <2>2. e.from = pts[a[2]].t
    BY <1>1
  <2>3. pts[a[1]].t \in Nat /\ pts[a[2]].t \in Nat /\ (a[1] < a[2] => pts[a[1]].t < pts[a[2]].t)
    BY <1>3, <2>1
  <2>4. CASE a[1] = a[2]
    BY <2>2, <2>3, <2>4
  <2>5. CASE a[1] < a[2]
    BY <2>2, <2>3, <2>5
  <2> QED BY <2>1, <2>4, <2>5
<1>6. \A s \in marks : ~(e.from < pts[s[1]].t /\ pts[s[1]].t < e.to)
  BY <1>2, NoTripOverAStay
<1> QED BY <1>1, <1>4, <1>5, <1>6

\* Two trips lie one after the other, and meet at most at a stay of one fix.
LEMMA AssembledShare ==
    ASSUME NEW pts, InTime(pts), NEW marks, Apart(marks, Len(pts)), NEW splits,
           \A s \in marks : s[1] = s[2] => pts[s[1]].t \in splits,
           NEW e \in AssembleTrips(pts, marks), NEW f \in AssembleTrips(pts, marks), e # f
    PROVE  /\ e.to <= f.from \/ f.to <= e.from
           /\ \A t \in e.fixes \cap f.fixes : t \in splits /\ t \in {e.from, e.to}
<1>1. \A s \in marks : s[1] \in 1 .. Len(pts) /\ s[2] \in 1 .. Len(pts) /\ s[1] <= s[2]
  BY DEF Apart
<1>2. \A i, j \in 1 .. Len(pts) : pts[i].t \in Nat /\ (i < j => pts[i].t < pts[j].t)
  <2>1. \A i \in 1 .. Len(pts) : pts[i] \in Fix
    BY ElementOfSeq DEF InTime
  <2> QED BY <2>1 DEF InTime, Fix
<1>3. \A r, s \in marks : r = s \/ r[2] < s[1] \/ s[2] < r[1]
  BY DEF Apart
<1> DEFINE Between(x, a, b) ==
              /\ a[2] < b[1] /\ \A c \in marks : c[1] <= a[1] \/ b[1] <= c[1]
              /\ x = [from |-> pts[a[2]].t, to |-> pts[b[1]].t,
                      fixes |-> {pts[k].t : k \in a[2] .. b[1]}]
\* x is the trip from a to b, y the one from c to d.
<1>4. ASSUME NEW x, NEW y, NEW a \in marks, NEW b \in marks, NEW c \in marks, NEW d \in marks,
             Between(x, a, b), Between(y, c, d), a[1] < c[1]
      PROVE  /\ x.to <= y.from
             /\ \A t \in x.fixes \cap y.fixes : t \in splits /\ t = x.to /\ t = y.from
  <2>1. b[1] <= c[1]
    <3>1. c[1] <= a[1] \/ b[1] <= c[1]
      BY <1>4
    <3> QED BY <1>1, <1>4, <3>1
  <2>2. b[1] <= c[2]
    BY <1>1, <2>1
  <2>3. x.to = pts[b[1]].t /\ y.from = pts[c[2]].t
    BY <1>4
  <2>4. x.to <= y.from
    <3>1. b[1] = c[2] \/ b[1] < c[2]
      BY <1>1, <2>2
    <3> QED BY <1>1, <1>2, <2>3, <3>1
  <2>5. ASSUME NEW t \in x.fixes \cap y.fixes
        PROVE  t \in splits /\ t = x.to /\ t = y.from
    <3>1. PICK k \in a[2] .. b[1], l \in c[2] .. d[1] : t = pts[k].t /\ t = pts[l].t
      BY <1>4, <2>5
    <3>2. k \in 1 .. Len(pts) /\ l \in 1 .. Len(pts) /\ k <= b[1] /\ c[2] <= l
      <4>1. PICK n \in Nat : n = Len(pts)
        BY LenProperties DEF InTime
      <4>2. a[2] \in 1 .. n /\ b[1] \in 1 .. n /\ c[2] \in 1 .. n /\ d[1] \in 1 .. n
        BY <1>1, <4>1
      <4>3. k \in 1 .. n /\ k <= b[1]
        BY <3>1, <4>1, <4>2
      <4>4. l \in 1 .. n /\ c[2] <= l
        BY <3>1, <4>1, <4>2
      <4> QED BY <4>1, <4>3, <4>4
    <3>3. k = l
      <4>1. pts[k].t \in Nat /\ pts[l].t \in Nat
        BY <1>2, <3>2
      <4>2. (k < l => pts[k].t < pts[l].t) /\ (l < k => pts[l].t < pts[k].t)
        BY <1>2, <3>2
      <4>3. ~(k < l) /\ ~(l < k)
        BY <3>1, <4>1, <4>2
      <4> QED BY <3>2, <4>3
    <3>4. k = b[1] /\ k = c[2] /\ b[1] = c[1]
      BY <1>1, <2>1, <3>2, <3>3
    <3> QED BY <1>4, <2>3, <3>1, <3>4
  <2> QED BY <2>4, <2>5
<1>5. PICK a \in marks, b \in marks : Between(e, a, b)
  BY AssembledBetween
<1>6. PICK c \in marks, d \in marks : Between(f, c, d)
  BY AssembledBetween
<1>7. CASE a[1] = c[1]
  <2>1. a = c
    <3>1. a = c \/ a[2] < c[1] \/ c[2] < a[1]
      BY <1>3
    <3> QED BY <1>1, <1>7, <3>1
  <2>2. b[1] <= d[1] /\ d[1] <= b[1]
    <3>1. d[1] <= a[1] \/ b[1] <= d[1]
      BY <1>5
    <3>2. b[1] <= c[1] \/ d[1] <= b[1]
      BY <1>6
    <3>3. a[2] < b[1] /\ c[2] < d[1]
      BY <1>5, <1>6
    <3> QED BY <1>1, <1>7, <3>1, <3>2, <3>3
  <2>3. b[1] = d[1]
    BY <1>1, <2>2
  <2> QED BY <1>5, <1>6, <2>1, <2>3
<1>8. CASE a[1] < c[1]
  <2>1. /\ e.to <= f.from
        /\ \A t \in e.fixes \cap f.fixes : t \in splits /\ t = e.to /\ t = f.from
    <3> HIDE DEF Between
    <3> QED BY <1>4, <1>5, <1>6, <1>8
  <2> QED BY <2>1
<1>9. CASE c[1] < a[1]
  <2>1. /\ f.to <= e.from
        /\ \A t \in f.fixes \cap e.fixes : t \in splits /\ t = f.to /\ t = e.from
    <3> HIDE DEF Between
    <3> QED BY <1>4, <1>5, <1>6, <1>9
  <2> QED BY <2>1
<1> QED BY <1>1, <1>7, <1>8, <1>9

LEMMA DetectLies ==
    ASSUME NEW points, InTime(points), NEW ranges \in SUBSET (Int \X Int), NEW splits, NEW discards
    PROVE  LET d == Detect(points, ranges, splits, discards)
           IN  SharesSplitsOnly(d, splits) /\ LiesBetween(d, splits)
<1> DEFINE pts == FilterPoints(points, splits)
           real == FindStays(pts)
           arrival == TrailingArrivalStay(pts, real)
           all == ApplyOverrides(pts, real \cup arrival, ranges, splits)
           d == Outcome(pts, all, arrival, discards)
<1>1. Detect(points, ranges, splits, discards) = d
  BY DetectIsOutcome
<1>2. InTime(pts)
  BY FilteredInTime
<1>3. Apart(real, Len(pts)) /\ Apart(real \cup arrival, Len(pts))
  BY <1>2, FindStaysApart, ArrivalApart
<1>4. \A s \in real \cup arrival : s[1] < s[2]
  <2> HIDE DEF pts
  <2>1. \A s \in real : s[1] < s[2]
    BY FindStaysLast
  <2> HIDE DEF real
  <2>2. \A s \in arrival : s[1] < s[2]
    BY <1>2, <1>3, ArrivalLasts
  <2> QED BY <2>1, <2>2
<1> HIDE DEF pts, real, arrival
<1>5. Apart(all, Len(pts))
  BY <1>2, <1>3, OverridesApart
<1>6. \A s \in all : s[1] = s[2] => pts[s[1]].t \in splits
  <2>1. Len(pts) \in Nat
    BY <1>2, LenProperties DEF InTime
  <2> QED BY <1>3, <1>4, <2>1, SingleIsSplit
<1> HIDE DEF all
<1>7. d.stays \cup d.arrival = {Span(pts, s) : s \in all}
  BY DEF Outcome
<1>8. \A e \in d.trips : e \in AssembleTrips(pts, all)
  BY DEF Outcome
<1>9. \A s \in all : Span(pts, s).from = pts[s[1]].t
  BY DEF Span
<1> HIDE DEF d
<1>10. SharesSplitsOnly(d, splits)
  BY <1>2, <1>5, <1>6, <1>8, AssembledShare DEF SharesSplitsOnly
<1>11. LiesBetween(d, splits)
  <2> SUFFICES ASSUME NEW e \in d.trips
               PROVE  /\ \A t \in e.fixes : e.from <= t /\ t <= e.to
                      /\ \E s \in d.stays \cup d.arrival : s.from = e.to
                      /\ \E s \in d.stays \cup d.arrival :
                            s.from <= e.from /\ (s.from = e.from => e.from \in splits)
                      /\ \A s \in d.stays \cup d.arrival : ~(e.from < s.from /\ s.from < e.to)
    BY DEF LiesBetween
  <2>1. /\ \A t \in e.fixes : e.from <= t /\ t <= e.to
        /\ \E s \in all : pts[s[1]].t = e.to
        /\ \E s \in all : pts[s[1]].t <= e.from /\ (pts[s[1]].t = e.from => e.from \in splits)
        /\ \A s \in all : ~(e.from < pts[s[1]].t /\ pts[s[1]].t < e.to)
    BY <1>2, <1>5, <1>6, <1>8, AssembledLie
  <2> QED BY <1>7, <1>9, <2>1
<1> QED BY <1>1, <1>10, <1>11

-----------------------------------------------------------------------------
(* The owner's edits in the rows (DetectorWindow).                         *)

TripRowFields == {"id", "from", "to", "fixes", "human"}

\* Rows of trips and stays bounded by fixes, and the stays apart.
Bounded(tps, sts, times) ==
    /\ \A s \in sts : s.from \in times /\ s.to \in times /\ s.from <= s.to
    /\ \A r, s \in sts : r.from < s.from => r.to < s.from
    /\ \A e \in tps : /\ DOMAIN e = TripRowFields
                       /\ e.from \in times /\ e.to \in times /\ e.from < e.to

\* EditsLast, of any rows and edits.
Lasting(tps, sts, ranges, splits) ==
    /\ \A t \in splits, e \in tps :
          Clear(t, ranges) /\ (\E s \in sts : e.from < s.from) => ~(e.from < t /\ t < e.to)
    /\ \A r \in ranges, s \in sts : s.to < r[1] \/ r[2] < s.from

LEMMA ReconciledRows ==
    ASSUME NEW t0, NEW d, NEW existing, NEW r,
           r \in ReconciledWith(t0, d, existing, trips, tripOf)
    PROVE  /\ r.stays = {s \in stays : s.from < t0} \cup d.stays
           /\ trips \ existing \subseteq r.trips
           /\ \A t \in Times, e \in trips \ existing :
                 tripOf[t] = e.id /\ ~(t > t0) /\ (\A n \in d.trips : t \notin n.fixes) =>
                    r.tripOf[t] = tripOf[t]
           /\ \A e \in r.trips :
                 \/ e \in trips \ existing
                 \/ /\ e \in existing
                    /\ \E s \in d.stays \cup d.arrival :
                          /\ \A q \in d.stays \cup d.arrival : q.from <= s.from
                          /\ e.from >= s.from
                 \/ \E n \in d.trips :
                       /\ e.from = n.from /\ e.to = n.to /\ e.fixes = n.fixes
                       /\ DOMAIN e = TripRowFields
<1>1. PICK m, laterWins : r = ReconciledBy(t0, d, existing, trips, tripOf, m, laterWins)
  BY DEF ReconciledWith
<1> DEFINE kept == Kept(existing \ {p[1] : p \in m}, d)
           written == {Written(d, m, n) : n \in d.trips}
<1>2. /\ r.stays = {s \in stays : s.from < t0} \cup WrittenStays(d)
      /\ r.trips = ((trips \ existing) \cup kept) \cup written
  BY <1>1 DEF ReconciledBy
<1>3. \A e \in kept :
         /\ e \in existing
         /\ \E s \in d.stays \cup d.arrival :
               /\ \A q \in d.stays \cup d.arrival : q.from <= s.from
               /\ e.from >= s.from
  BY DEF Kept
<1>4. \A e \in written : \E n \in d.trips :
         e.from = n.from /\ e.to = n.to /\ e.fixes = n.fixes /\ DOMAIN e = TripRowFields
  <2> SUFFICES ASSUME NEW n \in d.trips
               PROVE  /\ Written(d, m, n).from = n.from /\ Written(d, m, n).to = n.to
                      /\ Written(d, m, n).fixes = n.fixes
                      /\ DOMAIN Written(d, m, n) = TripRowFields
    OBVIOUS
  <2>1. PICK i, h : Written(d, m, n) = [id |-> i, from |-> n.from, to |-> n.to,
                                        fixes |-> n.fixes, human |-> h]
    BY Zenon DEF Written
  <2> QED BY <2>1 DEF TripRowFields
<1>5. ASSUME NEW t \in Times, NEW e \in trips \ existing, tripOf[t] = e.id, ~(t > t0),
             \A n \in d.trips : t \notin n.fixes
      PROVE  r.tripOf[t] = tripOf[t]
  <2> DEFINE left == (trips \ existing) \cup kept
             holders(u) == {w \in written : u \in w.fixes}
             holder(u) == CHOOSE w \in holders(u) :
                             \A v \in holders(u) : laterWins = (v.from <= w.from) \/ v = w
  <2>1. r.tripOf = [u \in Times |->
            IF holders(u) # {} THEN holder(u).id
            ELSE IF tripOf[u] \notin {x.id : x \in left \cup written} THEN 0
            ELSE IF Unlinked(t0, u) /\ tripOf[u] \notin {x.id : x \in kept} THEN 0
            ELSE tripOf[u]]
    BY <1>1 DEF ReconciledBy
  <2>2. holders(t) = {}
    BY <1>4, <1>5
  <2>3. tripOf[t] \in {x.id : x \in left \cup written} /\ ~Unlinked(t0, t)
    BY <1>5 DEF Unlinked
  <2> HIDE DEF holders, holder, left, kept, written
  <2> QED BY <2>1, <2>2, <2>3
<1> HIDE DEF kept, written
<1> QED BY <1>2, <1>3, <1>4, <1>5 DEF WrittenStays


LEMMA TimesArePositive ==
    ASSUME InTime(fixes)
    PROVE  Times = TimesOf(fixes) /\ Times \subseteq Nat \ {0} /\ IsFiniteSet(Times)
<1>0. Len(fixes) \in Nat
  BY LenProperties DEF InTime
<1>1. DOMAIN fixes = 1 .. Len(fixes)
  BY LenProperties DEF InTime
<1>2. \A i \in 1 .. Len(fixes) : fixes[i].t \in Nat \ {0}
  <2>1. \A i \in 1 .. Len(fixes) : fixes[i] \in Fix
    BY ElementOfSeq DEF InTime
  <2> QED BY <2>1 DEF Fix
<1>3. Times = TimesOf(fixes) /\ Times \subseteq Nat \ {0}
  BY <1>1, <1>2 DEF Times, TimesOf
<1>4. CASE Len(fixes) = 0
  <2>1. Times = {}
    BY <1>1, <1>4 DEF Times
  <2> QED BY <1>3, <2>1, FS_EmptySet
<1>5. CASE Len(fixes) # 0
  <2>1. Len(fixes) \in 1 .. Len(fixes)
    BY <1>0, <1>5
  <2>2. PICK n \in Nat : n = fixes[Len(fixes)].t
    BY <1>2, <2>1
  <2>3. \A i \in 1 .. Len(fixes) : fixes[i].t <= n
    <3>0. PICK m \in Nat : m = Len(fixes)
      BY <1>0
    <3> TAKE i \in 1 .. Len(fixes)
    <3>1. i = Len(fixes) \/ i < Len(fixes)
      <4>1. i \in 1 .. m
        BY <3>0
      <4>2. i = m \/ i < m
        BY <4>1
      <4> QED BY <3>0, <4>2
    <3>2. i < Len(fixes) => fixes[i].t < n
      BY <2>1, <2>2 DEF InTime
    <3> QED BY <1>2, <2>2, <3>1, <3>2
  <2>4. Times \in SUBSET Nat /\ \A t \in Times : t <= n
    BY <1>3, <2>3 DEF TimesOf
  <2>5. IsFiniteSet(Times)
    BY <2>4, FS_BoundedSetOfNaturals
  <2> QED BY <1>3, <2>5
<1> QED BY <1>4, <1>5

\* A window opens at the start of a stay, or takes in every fix.
LEMMA WindowsOpenAtStays ==
    ASSUME InTime(fixes), Bounded(trips, stays, Times), NEW first
    PROVE  RewindStart(first) = Epoch \/ \E s \in stays : RewindStart(first) = s.from
<1> DEFINE settled == {s \in stays : s.to < first}
           ends == {s.to : s \in settled}
<1>1. CASE settled = {}
  BY <1>1 DEF RewindStart
<1>2. CASE settled # {}
  <2>1. ends \in SUBSET Times /\ ends # {}
    BY <1>2 DEF Bounded
  <2>2. IsFiniteSet(ends) /\ ends \in SUBSET Int
    <3>1. IsFiniteSet(ends)
      BY <2>1, TimesArePositive, FS_Subset
    <3>2. Times \subseteq Int
      BY TimesArePositive
    <3> QED BY <2>1, <3>1, <3>2
  <2>3. PICK x \in ends : \A y \in ends : y <= x
    <3> HIDE DEF ends
    <3> QED BY <2>1, <2>2, Extremes
  <2>4. \E s \in settled : \A r \in settled : r.to <= s.to
    BY <2>3
  <2>5. PICK s : s = CHOOSE q \in settled : \A r \in settled : r.to <= q.to
    OBVIOUS
  <2>6. s \in settled
    BY <2>4, <2>5
  <2>7. RewindStart(first) = s.from
    BY <1>2, <2>5 DEF RewindStart
  <2> QED BY <2>6, <2>7
<1> QED BY <1>1, <1>2

\* _process_device: what a window takes in, and what becomes of it.
LEMMA WindowTimes ==
    ASSUME InTime(fixes), NEW t0
    PROVE  \A t : t \in TimesOf(Window(t0)) <=> t \in Times /\ t >= t0
<1> DEFINE pts == Window(t0)
<1>1. Times = TimesOf(fixes)
  BY TimesArePositive
<1>2. Selects(pts, fixes, {i \in 1 .. Len(fixes) : fixes[i].t >= t0})
  BY WindowInTime
<1>3. TimesOf(pts) = {t \in Times : t >= t0}
  <2>1. ASSUME NEW t \in TimesOf(pts) PROVE t \in Times /\ t >= t0
    BY <1>1, <1>2 DEF Selects, TimesOf
  <2>2. ASSUME NEW t \in Times, t >= t0 PROVE t \in TimesOf(pts)
    <3>1. PICK i \in 1 .. Len(fixes) : t = fixes[i].t
      BY <1>1 DEF TimesOf
    <3>2. PICK k \in 1 .. Len(pts) : pts[k] = fixes[i]
      BY <1>2, <2>2, <3>1 DEF Selects
    <3> QED BY <3>1, <3>2 DEF TimesOf
  <2> QED BY <2>1, <2>2
<1> QED BY <1>3

LEMMA OneReconciliation ==
    ASSUME NEW t0, NEW ranges, NEW splits, NEW discards,
           NEW r \in Reconciled(t0, ranges, splits, discards, trips, tripOf)
    PROVE  r \in ReconciledWith(t0, Detect(Window(t0), ranges, splits, discards),
                               Existing(t0, trips), trips, tripOf)
<1> DEFINE pts == Window(t0)
           found == Detect(pts, ranges, splits, discards)
           held == Existing(t0, trips)
<1>1. r \in ReconciledWith(t0, found, held, trips, tripOf)
  <2> DEFINE result(x) == The({ReconciledWith(t0, x, y, trips, tripOf) : y \in {held}})
             results == {result(x) : x \in {Detect(p, ranges, splits, discards) : p \in {pts}}}
  <2>1. result(found) = ReconciledWith(t0, found, held, trips, tripOf)
    <3>1. {ReconciledWith(t0, found, y, trips, tripOf) : y \in {held}}
            = {ReconciledWith(t0, found, held, trips, tripOf)}
      OBVIOUS
    <3> QED BY <3>1, TheOne
  <2>2. {Detect(p, ranges, splits, discards) : p \in {pts}} = {found}
    OBVIOUS
  <2>3. Reconciled(t0, ranges, splits, discards, trips, tripOf) = The(results)
    BY DEF Reconciled
  <2> HIDE DEF result, found
  <2>4. results = {result(found)}
    BY <2>2
  <2> HIDE DEF results
  <2> QED BY <2>1, <2>3, <2>4, TheOne
<1> QED BY <1>1

\* _process_device, over a window that opens at a stay or takes in every fix.
LEMMA ReconciledLasts ==
    ASSUME InTime(fixes), Bounded(trips, stays, Times),
           NEW t0, NEW ranges \in SUBSET (Int \X Int), NEW splits \in SUBSET Times, NEW discards,
           \/ t0 = Epoch
           \/ (\E s \in stays : t0 = s.from) /\ Lasting(trips, stays, ranges, splits),
           NEW r \in Reconciled(t0, ranges, splits, discards, trips, tripOf)
    PROVE  Bounded(r.trips, r.stays, Times) /\ Lasting(r.trips, r.stays, ranges, splits)
<1> DEFINE pts == Window(t0)
           found == Detect(pts, ranges, splits, discards)
           held == Existing(t0, trips)
<1>1. Times = TimesOf(fixes) /\ Times \subseteq Nat \ {0}
  BY TimesArePositive
<1>2. InTime(pts) /\ Selects(pts, fixes, {i \in 1 .. Len(fixes) : fixes[i].t >= t0})
  BY WindowInTime
<1>3. TimesOf(pts) = {t \in Times : t >= t0}
  BY WindowTimes
<1>4. Derived(found, pts, ranges, splits)
  BY <1>2, DetectDerived
<1>5. r \in ReconciledWith(t0, found, held, trips, tripOf)
  BY OneReconciliation
<1>6. \A e \in trips : (e \in held) = (e.from >= t0)
  BY DEF Existing
<1>7. held \subseteq trips
  BY DEF Existing
<1> HIDE DEF pts, found, held
<1>8. /\ r.stays = {s \in stays : s.from < t0} \cup found.stays
      /\ \A e \in r.trips :
            \/ e \in trips \ held
            \/ /\ e \in held
               /\ \E s \in found.stays \cup found.arrival :
                     /\ \A q \in found.stays \cup found.arrival : q.from <= s.from
                     /\ e.from >= s.from
            \/ \E n \in found.trips :
                  e.from = n.from /\ e.to = n.to /\ DOMAIN e = TripRowFields
  BY <1>5, ReconciledRows
<1>9. /\ \A s \in found.stays \cup found.arrival :
            s.from \in Times /\ s.to \in Times /\ s.from >= t0 /\ s.from <= s.to
      /\ \A e \in found.trips :
            e.from \in Times /\ e.to \in Times /\ e.from >= t0 /\ e.from < e.to
  BY <1>3, <1>4 DEF Derived
<1>10. t0 \in Int
  BY <1>1 DEF Epoch, Bounded
<1>11. Bounded(r.trips, r.stays, Times)
  <2>1. \A s \in r.stays : s.from \in Times /\ s.to \in Times /\ s.from <= s.to
    BY <1>8, <1>9 DEF Bounded
  <2>2. \A e \in r.trips : /\ DOMAIN e = TripRowFields
                           /\ e.from \in Times /\ e.to \in Times /\ e.from < e.to
    BY <1>7, <1>8, <1>9 DEF Bounded
  <2>3. ASSUME NEW p \in r.stays, NEW q \in r.stays, p.from < q.from PROVE p.to < q.from
    <3>0. p.from \in Nat \ {0} /\ p.to \in Nat /\ q.from \in Nat
      BY <1>1, <2>1
    <3>1. CASE p \in found.stays /\ q \in found.stays
      BY <1>4, <2>3, <3>1 DEF Derived
    <3>2. CASE p \in stays /\ q \in stays
      BY <2>3, <3>2 DEF Bounded
    <3>3. CASE p \in found.stays /\ q.from < t0
      <4>1. p.from >= t0
        BY <1>9, <3>3
      <4> QED BY <1>10, <2>3, <3>0, <3>3, <4>1
    <3>4. CASE p \in stays /\ p.from < t0 /\ q \in found.stays
      <4>1. t0 # Epoch
        BY <3>0, <3>4 DEF Epoch
      <4>2. PICK x \in stays : t0 = x.from
        BY <4>1
      <4>3. p.to < t0
        BY <3>4, <4>2 DEF Bounded
      <4>4. q.from >= t0
        BY <1>9, <3>4
      <4> QED BY <1>10, <3>0, <4>3, <4>4
    <3> QED BY <1>8, <3>1, <3>2, <3>3, <3>4
  <2> QED BY <2>1, <2>2, <2>3 DEF Bounded
<1>12. ASSUME NEW q \in ranges, NEW s \in r.stays PROVE s.to < q[1] \/ q[2] < s.from
  <2>1. CASE s \in found.stays
    BY <1>4, <2>1 DEF Derived
  <2>2. CASE s \in stays /\ s.from < t0
    <3>1. s.from \in Nat \ {0}
      BY <1>1, <2>2 DEF Bounded
    <3>2. t0 # Epoch
      BY <2>2, <3>1 DEF Epoch
    <3> QED BY <2>2, <3>2 DEF Lasting
  <2> QED BY <1>8, <2>1, <2>2
<1>13. ASSUME NEW t \in splits, NEW e \in r.trips, Clear(t, ranges),
              NEW s \in r.stays, e.from < s.from
       PROVE  ~(e.from < t /\ t < e.to)
  <2>1. /\ e.from \in Int /\ e.to \in Int /\ e.from > 0 /\ s.from \in Int /\ t \in Times /\ t \in Int
    BY <1>1, <1>11 DEF Bounded
  <2>2. CASE e \in trips \ held
    <3>1. e.from < t0
      BY <1>6, <1>10, <2>1, <2>2
    <3>2. t0 # Epoch
      BY <2>1, <3>1 DEF Epoch
    <3>3. \E q \in stays : e.from < q.from
      BY <3>1, <3>2
    <3> QED BY <1>13, <2>2, <3>2, <3>3 DEF Lasting
  <2>3. CASE /\ e \in held
             /\ \E q \in found.stays \cup found.arrival :
                   /\ \A p \in found.stays \cup found.arrival : p.from <= q.from
                   /\ e.from >= q.from
    <3>1. e.from >= t0
      BY <1>6, <1>7, <2>3
    <3>2. PICK q \in found.stays \cup found.arrival :
             (\A p \in found.stays \cup found.arrival : p.from <= q.from) /\ e.from >= q.from
      BY <2>3
    <3>3. q.from \in Int
      BY <1>1, <1>9
    <3>4. CASE s \in found.stays
      <4>1. s.from <= q.from
        BY <3>2, <3>4
      <4> QED BY <1>13, <2>1, <3>2, <3>3, <4>1
    <3>5. CASE s.from < t0
      BY <1>10, <1>13, <2>1, <3>1, <3>5
    <3> QED BY <1>8, <3>4, <3>5
  <2>4. CASE \E n \in found.trips : e.from = n.from /\ e.to = n.to /\ DOMAIN e = TripRowFields
    <3>1. PICK n \in found.trips : e.from = n.from /\ e.to = n.to
      BY <2>4
    <3>2. SUFFICES ASSUME e.from < t, t < e.to PROVE FALSE
      OBVIOUS
    <3>3. t \in TimesOf(pts)
      <4>1. e.from >= t0
        BY <1>9, <3>1
      <4>2. t >= t0
        BY <1>10, <2>1, <3>2, <4>1
      <4> QED BY <1>3, <2>1, <4>2
    <3>4. t \in TimesOf(pts) \cap splits /\ Clear(t, ranges)
      BY <1>13, <3>3
    <3>5. ~(n.from < t /\ t < n.to)
      BY <1>4, <3>4 DEF Derived
    <3> QED BY <3>1, <3>2, <3>5
  <2> QED BY <1>8, <2>2, <2>3, <2>4
<1> QED BY <1>11, <1>12, <1>13 DEF Lasting


LEMMA AppendInTime ==
    ASSUME NEW pts, InTime(pts), Len(pts) # 0, NEW p \in Fix, pts[Len(pts)].t < p.t
    PROVE  /\ InTime(Append(pts, p)) /\ Len(Append(pts, p)) = Len(pts) + 1
           /\ TimesOf(pts) \cup {p.t} \subseteq TimesOf(Append(pts, p))
<1> DEFINE s == Append(pts, p)
<1>1. PICK n \in Nat : n = Len(pts) /\ n # 0
  BY LenProperties DEF InTime
<1>2. /\ s \in Seq(Fix) /\ Len(s) = n + 1
      /\ \A i \in 1 .. n : s[i] = pts[i]
      /\ s[n + 1] = p
  BY <1>1, AppendProperties DEF InTime
<1>3. \A i \in 1 .. n : pts[i].t \in Nat
  <2>1. \A i \in 1 .. n : pts[i] \in Fix
    BY <1>1, ElementOfSeq DEF InTime
  <2> QED BY <2>1 DEF Fix
<1>4. p.t \in Nat
  BY DEF Fix
<1>5. \A i, j \in 1 .. n : i < j => pts[i].t < pts[j].t
  BY <1>1 DEF InTime
<1> HIDE DEF s
<1>6. ASSUME NEW i \in 1 .. n + 1, NEW j \in 1 .. n + 1, i < j PROVE s[i].t < s[j].t
  <2>1. i \in 1 .. n
    BY <1>6
  <2>2. CASE j \in 1 .. n
    BY <1>2, <1>5, <1>6, <2>1, <2>2
  <2>3. CASE j = n + 1
    <3>1. n \in 1 .. n /\ (i = n \/ i < n)
      BY <1>1, <2>1
    <3>2. pts[i].t <= pts[n].t
      BY <1>3, <1>5, <2>1, <3>1
    <3>3. pts[n].t < p.t
      BY <1>1
    <3>4. pts[i].t < p.t
      BY <1>3, <1>4, <2>1, <3>1, <3>2, <3>3
    <3> QED BY <1>2, <2>1, <2>3, <3>4
  <2>4. j \in 1 .. n \/ j = n + 1
    OBVIOUS
  <2> QED BY <2>2, <2>3, <2>4
<1>7. InTime(s)
  BY <1>2, <1>6 DEF InTime
<1>8. TimesOf(pts) \subseteq TimesOf(s)
  <2> SUFFICES ASSUME NEW i \in 1 .. n PROVE \E k \in 1 .. n + 1 : pts[i].t = s[k].t
    BY <1>1, <1>2 DEF TimesOf
  <2>1. i \in 1 .. n + 1
    OBVIOUS
  <2> QED BY <1>2, <2>1
<1>9. p.t \in TimesOf(s)
  <2>1. n + 1 \in 1 .. n + 1
    BY <1>1
  <2> QED BY <1>2, <2>1 DEF TimesOf
<1> QED BY <1>1, <1>2, <1>7, <1>8, <1>9 DEF s

LEMMA InsertInTime ==
    ASSUME NEW pts, InTime(pts), NEW i \in 1 .. Len(pts) - 1, NEW p \in Fix,
           pts[i].t < p.t, p.t < pts[i + 1].t
    PROVE  LET s == SubSeq(pts, 1, i) \o <<p>> \o SubSeq(pts, i + 1, Len(pts))
           IN  /\ InTime(s) /\ Len(s) = Len(pts) + 1
               /\ TimesOf(pts) \cup {p.t} \subseteq TimesOf(s)
<1> DEFINE a == SubSeq(pts, 1, i)
           b == SubSeq(pts, i + 1, Len(pts))
           s == a \o <<p>> \o b
<1>1. PICK n \in Nat : n = Len(pts)
  BY LenProperties DEF InTime
<1>2. \A k \in 1 .. n : pts[k] \in Fix
  BY <1>1, ElementOfSeq DEF InTime
<1>3. i \in 1 .. n - 1 /\ i \in Int /\ n \in Int /\ i + 1 \in Int /\ 1 \in Int /\ 1 <= i /\ i + 1 <= n
  BY <1>1
<1>4. a \in Seq(Fix) /\ Len(a) = i /\ \A k \in 1 .. i : a[k] = pts[k]
  <2>1. \A k \in 1 .. i : pts[k] \in Fix
    BY <1>2, <1>3
  <2>2. /\ a \in Seq(Fix) /\ Len(a) = IF 1 <= i THEN i - 1 + 1 ELSE 0
        /\ \A k \in 1 .. i - 1 + 1 : a[k] = pts[1 + k - 1]
    BY <1>3, <2>1, SubSeqProperties
  <2> HIDE DEF a
  <2> QED BY <1>3, <2>2
<1>5. b \in Seq(Fix) /\ Len(b) = n - i /\ \A k \in 1 .. n - i : b[k] = pts[i + k]
  <2>1. \A k \in i + 1 .. n : pts[k] \in Fix
    BY <1>2, <1>3
  <2>2. /\ b \in Seq(Fix) /\ Len(b) = IF i + 1 <= n THEN n - (i + 1) + 1 ELSE 0
        /\ \A k \in 1 .. n - (i + 1) + 1 : b[k] = pts[i + 1 + k - 1]
    BY <1>1, <1>3, <2>1, SubSeqProperties
  <2> HIDE DEF b
  <2> QED BY <1>3, <2>2
<1> HIDE DEF a, b
<1>6. <<p>> \in Seq(Fix) /\ Len(<<p>>) = 1 /\ <<p>>[1] = p
  OBVIOUS
<1> DEFINE ap == a \o <<p>>
<1>7. ap \in Seq(Fix) /\ Len(ap) = i + 1 /\ (\A k \in 1 .. i : ap[k] = pts[k]) /\ ap[i + 1] = p
  <2>1. /\ ap \in Seq(Fix) /\ Len(ap) = i + 1
        /\ \A k \in 1 .. i + 1 : ap[k] = IF k <= i THEN a[k] ELSE <<p>>[k - i]
    BY <1>4, <1>6, ConcatProperties
  <2> HIDE DEF ap
  <2>2. \A k \in 1 .. i : ap[k] = pts[k]
    <3> TAKE k \in 1 .. i
    <3>1. k \in 1 .. i + 1 /\ k <= i
      BY <1>3
    <3> QED BY <1>4, <2>1, <3>1
  <2>3. ap[i + 1] = p
    <3>1. i + 1 \in 1 .. i + 1 /\ ~(i + 1 <= i) /\ (i + 1) - i = 1
      BY <1>3
    <3> QED BY <1>6, <2>1, <3>1
  <2> QED BY <2>1, <2>2, <2>3
<1> HIDE DEF ap
<1>8. /\ s \in Seq(Fix) /\ Len(s) = n + 1
      /\ \A k \in 1 .. n + 1 : s[k] = IF k <= i + 1 THEN ap[k] ELSE b[k - (i + 1)]
  <2>1. s = ap \o b
    BY DEF ap
  <2>2. /\ ap \o b \in Seq(Fix) /\ Len(ap \o b) = Len(ap) + Len(b)
        /\ \A k \in 1 .. Len(ap) + Len(b) :
              (ap \o b)[k] = IF k <= Len(ap) THEN ap[k] ELSE b[k - Len(ap)]
    BY <1>5, <1>7, ConcatProperties
  <2>3. (i + 1) + (n - i) = n + 1
    BY <1>3
  <2>4. Len(ap) = i + 1 /\ Len(ap) + Len(b) = n + 1
    BY <1>5, <1>7, <2>3
  <2> HIDE DEF s
  <2> QED BY <2>1, <2>2, <2>4
<1> HIDE DEF s
<1>9. \A k \in 1 .. i : s[k] = pts[k]
  <2> TAKE k \in 1 .. i
  <2>1. k \in 1 .. n + 1 /\ k <= i + 1
    BY <1>3
  <2> QED BY <1>7, <1>8, <2>1
<1>10. s[i + 1] = p
  <2>1. i + 1 \in 1 .. n + 1 /\ i + 1 <= i + 1
    BY <1>3
  <2> QED BY <1>7, <1>8, <2>1
<1>11. \A k \in i + 1 .. n : s[k + 1] = pts[k]
  <2> TAKE k \in i + 1 .. n
  <2>1. k + 1 \in 1 .. n + 1 /\ ~(k + 1 <= i + 1) /\ k - i \in 1 .. n - i
        /\ (k + 1) - (i + 1) = k - i /\ i + (k - i) = k
    BY <1>3
  <2> QED BY <1>5, <1>8, <2>1
<1>12. \A j, k \in 1 .. n : pts[j].t \in Nat /\ (j < k => pts[j].t < pts[k].t)
  BY <1>1, <1>2 DEF InTime, Fix
<1>13. p.t \in Nat
  BY DEF Fix
<1> DEFINE old(k) == IF k <= i THEN k ELSE k - 1
<1>14. \A k \in 1 .. n + 1 : k # i + 1 => old(k) \in 1 .. n /\ s[k] = pts[old(k)]
  <2> TAKE k \in 1 .. n + 1
  <2> HAVE k # i + 1
  <2>1. CASE k <= i
    <3>1. k \in 1 .. i /\ k \in 1 .. n
      BY <1>3, <2>1
    <3> QED BY <1>9, <2>1, <3>1
  <2>2. CASE ~(k <= i)
    <3>1. k - 1 \in i + 1 .. n /\ k - 1 \in 1 .. n /\ (k - 1) + 1 = k
      BY <1>3, <2>2
    <3> QED BY <1>11, <2>2, <3>1
  <2> QED BY <2>1, <2>2
<1>15. ASSUME NEW k \in 1 .. n, k <= i PROVE pts[k].t < p.t
  <2>1. i \in 1 .. n /\ (k = i \/ k < i)
    BY <1>3, <1>15
  <2>2. pts[k].t <= pts[i].t
    BY <1>12, <2>1
  <2> QED BY <1>12, <1>13, <2>1, <2>2
<1>16. ASSUME NEW k \in 1 .. n, i + 1 <= k PROVE p.t < pts[k].t
  <2>1. i + 1 \in 1 .. n /\ (k = i + 1 \/ i + 1 < k)
    BY <1>3, <1>16
  <2>2. pts[i + 1].t <= pts[k].t
    BY <1>12, <2>1
  <2> QED BY <1>12, <1>13, <2>1, <2>2
<1>17. ASSUME NEW j \in 1 .. n + 1, NEW k \in 1 .. n + 1, j < k PROVE s[j].t < s[k].t
  <2>1. CASE j # i + 1 /\ k # i + 1
    <3>1. old(j) < old(k)
      BY <1>3, <1>17, <2>1
    <3> HIDE DEF old
    <3> QED BY <1>12, <1>14, <2>1, <3>1
  <2>2. CASE j = i + 1
    <3>1. k # i + 1 /\ i + 1 <= old(k)
      BY <1>3, <1>17, <2>2
    <3> HIDE DEF old
    <3> QED BY <1>10, <1>14, <1>16, <2>2, <3>1
  <2>3. CASE k = i + 1
    <3>1. j # i + 1 /\ old(j) <= i
      BY <1>3, <1>17, <2>3
    <3> HIDE DEF old
    <3> QED BY <1>10, <1>14, <1>15, <2>3, <3>1
  <2> QED BY <2>1, <2>2, <2>3
<1>18. InTime(s)
  BY <1>8, <1>17 DEF InTime
<1>19. TimesOf(pts) \subseteq TimesOf(s)
  <2> SUFFICES ASSUME NEW k \in 1 .. n PROVE \E j \in 1 .. n + 1 : pts[k].t = s[j].t
    BY <1>1, <1>8 DEF TimesOf
  <2>1. CASE k <= i
    <3>1. k \in 1 .. i /\ k \in 1 .. n + 1
      BY <1>3, <2>1
    <3> QED BY <1>9, <3>1
  <2>2. CASE ~(k <= i)
    <3>1. k \in i + 1 .. n /\ k + 1 \in 1 .. n + 1
      BY <1>3, <2>2
    <3> QED BY <1>11, <3>1
  <2> QED BY <2>1, <2>2
<1>20. p.t \in TimesOf(s)
  <2>1. i + 1 \in 1 .. n + 1
    BY <1>3
  <2> QED BY <1>8, <1>10, <2>1 DEF TimesOf
<1> QED BY <1>1, <1>8, <1>18, <1>19, <1>20 DEF s, a, b


EditsIInv ==
    /\ InTime(fixes) /\ Len(fixes) \in 1 .. MaxFixes
    /\ dirty \subseteq Times /\ edits \in Nat
    /\ Bounded(trips, stays, Times)
    /\ suppress \subseteq Times \X Times /\ force \subseteq Times
    /\ Lasting(trips, stays, suppress, force)

LEMMA EditsInitIInv == Init => EditsIInv
<1> SUFFICES ASSUME Init PROVE EditsIInv
  OBVIOUS
<1> DEFINE p == [t |-> 1, x |-> 0, trig |-> FALSE, poor |-> FALSE]
<1>1. /\ fixes = <<p>> /\ stays = {} /\ trips = {} /\ suppress = {} /\ force = {}
      /\ dirty = {p.t} /\ edits = 0
  BY DEF Init
<1>2. p \in Fix
  BY DEF Fix
<1> HIDE DEF p
<1>3. fixes \in Seq(Fix) /\ Len(fixes) = 1
  BY <1>1, <1>2
<1>4. InTime(fixes)
  BY <1>3 DEF InTime
<1>5. Len(fixes) \in 1 .. MaxFixes
  BY <1>3, WindowAssumption
<1>6. dirty \subseteq Times
  <2>1. 1 \in DOMAIN fixes /\ fixes[1] = p
    BY <1>1
  <2> QED BY <1>1, <2>1 DEF Times
<1> QED BY <1>1, <1>4, <1>5, <1>6 DEF EditsIInv, Bounded, Lasting

LEMMA StoreKeepsTimes ==
    ASSUME InTime(fixes), NEW seq, NEW p, Store(seq, p), InTime(seq),
           TimesOf(fixes) \cup {p.t} \subseteq TimesOf(seq)
    PROVE  Times \cup {p.t} \subseteq Times'
<1>1. Times = TimesOf(fixes)
  BY TimesArePositive
<1>2. DOMAIN seq = 1 .. Len(seq)
  BY LenProperties DEF InTime
<1>3. Times' = TimesOf(seq)
  BY <1>2 DEF Store, Times, TimesOf
<1> QED BY <1>1, <1>3

\* A fix more changes nothing about the rows and the edits.
LEMMA EditsStoreIInv ==
    ASSUME EditsIInv, NEW seq, NEW p, Store(seq, p), InTime(seq),
           Len(seq) = Len(fixes) + 1, Len(fixes) < MaxFixes,
           TimesOf(fixes) \cup {p.t} \subseteq TimesOf(seq)
    PROVE  EditsIInv'
<1>1. /\ fixes' = seq /\ UNCHANGED <<stays, trips, suppress, force>>
      /\ dirty' = dirty \cup {p.t} /\ edits' = edits
  BY DEF Store, overrides
<1>2. InTime(fixes') /\ Len(fixes') \in 1 .. MaxFixes
  <2>1. Len(fixes) \in 1 .. MaxFixes /\ MaxFixes \in Nat
    BY WindowAssumption DEF EditsIInv
  <2>2. Len(seq) \in 1 .. MaxFixes
    BY <2>1
  <2> QED BY <1>1, <2>2
<1>3. Times \cup {p.t} \subseteq Times'
  BY StoreKeepsTimes DEF EditsIInv
<1>4. Bounded(trips', stays', Times')
  BY <1>1, <1>3 DEF EditsIInv, Bounded
<1>5. suppress' \subseteq Times' \X Times' /\ force' \subseteq Times'
  BY <1>1, <1>3 DEF EditsIInv
<1>6. Lasting(trips', stays', suppress', force')
  BY <1>1 DEF EditsIInv
<1>7. dirty' \subseteq Times' /\ edits' \in Nat
  BY <1>1, <1>3 DEF EditsIInv
<1> QED BY <1>2, <1>4, <1>5, <1>6, <1>7 DEF EditsIInv

\* What a phone delivers is a fix, after the last one or late between two others.
LEMMA DeliveredFix ==
    ASSUME InTime(fixes), Len(fixes) \in 1 .. MaxFixes, Len(fixes) < MaxFixes,
           NEW leg \in Legs[Len(fixes)]
    PROVE  LET p == [t |-> Last(fixes).t + leg.dt, x |-> Last(fixes).x + leg.dx,
                     trig |-> leg.trig, poor |-> leg.poor]
           IN  p \in Fix /\ fixes[Len(fixes)].t < p.t
<1> DEFINE p == [t |-> Last(fixes).t + leg.dt, x |-> Last(fixes).x + leg.dx,
                 trig |-> leg.trig, poor |-> leg.poor]
<1>1. Len(fixes) \in 1 .. MaxFixes - 1 /\ Len(fixes) # 0 /\ Len(fixes) \in 1 .. Len(fixes)
  BY WindowAssumption
<1>2. leg.dt \in Nat \ {0} /\ leg.dx \in Int /\ leg.trig \in BOOLEAN /\ leg.poor \in BOOLEAN
  BY <1>1, WindowAssumption
<1>3. /\ fixes[Len(fixes)].t \in Nat \ {0} /\ fixes[Len(fixes)].x \in Int
      /\ Last(fixes) = fixes[Len(fixes)]
  <2>1. fixes[Len(fixes)] \in Fix
    BY <1>1, ElementOfSeq DEF InTime
  <2> QED BY <2>1 DEF Fix, Last
<1>4. p.t = fixes[Len(fixes)].t + leg.dt
  BY <1>3
<1>5. p \in Fix
  BY <1>2, <1>3 DEF Fix
<1> HIDE DEF p
<1>6. fixes[Len(fixes)].t < p.t
  BY <1>2, <1>3, <1>4
<1> QED BY <1>5, <1>6 DEF p

LEMMA LateFix ==
    ASSUME InTime(fixes), NEW i \in 1 .. Len(fixes) - 1,
           NEW t \in fixes[i].t + 1 .. fixes[i + 1].t - 1, NEW dx \in LateSteps
    PROVE  [t |-> t, x |-> fixes[i].x + dx, trig |-> FALSE, poor |-> FALSE] \in Fix
<1>1. fixes[i] \in Fix /\ fixes[i + 1] \in Fix
  <2>1. i \in 1 .. Len(fixes) /\ i + 1 \in 1 .. Len(fixes)
    BY LenProperties DEF InTime
  <2> QED BY <2>1, ElementOfSeq DEF InTime
<1>2. fixes[i].t \in Nat \ {0} /\ fixes[i + 1].t \in Nat \ {0} /\ fixes[i].x \in Int
  BY <1>1 DEF Fix
<1>3. dx \in Int
  BY WindowAssumption
<1>4. PICK a \in Nat \ {0}, b \in Nat \ {0} : a = fixes[i].t /\ b = fixes[i + 1].t
  BY <1>2
<1>5. t \in a + 1 .. b - 1
  BY <1>4
<1>6. t \in Nat \ {0}
  BY <1>4, <1>5
<1>7. fixes[i].x + dx \in Int
  BY <1>2, <1>3
<1> QED BY <1>6, <1>7 DEF Fix

LEMMA EditsDeliverIInv ==
    ASSUME EditsIInv, NEW leg \in Legs[Len(fixes)], Deliver(leg)
    PROVE  EditsIInv'
<1> DEFINE p == [t |-> Last(fixes).t + leg.dt, x |-> Last(fixes).x + leg.dx,
                 trig |-> leg.trig, poor |-> leg.poor]
<1>1. Store(Append(fixes, p), p) /\ Len(fixes) < MaxFixes
  BY DEF Deliver
<1>2. InTime(fixes) /\ Len(fixes) \in 1 .. MaxFixes /\ Len(fixes) # 0
  BY WindowAssumption DEF EditsIInv
<1>3. p \in Fix /\ fixes[Len(fixes)].t < p.t
  BY <1>1, <1>2, DeliveredFix
<1> HIDE DEF p
<1> QED BY <1>1, <1>2, <1>3, AppendInTime, EditsStoreIInv

LEMMA EditsDeliverLateIInv ==
    ASSUME EditsIInv, NEW i \in 1 .. Len(fixes) - 1, NEW t \in fixes[i].t + 1 .. fixes[i + 1].t - 1,
           NEW dx \in LateSteps, DeliverLate(i, t, fixes[i].x + dx)
    PROVE  EditsIInv'
<1> DEFINE p == [t |-> t, x |-> fixes[i].x + dx, trig |-> FALSE, poor |-> FALSE]
<1>1. /\ Store(SubSeq(fixes, 1, i) \o <<p>> \o SubSeq(fixes, i + 1, Len(fixes)), p)
      /\ Len(fixes) < MaxFixes /\ fixes[i].t < t /\ t < fixes[i + 1].t
  BY DEF DeliverLate
<1>2. InTime(fixes)
  BY DEF EditsIInv
<1>3. p \in Fix /\ p.t = t
  BY <1>2, LateFix
<1> HIDE DEF p
<1> QED BY <1>1, <1>2, <1>3, InsertInTime, EditsStoreIInv

\* The rows of a run, a merge and a split.
LEMMA EditsProcessIInv ==
    ASSUME EditsIInv, NEW t0, NEW ranges \in SUBSET (Times \X Times), NEW splits \in SUBSET Times,
           \/ t0 = Epoch
           \/ (\E s \in stays : t0 = s.from) /\ Lasting(trips, stays, ranges, splits),
           NEW discards, Process(t0, ranges, splits, discards, trips, tripOf),
           fixes' = fixes, dirty' \subseteq dirty, edits' \in Nat,
           suppress' = ranges, force' = splits
    PROVE  EditsIInv'
<1>1. PICK r \in Reconciled(t0, ranges, splits, discards, trips, tripOf) :
         stays' = r.stays /\ trips' = r.trips
  BY DEF Process
<1>2. Times \subseteq Int
  BY TimesArePositive DEF EditsIInv
<1>3. ranges \in SUBSET (Int \X Int)
  BY <1>2
<1>4. Bounded(r.trips, r.stays, Times) /\ Lasting(r.trips, r.stays, ranges, splits)
  BY <1>3, ReconciledLasts DEF EditsIInv
<1>5. Times' = Times
  BY DEF Times
<1>6. Bounded(trips', stays', Times') /\ Lasting(trips', stays', suppress', force')
  BY <1>1, <1>4, <1>5
<1>7. InTime(fixes') /\ Len(fixes') \in 1 .. MaxFixes
  BY DEF EditsIInv
<1>8. /\ suppress' \subseteq Times' \X Times' /\ force' \subseteq Times'
      /\ dirty' \subseteq Times' /\ edits' \in Nat
  BY <1>5 DEF EditsIInv
<1> QED BY <1>6, <1>7, <1>8 DEF EditsIInv

LEMMA EditsRunIInv == ASSUME EditsIInv, Run PROVE EditsIInv'
<1>1. PICK t0 : t0 = RewindStart(Min(dirty))
  OBVIOUS
<1>2. /\ Process(t0, suppress, force, discard, trips, tripOf)
      /\ fixes' = fixes /\ dirty' \subseteq dirty /\ suppress' = suppress /\ force' = force
      /\ edits' \in Nat
  BY <1>1 DEF Run, overrides, EditsIInv
<1>3. t0 = Epoch \/ \E s \in stays : t0 = s.from
  BY <1>1, WindowsOpenAtStays DEF EditsIInv
<1>4. /\ Lasting(trips, stays, suppress, force)
      /\ suppress \in SUBSET (Times \X Times) /\ force \in SUBSET Times
  BY DEF EditsIInv
<1> QED BY <1>2, <1>3, <1>4, EditsProcessIInv

LEMMA EditsMergeIInv == ASSUME EditsIInv, NEW e \in trips, NEW f \in trips, Merge(e, f) PROVE EditsIInv'
<1>1. PICK ranges, splits : ranges = suppress' /\ splits = force'
  OBVIOUS
<1>2. /\ Process(Epoch, ranges, splits, discard, trips, tripOf)
      /\ fixes' = fixes /\ dirty' = dirty
      /\ ranges = suppress \cup {<<e.to, f.from>>}
      /\ splits \subseteq force
      /\ edits' \in Nat
  BY <1>1 DEF Merge, Edit, EditsIInv
<1>3. ranges \in SUBSET (Times \X Times) /\ splits \in SUBSET Times
  BY <1>2 DEF EditsIInv, Bounded
<1> QED BY <1>1, <1>2, <1>3, EditsProcessIInv

LEMMA EditsSplitIInv == ASSUME EditsIInv, NEW e \in trips, NEW t \in Times, Split(e, t) PROVE EditsIInv'
<1>1. PICK splits : splits = force'
  OBVIOUS
<1>2. /\ Process(Epoch, suppress, splits, discard, trips, tripOf)
      /\ fixes' = fixes /\ dirty' = dirty /\ suppress' = suppress
      /\ splits = force \cup {t}
      /\ edits' \in Nat
  BY <1>1 DEF Split, Edit, EditsIInv
<1>3. suppress \in SUBSET (Times \X Times) /\ splits \in SUBSET Times
  BY <1>2 DEF EditsIInv
<1> QED BY <1>1, <1>2, <1>3, EditsProcessIInv

LEMMA EditsTagIInv == ASSUME EditsIInv, NEW e \in trips, Tag(e) PROVE EditsIInv'
<1>1. PICK f : f = [e EXCEPT !.human = TRUE]
  OBVIOUS
<1>2. /\ trips' = (trips \ {e}) \cup {f}
      /\ UNCHANGED <<fixes, dirty, stays, suppress, force, edits>>
  BY <1>1 DEF Tag, overrides
<1>3. DOMAIN e = TripRowFields /\ e.from \in Times /\ e.to \in Times /\ e.from < e.to
  BY DEF EditsIInv, Bounded
<1>4. DOMAIN f = TripRowFields /\ f.from = e.from /\ f.to = e.to
  BY <1>1, <1>3 DEF TripRowFields
<1>5. Times' = Times
  BY <1>2 DEF Times
<1>6. Bounded(trips', stays', Times')
  BY <1>2, <1>3, <1>4, <1>5 DEF EditsIInv, Bounded
<1>7. Lasting(trips', stays', suppress', force')
  <2>1. \A x \in trips' : \E y \in trips : x.from = y.from /\ x.to = y.to
    BY <1>2, <1>4
  <2> QED BY <1>2, <2>1 DEF EditsIInv, Lasting
<1> QED BY <1>2, <1>5, <1>6, <1>7 DEF EditsIInv

LEMMA EditsDeleteIInv == ASSUME EditsIInv, NEW e \in trips, Delete(e) PROVE EditsIInv'
<1>1. /\ trips' \subseteq trips /\ UNCHANGED <<fixes, dirty, stays, suppress, force>>
      /\ edits' \in Nat
  BY DEF Delete, Edit, EditsIInv
<1>2. Times' = Times
  BY <1>1 DEF Times
<1> QED BY <1>1, <1>2 DEF EditsIInv, Bounded, Lasting

LEMMA EditsNextIInv == EditsIInv /\ [Next]_vars => EditsIInv'
<1> SUFFICES ASSUME EditsIInv, [Next]_vars PROVE EditsIInv'
  OBVIOUS
<1>1. CASE UNCHANGED vars
  <2>1. UNCHANGED <<fixes, dirty, stays, trips, suppress, force, edits>>
    BY <1>1 DEF vars, output, overrides
  <2>2. Times' = Times
    BY <2>1 DEF Times
  <2> QED BY <2>1, <2>2 DEF EditsIInv
<1>2. CASE \E leg \in Legs[Len(fixes)] : Deliver(leg)
  BY <1>2, EditsDeliverIInv
<1>3. CASE \E i \in 1 .. Len(fixes) - 1 : \E t \in fixes[i].t + 1 .. fixes[i + 1].t - 1 :
              \E dx \in LateSteps : DeliverLate(i, t, fixes[i].x + dx)
  BY <1>3, EditsDeliverLateIInv
<1>4. CASE Run
  BY <1>4, EditsRunIInv
<1>5. CASE \E e \in trips : Tag(e)
  BY <1>5, EditsTagIInv
<1>6. CASE \E e \in trips : Delete(e)
  BY <1>6, EditsDeleteIInv
<1>7. CASE \E e, f \in trips : Merge(e, f)
  BY <1>7, EditsMergeIInv
<1>8. CASE \E e \in trips : \E t \in Times : Split(e, t)
  BY <1>8, EditsSplitIInv
<1> QED BY <1>1, <1>2, <1>3, <1>4, <1>5, <1>6, <1>7, <1>8 DEF Next

\* A split stays a boundary of every trip that a stay follows, and a merge leaves no stay in
\* its range, through every later run of the detector, delivery, tag, merge, split and
\* deletion, for every track and all parameters of the detector (_apply_overrides,
\* assemble_trips, plan_reconcile, _process_device).
THEOREM EditsAlwaysLast == Spec => []EditsLast
<1>1. Spec => []EditsIInv
  BY EditsInitIInv, EditsNextIInv, PTL DEF Spec
<1>2. EditsIInv => EditsLast
  BY DEF EditsIInv, Lasting, Clear, EditsLast
<1> QED BY <1>1, <1>2, PTL

-----------------------------------------------------------------------------
(* The trips that later fixes leave alone (DetectorWindow).                *)

\* _rewind_start: with a stay that ended before every dirty fix, the window opens there or
\* at a later stay.
LEMMA WindowsOpenLate ==
    ASSUME EditsIInv, dirty # {}, NEW s \in stays, \A t \in dirty : s.to < t
    PROVE  RewindStart(Min(dirty)) \in Nat /\ s.from <= RewindStart(Min(dirty))
<1> DEFINE first == Min(dirty)
           settled == {q \in stays : q.to < first}
           ends == {q.to : q \in settled}
<1>1. Times \subseteq Nat \ {0} /\ IsFiniteSet(Times)
  BY TimesArePositive DEF EditsIInv
<1>2. dirty \in SUBSET Int /\ IsFiniteSet(dirty)
  <2>1. dirty \subseteq Times
    BY DEF EditsIInv
  <2>2. IsFiniteSet(dirty)
    BY <1>1, <2>1, FS_Subset
  <2>3. dirty \in SUBSET Int
    BY <1>1, <2>1
  <2> QED BY <2>2, <2>3
<1>3. first \in dirty
  <2>1. \E x \in dirty : \A y \in dirty : x <= y
    BY <1>2, Extremes
  <2> QED BY <2>1 DEF Min
<1> HIDE DEF first
<1>4. /\ \A q \in stays : q.from \in Times /\ q.to \in Times /\ q.from <= q.to
      /\ \A p, q \in stays : p.from < q.from => p.to < q.from
  BY DEF EditsIInv, Bounded
<1>5. s \in settled
  BY <1>3
<1>6. ends \in SUBSET Times /\ ends # {}
  BY <1>4, <1>5
<1>7. PICK x \in ends : \A y \in ends : y <= x
  <2> HIDE DEF ends
  <2>1. IsFiniteSet(ends)
    BY <1>1, <1>6, FS_Subset
  <2>2. ends \in SUBSET Int
    BY <1>1, <1>6
  <2> QED BY <1>6, <2>1, <2>2, Extremes
<1>8. \E q \in settled : \A r \in settled : r.to <= q.to
  BY <1>7
<1>9. PICK q : q = CHOOSE p \in settled : \A r \in settled : r.to <= p.to
  OBVIOUS
<1>10. q \in settled /\ s.to <= q.to
  BY <1>5, <1>8, <1>9
<1>11. RewindStart(first) = q.from
  BY <1>5, <1>9 DEF RewindStart
<1>12. s.from <= q.from
  <2>1. s.from \in Nat /\ s.to \in Nat /\ q.from \in Nat /\ q.to \in Nat
    BY <1>1, <1>4, <1>10
  <2>2. s.from <= s.to /\ (q.from < s.from => q.to < s.from)
    BY <1>4, <1>10
  <2> QED BY <1>10, <2>1, <2>2
<1>13. q.from \in Nat
  BY <1>1, <1>4, <1>10
<1> QED BY <1>11, <1>12, <1>13 DEF first

\* A run leaves a trip before its window as it was, with the fixes linked to it.
LEMMA RunLeavesSettledTrips ==
    ASSUME EditsIInv, Run, NEW e \in trips, NEW s \in stays, s.from = e.to,
           \A t \in dirty : s.to < t
    PROVE  /\ e \in trips'
           /\ \A t \in Times : t < e.to /\ tripOf[t] = e.id => tripOf'[t] = e.id
<1>1. PICK t0 : t0 = RewindStart(Min(dirty))
  OBVIOUS
<1>2. dirty # {} /\ Process(t0, suppress, force, discard, trips, tripOf)
  BY <1>1 DEF Run
<1> DEFINE pts == Window(t0)
           found == Detect(pts, suppress, force, discard)
           held == Existing(t0, trips)
<1>3. PICK r \in Reconciled(t0, suppress, force, discard, trips, tripOf) :
         trips' = r.trips /\ tripOf' = r.tripOf
  BY <1>2 DEF Process
<1>4. t0 \in Nat /\ e.to <= t0
  BY <1>1, <1>2, WindowsOpenLate
<1>5. e.from \in Nat /\ e.to \in Nat /\ e.from < e.to /\ Times \subseteq Nat
  BY TimesArePositive DEF EditsIInv, Bounded
<1>6. e \in trips \ held
  BY <1>4, <1>5 DEF Existing
<1>7. r \in ReconciledWith(t0, found, held, trips, tripOf)
  BY OneReconciliation
<1>8. \A n \in found.trips : n.fixes \subseteq {t \in Times : t >= t0}
  <2>0. InTime(fixes)
    BY DEF EditsIInv
  <2>1. InTime(pts)
    BY <2>0, WindowInTime
  <2>2. \A t \in TimesOf(pts) : t \in Times /\ t >= t0
    BY <2>0, WindowTimes
  <2>3. suppress \in SUBSET (Int \X Int)
    <3>1. suppress \in SUBSET (Times \X Times)
      BY DEF EditsIInv
    <3>2. Times \subseteq Int
      BY <1>5
    <3> QED BY <3>1, <3>2
  <2>4. Derived(found, pts, suppress, force)
    BY <2>1, <2>3, DetectDerived
  <2> QED BY <2>2, <2>4 DEF Derived
<1> HIDE DEF pts, found, held
<1>9. /\ trips \ held \subseteq r.trips
      /\ \A t \in Times, x \in trips \ held :
            tripOf[t] = x.id /\ ~(t > t0) /\ (\A n \in found.trips : t \notin n.fixes) =>
               r.tripOf[t] = tripOf[t]
  BY <1>7, ReconciledRows
<1>10. ASSUME NEW t \in Times, t < e.to, tripOf[t] = e.id PROVE r.tripOf[t] = e.id
  <2>1. ~(t > t0) /\ ~(t >= t0)
    BY <1>4, <1>5, <1>10
  <2>2. \A n \in found.trips : t \notin n.fixes
    BY <1>8, <2>1
  <2> QED BY <1>6, <1>9, <1>10, <2>1, <2>2
<1> QED BY <1>3, <1>6, <1>9, <1>10

\* A fix that is stored is a new one (the times of a device's points are unique).
LEMMA StoredIsNew ==
    ASSUME InTime(fixes), NEW i \in 0 .. Len(fixes), NEW p \in Fix,
           i # 0 => fixes[i].t < p.t, i # Len(fixes) => p.t < fixes[i + 1].t
    PROVE  p.t \notin Times
<1>1. PICK n \in Nat : n = Len(fixes)
  BY LenProperties DEF InTime
<1>2. \A j, k \in 1 .. n : fixes[j].t \in Nat /\ (j < k => fixes[j].t < fixes[k].t)
  <2>1. \A j \in 1 .. n : fixes[j] \in Fix
    BY <1>1, ElementOfSeq DEF InTime
  <2> QED BY <1>1, <2>1 DEF InTime, Fix
<1>3. p.t \in Nat
  BY DEF Fix
<1>4. ASSUME NEW k \in 1 .. n, fixes[k].t = p.t PROVE FALSE
  <2>1. CASE k <= i
    <3>1. i \in 1 .. n /\ i # 0 /\ (k = i \/ k < i)
      BY <1>1, <2>1
    <3>2. fixes[i].t < p.t /\ fixes[k].t <= fixes[i].t
      BY <1>2, <3>1
    <3> QED BY <1>2, <1>3, <1>4, <3>1, <3>2
  <2>2. CASE ~(k <= i)
    <3>1. i + 1 \in 1 .. n /\ i # n /\ (k = i + 1 \/ i + 1 < k)
      BY <1>1, <2>2
    <3>2. p.t < fixes[i + 1].t /\ fixes[i + 1].t <= fixes[k].t
      BY <1>1, <1>2, <3>1
    <3> QED BY <1>2, <1>3, <1>4, <3>1, <3>2
  <2> QED BY <2>1, <2>2
<1> QED BY <1>1, <1>4, TimesArePositive DEF TimesOf

MovesNothing ==
    /\ UNCHANGED <<stays, trips, nextId, force>>
    /\ Times \subseteq Times'
    /\ \A t \in Times : tripOf'[t] = tripOf[t]

LEMMA StoreMovesNothing ==
    ASSUME InTime(fixes), NEW seq, NEW p, Store(seq, p), p.t \notin Times, InTime(seq),
           TimesOf(fixes) \cup {p.t} \subseteq TimesOf(seq)
    PROVE  MovesNothing
<1>1. tripOf' = [t \in Times \cup {p.t} |-> IF t = p.t THEN 0 ELSE tripOf[t]]
  BY DEF Store
<1>2. \A t \in Times : tripOf'[t] = tripOf[t]
  BY <1>1
<1>3. Times \subseteq Times'
  BY StoreKeepsTimes
<1> QED BY <1>2, <1>3 DEF Store, overrides, MovesNothing

LEMMA DeliverMovesNothing ==
    ASSUME EditsIInv, NEW leg \in Legs[Len(fixes)], Deliver(leg)
    PROVE  MovesNothing
<1> DEFINE p == [t |-> Last(fixes).t + leg.dt, x |-> Last(fixes).x + leg.dx,
                 trig |-> leg.trig, poor |-> leg.poor]
<1>1. Store(Append(fixes, p), p) /\ Len(fixes) < MaxFixes
  BY DEF Deliver
<1>2. InTime(fixes) /\ Len(fixes) \in 1 .. MaxFixes /\ Len(fixes) \in 0 .. Len(fixes)
  BY WindowAssumption DEF EditsIInv
<1>3. p \in Fix /\ fixes[Len(fixes)].t < p.t
  BY <1>1, <1>2, DeliveredFix
<1> HIDE DEF p
<1>4. p.t \notin Times
  BY <1>2, <1>3, StoredIsNew
<1> QED BY <1>1, <1>2, <1>3, <1>4, AppendInTime, StoreMovesNothing

LEMMA DeliverLateMovesNothing ==
    ASSUME EditsIInv, NEW i \in 1 .. Len(fixes) - 1, NEW t \in fixes[i].t + 1 .. fixes[i + 1].t - 1,
           NEW dx \in LateSteps, DeliverLate(i, t, fixes[i].x + dx)
    PROVE  MovesNothing
<1> DEFINE p == [t |-> t, x |-> fixes[i].x + dx, trig |-> FALSE, poor |-> FALSE]
<1>1. /\ Store(SubSeq(fixes, 1, i) \o <<p>> \o SubSeq(fixes, i + 1, Len(fixes)), p)
      /\ fixes[i].t < t /\ t < fixes[i + 1].t
  BY DEF DeliverLate
<1>2. InTime(fixes) /\ i \in 0 .. Len(fixes)
  BY WindowAssumption DEF EditsIInv
<1>3. p \in Fix /\ p.t = t
  BY <1>2, LateFix
<1> HIDE DEF p
<1>4. p.t \notin Times
  BY <1>1, <1>2, <1>3, StoredIsNew
<1> QED BY <1>1, <1>2, <1>3, <1>4, InsertInTime, StoreMovesNothing

\* Nothing that is recorded after the stay a trip ends at changes the row, its tag or the
\* fixes linked to it, in any run of the detector, for every track and all parameters of the
\* detector (_rewind_start, plan_reconcile, _process_device).
THEOREM SettledTripsAlwaysStay == Spec => SettledTripsStay
<1> DEFINE Stays(e, s) ==
      edits' = edits /\ s.from = e.to /\ (\A t \in dirty : s.to < t)
         => /\ \E f \in trips' : f = e \/ f = [e EXCEPT !.human = TRUE]
            /\ \A t \in Times : t < e.to /\ tripOf[t] = e.id => tripOf'[t] = e.id
<1>1. ASSUME EditsIInv, [Next]_vars, NEW e \in trips, NEW s \in stays PROVE Stays(e, s)
  <2> SUFFICES ASSUME edits' = edits, s.from = e.to, \A t \in dirty : s.to < t
               PROVE  /\ \E f \in trips' : f = e \/ f = [e EXCEPT !.human = TRUE]
                      /\ \A t \in Times : t < e.to /\ tripOf[t] = e.id => tripOf'[t] = e.id
    OBVIOUS
  <2>1. CASE UNCHANGED vars
    BY <2>1 DEF vars, output
  <2>2. CASE \E leg \in Legs[Len(fixes)] : Deliver(leg)
    BY <1>1, <2>2, DeliverMovesNothing DEF MovesNothing
  <2>3. CASE \E i \in 1 .. Len(fixes) - 1 : \E t \in fixes[i].t + 1 .. fixes[i + 1].t - 1 :
                \E dx \in LateSteps : DeliverLate(i, t, fixes[i].x + dx)
    BY <1>1, <2>3, DeliverLateMovesNothing DEF MovesNothing
  <2>4. CASE Run
    BY <1>1, <2>4, RunLeavesSettledTrips
  <2>5. CASE \E x \in trips : Tag(x)
    BY <1>1, <2>5 DEF Tag
  <2>6. ~Edit
    <3>1. PICK m \in Nat : m = edits
      BY <1>1 DEF EditsIInv
    <3> QED BY <3>1 DEF Edit
  <2> QED BY <1>1, <2>1, <2>2, <2>3, <2>4, <2>5, <2>6 DEF Next, Delete, Merge, Split
<1>2. EditsIInv /\ [Next]_vars =>
         [\A e \in trips, s \in stays : Stays(e, s)]_vars
  BY <1>1
<1>3. Spec => []EditsIInv
  BY EditsInitIInv, EditsNextIInv, PTL DEF Spec
<1> QED BY <1>2, <1>3, PTL DEF Spec, SettledTripsStay

-----------------------------------------------------------------------------
(* The ids of the rows that a window writes (DetectorWindow).              *)

\* _greedy_match: no row of either side is in two qualified.
LEMMA MatchedOnce ==
    ASSUME NEW existing, NEW new, NEW m \in GreedyMatchings(existing, new)
    PROVE  /\ \A p \in m : p[1] \in existing /\ p[2] \in new
           /\ \A p, q \in m : p[1] = q[1] \/ p[2] = q[2] => p = q
<1> DEFINE qualified == {p \in existing \X new : Qualifies(p[1], p[2])}
<1>1. m \subseteq qualified /\ \A p, q \in m : ~(p # q /\ (p[1] = q[1] \/ p[2] = q[2]))
  BY DEF GreedyMatchings
<1>2. \A p \in qualified : p[1] \in existing /\ p[2] \in new
  OBVIOUS
<1> HIDE DEF qualified
<1> QED BY <1>1, <1>2

\* A row keeps the id it is matched with, or takes one of its own from nextId on.
LEMMA WrittenId ==
    ASSUME NEW d, NEW m, NEW n \in d.trips
    PROVE  \/ \E p \in m : p[2] = n /\ Written(d, m, n).id = p[1].id
           \/ /\ n \in Unmatched(d, m)
              /\ Written(d, m, n).id
                    = nextId + Cardinality({f \in Unmatched(d, m) : f.from < n.from})
<1> DEFINE matched == {p \in m : p[2] = n}
           id == IF matched # {} THEN (CHOOSE p \in matched : TRUE)[1].id
                 ELSE nextId + Cardinality({f \in Unmatched(d, m) : f.from < n.from})
<1>1. PICK i, h : i = id /\ Written(d, m, n) = [id |-> i, from |-> n.from, to |-> n.to,
                                                fixes |-> n.fixes, human |-> h]
  BY Zenon DEF Written
<1>2. Written(d, m, n).id = id
  BY <1>1
<1>3. CASE matched # {}
  <2>1. PICK p : p = CHOOSE q \in matched : TRUE
    OBVIOUS
  <2>2. p \in m /\ p[2] = n
    BY <1>3, <2>1
  <2> QED BY <1>2, <1>3, <2>1, <2>2
<1>4. CASE matched = {}
  BY <1>2, <1>4 DEF Unmatched
<1> QED BY <1>3, <1>4

\* A set of numbered things, each counted by those that come before it.
LEMMA CountedApart ==
    ASSUME NEW S, IsFiniteSet(S), \A x \in S : x.from \in Nat,
           \A x, y \in S : x # y => x.from < y.from \/ y.from < x.from,
           NEW x \in S
    PROVE  /\ Cardinality({y \in S : y.from < x.from}) \in 0 .. Cardinality(S) - 1
           /\ \A z \in S :
                 z # x => Cardinality({y \in S : y.from < z.from})
                             # Cardinality({y \in S : y.from < x.from})
<1> DEFINE before(z) == {y \in S : y.from < z.from}
<1>1. \A z \in S : IsFiniteSet(before(z)) /\ Cardinality(before(z)) \in Nat
  <2> TAKE z \in S
  <2>1. before(z) \in SUBSET S
    OBVIOUS
  <2> HIDE DEF before
  <2> QED BY <2>1, FS_Subset, FS_CardinalityType
<1>2. Cardinality(S) \in Nat
  BY FS_CardinalityType
\* A proper subset has fewer elements
<1>3. ASSUME NEW A, NEW B, IsFiniteSet(B), A \subseteq B, NEW b \in B, b \notin A
      PROVE  Cardinality(A) \in Nat /\ Cardinality(B) \in Nat /\ Cardinality(A) < Cardinality(B)
  <2>1. A \in SUBSET B
    BY <1>3
  <2>2. /\ IsFiniteSet(A) /\ Cardinality(A) <= Cardinality(B)
        /\ (Cardinality(B) = Cardinality(A) => B = A)
    BY <1>3, <2>1, FS_Subset
  <2>3. A # B
    BY <1>3
  <2>4. PICK a, c : a = Cardinality(A) /\ c = Cardinality(B)
    OBVIOUS
  <2>5. a \in Nat /\ c \in Nat
    BY <1>3, <2>2, <2>4, FS_CardinalityType
  <2> QED BY <2>2, <2>3, <2>4, <2>5
<1>4. before(x) \subseteq S /\ x \notin before(x)
  OBVIOUS
<1>5. Cardinality(before(x)) < Cardinality(S)
  <2> HIDE DEF before
  <2> QED BY <1>3, <1>4
<1>6. ASSUME NEW y \in S, NEW z \in S, y.from < z.from
      PROVE  Cardinality(before(y)) < Cardinality(before(z))
  <2>1. before(y) \subseteq before(z)
    BY <1>6
  <2>2. y \in before(z) /\ y \notin before(y)
    BY <1>6
  <2>3. IsFiniteSet(before(z))
    BY <1>1
  <2> HIDE DEF before
  <2> QED BY <1>3, <2>1, <2>2, <2>3
<1>7. ASSUME NEW z \in S, z # x PROVE Cardinality(before(z)) # Cardinality(before(x))
  <2>1. z.from < x.from \/ x.from < z.from
    BY <1>7
  <2>2. PICK a \in Nat, b \in Nat : a = Cardinality(before(z)) /\ b = Cardinality(before(x))
    BY <1>1
  <2>3. a < b \/ b < a
    BY <1>6, <2>1, <2>2
  <2> QED BY <2>2, <2>3
<1>8. PICK a \in Nat, b \in Nat : a = Cardinality(before(x)) /\ b = Cardinality(S)
  BY <1>1, <1>2
<1>9. a \in 0 .. b - 1
  BY <1>5, <1>8
<1> QED BY <1>7, <1>8, <1>9

\* Rows have positive ids below nextId, each its own.
Identified(tps, next) ==
    /\ next \in Nat \ {0}
    /\ \A e \in tps : e.id \in Nat \ {0} /\ e.id < next
    /\ \A e, f \in tps : e.id = f.id => e = f

LEMMA WrittenIds ==
    ASSUME Identified(trips, nextId), NEW existing \in SUBSET trips, NEW d,
           IsFiniteSet(d.trips), \A e \in d.trips : e.from \in Nat,
           \A e, f \in d.trips : e # f => e.from < f.from \/ f.from < e.from,
           NEW m \in GreedyMatchings(existing, d.trips)
    PROVE  LET written == {Written(d, m, n) : n \in d.trips}
               others == trips \ {p[1] : p \in m}
           IN  Identified(others \cup written, nextId + Cardinality(Unmatched(d, m)))
<1> DEFINE written == {Written(d, m, n) : n \in d.trips}
           others == trips \ {p[1] : p \in m}
           new == Unmatched(d, m)
           rank(n) == Cardinality({f \in new : f.from < n.from})
           id(n) == Written(d, m, n).id
<1>1. /\ \A p \in m : p[1] \in existing /\ p[2] \in d.trips
      /\ \A p, q \in m : p[1] = q[1] \/ p[2] = q[2] => p = q
  BY MatchedOnce
<1>2. new \in SUBSET d.trips /\ \A n \in new : \A p \in m : p[2] # n
  BY DEF Unmatched
<1>3. IsFiniteSet(new)
  BY <1>2, FS_Subset
<1> HIDE DEF new
<1>4. \A n \in new : /\ rank(n) \in 0 .. Cardinality(new) - 1
                     /\ \A o \in new : o # n => rank(o) # rank(n)
  <2>1. \A x \in new : x.from \in Nat
    BY <1>2
  <2>2. \A x, y \in new : x # y => x.from < y.from \/ y.from < x.from
    BY <1>2
  <2> QED BY <1>3, <2>1, <2>2, CountedApart
<1>5. \A n \in d.trips : \/ \E p \in m : p[2] = n /\ id(n) = p[1].id
                         \/ n \in new /\ id(n) = nextId + rank(n)
  BY WrittenId DEF new
<1> HIDE DEF rank, id
<1>6. PICK k \in Nat, next \in Nat \ {0} : k = Cardinality(new) /\ next = nextId
  BY <1>3, FS_CardinalityType DEF Identified
<1>7. \A n \in new : rank(n) \in Nat /\ rank(n) < k
  BY <1>4, <1>6
<1>8. \A e \in trips : e.id \in Nat \ {0} /\ e.id < next
  BY <1>6 DEF Identified
<1>9. \A n \in d.trips : id(n) \in Nat \ {0} /\ id(n) < next + k
  <2> TAKE n \in d.trips
  <2>1. ASSUME NEW p \in m, id(n) = p[1].id PROVE id(n) \in Nat \ {0} /\ id(n) < next + k
    <3>1. p[1] \in trips
      BY <1>1
    <3> QED BY <1>6, <1>8, <2>1, <3>1
  <2>2. ASSUME n \in new, id(n) = next + rank(n) PROVE id(n) \in Nat \ {0} /\ id(n) < next + k
    BY <1>6, <1>7, <2>2
  <2> QED BY <1>5, <1>6, <2>1, <2>2
<1>10. ASSUME NEW n \in d.trips, NEW o \in d.trips, id(n) = id(o) PROVE n = o
  <2>1. ASSUME NEW p \in m, p[2] = n, id(n) = p[1].id, NEW q \in m, q[2] = o, id(o) = q[1].id
        PROVE  n = o
    <3>1. p[1] = q[1]
      BY <1>1, <1>10, <2>1 DEF Identified
    <3> QED BY <1>1, <2>1, <3>1
  <2>2. ASSUME NEW x \in d.trips, NEW p \in m, id(x) = p[1].id, NEW y \in new, id(y) = next + rank(y)
        PROVE  id(x) # id(y)
    <3>1. id(x) \in Nat /\ id(x) < next
      BY <1>1, <1>8, <2>2
    <3>2. PICK r \in Nat : r = rank(y)
      BY <1>7
    <3> QED BY <1>6, <2>2, <3>1, <3>2
  <2>3. ASSUME n \in new, id(n) = next + rank(n), o \in new, id(o) = next + rank(o)
        PROVE  n = o
    <3>1. PICK r \in Nat, s \in Nat : r = rank(n) /\ s = rank(o)
      BY <1>7, <2>3
    <3>2. id(n) = next + r /\ id(o) = next + s
      BY <2>3, <3>1
    <3>3. next + r = next + s
      BY <1>10, <3>2
    <3>4. r = s
      BY <1>6, <3>3
    <3> QED BY <1>4, <2>3, <3>1, <3>4
  <2>4. /\ \/ \E p \in m : p[2] = n /\ id(n) = p[1].id
           \/ n \in new /\ id(n) = next + rank(n)
        /\ \/ \E p \in m : p[2] = o /\ id(o) = p[1].id
           \/ o \in new /\ id(o) = next + rank(o)
    BY <1>5, <1>6
  <2> QED BY <1>10, <2>1, <2>2, <2>3, <2>4
<1>11. ASSUME NEW n \in d.trips, NEW e \in others PROVE id(n) # e.id
  <2>1. ASSUME NEW p \in m, id(n) = p[1].id PROVE id(n) # e.id
    <3>1. p[1] \in trips /\ e \in trips /\ e # p[1]
      BY <1>1
    <3> QED BY <2>1, <3>1 DEF Identified
  <2>2. ASSUME n \in new, id(n) = next + rank(n) PROVE id(n) # e.id
    <3>1. e.id \in Nat /\ e.id < next
      BY <1>8
    <3>2. PICK r \in Nat : r = rank(n)
      BY <1>7, <2>2
    <3> QED BY <1>6, <2>2, <3>1, <3>2
  <2> QED BY <1>5, <1>6, <2>1, <2>2
<1>12. \A e \in written : \E n \in d.trips : e = Written(d, m, n) /\ e.id = id(n)
  BY DEF id
<1>13. others \subseteq trips
  OBVIOUS
<1> HIDE DEF written, others
<1>14. \A e \in others \cup written : e.id \in Nat \ {0} /\ e.id < next + k
  <2>1. \A e \in others : e.id \in Nat \ {0} /\ e.id < next + k
    BY <1>6, <1>8, <1>13
  <2> QED BY <1>9, <1>12, <2>1
<1>15. ASSUME NEW e \in others \cup written, NEW f \in others \cup written, e.id = f.id PROVE e = f
  <2>1. CASE e \in others /\ f \in others
    BY <1>13, <1>15, <2>1 DEF Identified
  <2>2. CASE e \in written /\ f \in written
    BY <1>10, <1>12, <1>15, <2>2
  <2>3. CASE e \in written /\ f \in others
    BY <1>11, <1>12, <1>15, <2>3
  <2>4. CASE e \in others /\ f \in written
    BY <1>11, <1>12, <1>15, <2>4
  <2> QED BY <2>1, <2>2, <2>3, <2>4
<1>16. next + k \in Nat \ {0}
  OBVIOUS
<1>17. Identified(others \cup written, next + k)
  BY <1>14, <1>15, <1>16 DEF Identified
<1> QED BY <1>6, <1>17 DEF others, written, new

-----------------------------------------------------------------------------
(* The trips that own their fixes (DetectorWindow).                        *)

\* Trips have fixes of the device within their bounds, and reach over no stay.
Placed(tps, sts, times) ==
    /\ \A e \in tps : e.fixes \subseteq times /\ \A t \in e.fixes : e.from <= t /\ t <= e.to
    /\ \A e \in tps, s \in sts : ~(e.from < s.from /\ s.from < e.to)

\* TripsOwnTheirFixes, of any rows and edits.
Owning(tps, sts, ids, splits) ==
    /\ \A e, f \in tps : e = f \/ e.to <= f.from \/ f.to <= e.from
    /\ \A e \in tps : (\E s \in sts : e.from < s.from) =>
          \A t \in e.fixes : ids[t] = e.id \/ t \in splits \cap {e.from, e.to}

RowsIInv ==
    /\ EditsIInv
    /\ Identified(trips, nextId)
    /\ Placed(trips, stays, Times)
    /\ Owning(trips, stays, tripOf, force)

\* What one pass over the fixes from t0 on finds.
PassFrom(t0, d, splits) ==
    /\ IsFiniteSet(d.trips)
    /\ \A s \in d.stays \cup d.arrival : s.from \in Times /\ t0 <= s.from
    /\ \A e \in d.trips :
          /\ e.from \in Times /\ e.to \in Times /\ t0 <= e.from /\ e.from < e.to
          /\ e.fixes \subseteq {t \in Times : t0 <= t}
    /\ SharesSplitsOnly(d, splits)
    /\ LiesBetween(d, splits)

LEMMA WindowPass ==
    ASSUME InTime(fixes), NEW t0 \in Nat, NEW ranges \in SUBSET (Int \X Int), NEW splits, NEW discards
    PROVE  PassFrom(t0, Detect(Window(t0), ranges, splits, discards), splits)
<1> DEFINE pts == Window(t0)
           found == Detect(pts, ranges, splits, discards)
<1>1. InTime(pts)
  BY WindowInTime
<1>2. TimesOf(pts) = {t \in Times : t >= t0}
  BY WindowTimes
<1>3. Derived(found, pts, ranges, splits) /\ SharesSplitsOnly(found, splits) /\ LiesBetween(found, splits)
  BY <1>1, DetectDerived, DetectLies
<1> HIDE DEF pts, found
<1>4. Times \subseteq Nat \ {0} /\ IsFiniteSet(Times)
  BY TimesArePositive
<1>5. \A t \in TimesOf(pts) : t \in Times /\ t0 <= t
  BY <1>2, <1>4
<1>6. /\ \A s \in found.stays \cup found.arrival : s.from \in Times /\ t0 <= s.from
      /\ \A e \in found.trips :
            /\ e.from \in Times /\ e.to \in Times /\ t0 <= e.from /\ e.from < e.to
            /\ e.fixes \subseteq {t \in Times : t0 <= t}
  BY <1>3, <1>5 DEF Derived
<1>7. IsFiniteSet(found.trips)
  <2> DEFINE starts == [e \in found.trips |-> e.from]
  <2>1. \A e, f \in found.trips : e.from = f.from => e = f
    <3> SUFFICES ASSUME NEW e \in found.trips, NEW f \in found.trips, e # f PROVE e.from # f.from
      OBVIOUS
    <3>1. e.to <= f.from \/ f.to <= e.from
      BY <1>3 DEF SharesSplitsOnly
    <3>2. e.from \in Nat /\ f.from \in Nat /\ e.to \in Nat /\ f.to \in Nat /\ e.from < e.to /\ f.from < f.to
      BY <1>4, <1>6
    <3> QED BY <3>1, <3>2
  <2>2. starts \in Injection(found.trips, Times)
    BY <1>6, <2>1 DEF Injection, IsInjective
  <2> QED BY <1>4, <2>2, FS_Injection
<1>8. PassFrom(t0, found, splits)
  BY <1>3, <1>6, <1>7 DEF PassFrom
<1> QED BY <1>8 DEF found, pts

LEMMA WrittenRow ==
    ASSUME NEW d, NEW m, NEW n
    PROVE  /\ Written(d, m, n).from = n.from /\ Written(d, m, n).to = n.to
           /\ Written(d, m, n).fixes = n.fixes
<1>1. PICK i, h : Written(d, m, n) = [id |-> i, from |-> n.from, to |-> n.to,
                                      fixes |-> n.fixes, human |-> h]
  BY Zenon DEF Written
<1> QED BY <1>1

\* plan_reconcile and the writes of _process_device: the trips before the window stay as
\* they are and end where it opens at the latest, the kept ones begin with the last stay of
\* the pass or later, and the others are those that the pass found.
LEMMA ReconciledOwns ==
    ASSUME RowsIInv, NEW t0 \in Nat, NEW d, NEW splits, PassFrom(t0, d, splits),
           \/ t0 = Epoch
           \/ (\E s \in stays : t0 = s.from) /\ splits = force,
           NEW m \in GreedyMatchings(Existing(t0, trips), d.trips), NEW laterWins, NEW r,
           r = ReconciledBy(t0, d, Existing(t0, trips), trips, tripOf, m, laterWins)
    PROVE  /\ Identified(r.trips, r.nextId) /\ Placed(r.trips, r.stays, Times)
           /\ Owning(r.trips, r.stays, r.tripOf, splits)
<1> DEFINE held == Existing(t0, trips)
           before == trips \ held
           kept == Kept(held \ {p[1] : p \in m}, d)
           written == {Written(d, m, n) : n \in d.trips}
           left == before \cup kept
           holders(t) == {w \in written : t \in w.fixes}
           holder(t) == CHOOSE w \in holders(t) :
                           \A v \in holders(t) : laterWins = (v.from <= w.from) \/ v = w
<1>1. /\ r.stays = {s \in stays : s.from < t0} \cup d.stays
      /\ r.trips = left \cup written
      /\ r.nextId = nextId + Cardinality(Unmatched(d, m))
  BY DEF ReconciledBy, WrittenStays
<1>2. r.tripOf = [t \in Times |->
         IF holders(t) # {} THEN holder(t).id
         ELSE IF tripOf[t] \notin {e.id : e \in left \cup written} THEN 0
         ELSE IF Unlinked(t0, t) /\ tripOf[t] \notin {e.id : e \in kept} THEN 0
         ELSE tripOf[t]]
  BY DEF ReconciledBy
<1>3. Times \subseteq Nat \ {0}
  BY TimesArePositive DEF RowsIInv, EditsIInv
<1>4. \A e \in trips : e.from \in Nat \ {0} /\ e.to \in Nat /\ e.from < e.to
  BY <1>3 DEF RowsIInv, EditsIInv, Bounded
<1>5. \A s \in stays : s.from \in Nat \ {0}
  BY <1>3 DEF RowsIInv, EditsIInv, Bounded
<1>6. \A e \in d.trips : e.from \in Nat \ {0} /\ e.to \in Nat /\ e.from < e.to /\ t0 <= e.from
  BY <1>3 DEF PassFrom
<1>7. \A s \in d.stays \cup d.arrival : s.from \in Nat \ {0} /\ t0 <= s.from
  BY <1>3 DEF PassFrom
<1>8. held = {e \in trips : e.from >= t0}
  BY DEF Existing
\* The three kinds of rows
<1>9. ASSUME NEW e \in before
      PROVE  /\ e \in trips /\ e.from < t0 /\ e.to <= t0 /\ splits = force
             /\ \E s \in stays : e.from < s.from
  <2>1. e \in trips /\ e.from < t0
    BY <1>4, <1>8
  <2>2. t0 # Epoch
    BY <1>4, <2>1 DEF Epoch
  <2>3. PICK s \in stays : t0 = s.from
    BY <2>2
  <2>4. ~(e.from < s.from /\ s.from < e.to)
    BY <2>1 DEF RowsIInv, Placed
  <2>5. e.to <= t0
    BY <1>4, <2>1, <2>3, <2>4
  <2> QED BY <2>1, <2>2, <2>3, <2>5
<1>10. ASSUME NEW e \in kept
       PROVE  /\ e \in trips /\ e.from >= t0 /\ e \notin {p[1] : p \in m}
              /\ \A s \in d.stays \cup d.arrival : s.from <= e.from
  <2>1. e \in held /\ e \notin {p[1] : p \in m}
    BY DEF Kept
  <2>2. PICK s \in d.stays \cup d.arrival :
           (\A q \in d.stays \cup d.arrival : q.from <= s.from) /\ e.from >= s.from
    BY DEF Kept
  <2>3. e \in trips /\ e.from >= t0
    BY <1>8, <2>1
  <2>4. \A q \in d.stays \cup d.arrival : q.from <= e.from
    BY <1>4, <1>7, <2>2, <2>3
  <2> QED BY <2>1, <2>3, <2>4
<1>11. ASSUME NEW e \in written
       PROVE  \E n \in d.trips : /\ e = Written(d, m, n)
                                 /\ e.from = n.from /\ e.to = n.to /\ e.fixes = n.fixes
  BY WrittenRow
<1>12. \A e \in written :
         /\ e.from \in Nat \ {0} /\ e.to \in Nat /\ e.from < e.to /\ t0 <= e.from
         /\ \A t \in e.fixes : t \in Times /\ t \in Nat /\ t0 <= t /\ e.from <= t /\ t <= e.to
         /\ \E s \in d.stays \cup d.arrival : s.from = e.to
         /\ \E s \in d.stays \cup d.arrival :
               s.from <= e.from /\ (s.from = e.from => e.from \in splits)
         /\ \A s \in d.stays \cup d.arrival : ~(e.from < s.from /\ s.from < e.to)
  <2> TAKE e \in written
  <2>1. PICK n \in d.trips : e.from = n.from /\ e.to = n.to /\ e.fixes = n.fixes
    BY <1>11
  <2>2. /\ \A t \in n.fixes : n.from <= t /\ t <= n.to
        /\ \E s \in d.stays \cup d.arrival : s.from = n.to
        /\ \E s \in d.stays \cup d.arrival :
              s.from <= n.from /\ (s.from = n.from => n.from \in splits)
        /\ \A s \in d.stays \cup d.arrival : ~(n.from < s.from /\ s.from < n.to)
    BY DEF PassFrom, LiesBetween
  <2>3. \A t \in n.fixes : t \in Times /\ t \in Nat /\ t0 <= t
    BY <1>3 DEF PassFrom
  <2> QED BY <1>6, <2>1, <2>2, <2>3
<1>13. \A e, f \in written : e # f =>
         /\ e.to <= f.from \/ f.to <= e.from
         /\ \A t \in e.fixes \cap f.fixes : t \in splits /\ t \in {e.from, e.to}
  <2> TAKE e, f \in written
  <2> HAVE e # f
  <2>1. PICK n \in d.trips : e = Written(d, m, n) /\ e.from = n.from /\ e.to = n.to /\ e.fixes = n.fixes
    BY <1>11
  <2>2. PICK o \in d.trips : f = Written(d, m, o) /\ f.from = o.from /\ f.to = o.to /\ f.fixes = o.fixes
    BY <1>11
  <2>3. n # o
    BY <2>1, <2>2
  <2>4. /\ n.to <= o.from \/ o.to <= n.from
        /\ \A t \in n.fixes \cap o.fixes : t \in splits /\ t \in {n.from, n.to}
    BY <2>3 DEF PassFrom, SharesSplitsOnly
  <2> QED BY <2>1, <2>2, <2>4
<1>14. Identified(r.trips, r.nextId)
  <2> DEFINE others == trips \ {p[1] : p \in m}
  <2>1. held \in SUBSET trips /\ m \in GreedyMatchings(held, d.trips)
    BY <1>8
  <2>2. \A e, f \in d.trips : e # f => e.from < f.from \/ f.from < e.from
    <3> SUFFICES ASSUME NEW e \in d.trips, NEW f \in d.trips, e # f
                 PROVE  e.from < f.from \/ f.from < e.from
      OBVIOUS
    <3>1. e.to <= f.from \/ f.to <= e.from
      BY DEF PassFrom, SharesSplitsOnly
    <3> QED BY <1>6, <3>1
  <2>3. Identified(trips, nextId) /\ IsFiniteSet(d.trips) /\ \A e \in d.trips : e.from \in Nat
    BY <1>6 DEF RowsIInv, PassFrom
  <2> HIDE DEF held
  <2>4. Identified(others \cup written, nextId + Cardinality(Unmatched(d, m)))
    BY <2>1, <2>2, <2>3, WrittenIds
  <2>5. before \subseteq others
    <3>1. \A p \in m : p[1] \in held
      BY <2>1, MatchedOnce
    <3> QED BY <3>1
  <2>6. kept \subseteq others
    <3> HIDE DEF kept
    <3> QED BY <1>10
  <2>7. r.trips \subseteq others \cup written
    BY <1>1, <2>5, <2>6
  <2> HIDE DEF others, written
  <2> QED BY <1>1, <2>4, <2>7 DEF Identified
<1> HIDE DEF before, kept, written, held
<1>15. ASSUME NEW e \in r.trips
       PROVE  e.fixes \subseteq Times /\ \A t \in e.fixes : e.from <= t /\ t <= e.to
  <2>1. CASE e \in trips
    BY <2>1 DEF RowsIInv, Placed
  <2>2. CASE e \in written
    BY <1>12, <2>2
  <2> QED BY <1>1, <1>9, <1>10, <2>1, <2>2
<1>16. ASSUME NEW e \in r.trips, NEW s \in r.stays PROVE ~(e.from < s.from /\ s.from < e.to)
  <2>1. CASE e \in before
    <3>1. CASE s \in stays
      BY <1>9, <2>1, <3>1 DEF RowsIInv, Placed
    <3>2. CASE s \in d.stays
      <4>1. e.to \in Nat /\ e.to <= t0 /\ s.from \in Nat /\ t0 <= s.from
        BY <1>4, <1>7, <1>9, <2>1, <3>2
      <4> QED BY <4>1
    <3> QED BY <1>1, <3>1, <3>2
  <2>2. CASE e \in kept
    <3>1. e.from \in Nat /\ e.from >= t0
      BY <1>4, <1>10, <2>2
    <3>2. CASE s \in stays /\ s.from < t0
      BY <1>5, <3>1, <3>2
    <3>3. CASE s \in d.stays
      <4>1. s.from \in Nat /\ s.from <= e.from
        BY <1>7, <1>10, <2>2, <3>3
      <4> QED BY <3>1, <4>1
    <3> QED BY <1>1, <3>2, <3>3
  <2>3. CASE e \in written
    <3>1. CASE s \in stays /\ s.from < t0
      <4>1. e.from \in Nat /\ t0 <= e.from /\ s.from \in Nat
        BY <1>5, <1>12, <2>3, <3>1
      <4> QED BY <3>1, <4>1
    <3>2. CASE s \in d.stays
      BY <1>12, <2>3, <3>2
    <3> QED BY <1>1, <3>1, <3>2
  <2> QED BY <1>1, <2>1, <2>2, <2>3
<1>17. ASSUME NEW e \in r.trips, NEW f \in r.trips PROVE e = f \/ e.to <= f.from \/ f.to <= e.from
  <2>1. CASE e \in trips /\ f \in trips
    BY <2>1 DEF RowsIInv, Owning
  <2>2. CASE e \in written /\ f \in written
    BY <1>13, <2>2
  <2>3. ASSUME NEW x \in before, NEW y \in written PROVE x.to <= y.from
    BY <1>4, <1>9, <1>12, <2>3
  <2>4. ASSUME NEW x \in kept, NEW y \in written PROVE y.to <= x.from
    BY <1>10, <1>12, <2>4
  <2> QED BY <1>1, <1>9, <1>10, <2>1, <2>2, <2>3, <2>4
<1>18. ASSUME NEW e \in r.trips, NEW s \in r.stays, e.from < s.from, NEW t \in e.fixes
       PROVE  r.tripOf[t] = e.id \/ t \in splits \cap {e.from, e.to}
  <2>0. t \in Times /\ t \in Nat
    BY <1>3, <1>15
  <2>1. CASE e \in before
    <3>1. t \in Nat /\ t <= e.to /\ e.to \in Nat /\ e.to <= t0
      BY <1>4, <1>9, <1>15, <2>0, <2>1
    <3>2. tripOf[t] = e.id \/ t \in splits \cap {e.from, e.to}
      BY <1>9, <2>1 DEF RowsIInv, Owning
    <3>3. CASE holders(t) = {}
      <4>1. ~Unlinked(t0, t)
        BY <3>1 DEF Unlinked
      <4>2. tripOf[t] = e.id => tripOf[t] \in {x.id : x \in left \cup written}
        BY <2>1
      <4> HIDE DEF holders, holder, left
      <4>3. tripOf[t] = e.id => r.tripOf[t] = tripOf[t]
        BY <1>2, <2>0, <3>3, <4>1, <4>2
      <4> QED BY <3>2, <4>3
    <3>4. ASSUME NEW w \in holders(t) PROVE t \in splits \cap {e.from, e.to}
      <4>1. w \in written /\ t \in w.fixes
        OBVIOUS
      <4>2. w.from \in Nat /\ t0 <= w.from /\ w.from <= t
        BY <1>12, <4>1
      <4>3. t = t0 /\ w.from = t0 /\ t = e.to
        BY <3>1, <4>2
      <4>4. PICK q \in d.stays \cup d.arrival :
               q.from <= w.from /\ (q.from = w.from => w.from \in splits)
        BY <1>12, <4>1
      <4>5. q.from = w.from
        BY <1>7, <4>3, <4>4
      <4> QED BY <4>3, <4>4, <4>5
    <3> QED BY <3>3, <3>4
  <2>2. CASE e \in kept
    <3>1. e.from \in Nat /\ e.from >= t0
      BY <1>4, <1>10, <2>2
    <3>2. CASE s \in stays /\ s.from < t0
      BY <1>5, <1>18, <3>1, <3>2
    <3>3. CASE s \in d.stays
      <4>1. s.from \in Nat /\ s.from <= e.from
        BY <1>7, <1>10, <2>2, <3>3
      <4> QED BY <1>18, <3>1, <4>1
    <3> QED BY <1>1, <3>2, <3>3
  <2>3. CASE e \in written
    <3>1. e \in holders(t)
      BY <1>18, <2>3
    <3>2. CASE \E w \in holders(t) : w # e
      BY <1>13, <1>18, <2>3, <3>2
    <3>3. CASE holders(t) = {e}
      <4>1. r.tripOf[t] = holder(t).id
        <5> HIDE DEF holders, holder, left
        <5> QED BY <1>2, <2>0, <3>1
      <4>2. holder(t) = e
        <5>1. \A v \in holders(t) : laterWins = (v.from <= e.from) \/ v = e
          BY <3>3
        <5> QED BY <3>3, <5>1
      <4> QED BY <4>1, <4>2
    <3> QED BY <3>1, <3>2, <3>3
  <2> QED BY <1>1, <2>1, <2>2, <2>3
<1>19. Placed(r.trips, r.stays, Times)
  BY <1>15, <1>16 DEF Placed
<1>20. Owning(r.trips, r.stays, r.tripOf, splits)
  BY <1>17, <1>18 DEF Owning
<1> QED BY <1>14, <1>19, <1>20

LEMMA RowsInitIInv == Init => RowsIInv
<1> SUFFICES ASSUME Init PROVE RowsIInv
  OBVIOUS
<1>1. EditsIInv
  BY EditsInitIInv
<1>2. stays = {} /\ trips = {} /\ nextId = 1
  BY DEF Init
<1> QED BY <1>1, <1>2 DEF RowsIInv, Identified, Placed, Owning

\* A fix more changes nothing about the rows and their fixes.
LEMMA RowsStoreIInv == ASSUME RowsIInv, EditsIInv', MovesNothing PROVE RowsIInv'
<1>1. /\ UNCHANGED <<stays, trips, nextId, force>> /\ Times \subseteq Times'
      /\ \A t \in Times : tripOf'[t] = tripOf[t]
  BY DEF MovesNothing
<1>2. Identified(trips', nextId')
  BY <1>1 DEF RowsIInv
<1>3. Placed(trips', stays', Times')
  BY <1>1 DEF RowsIInv, Placed
<1>4. Owning(trips', stays', tripOf', force')
  <2>1. \A e \in trips : e.fixes \subseteq Times
    BY DEF RowsIInv, Placed
  <2> QED BY <1>1, <2>1 DEF RowsIInv, Owning
<1> QED BY <1>2, <1>3, <1>4 DEF RowsIInv

\* The rows of a run, a merge and a split.
LEMMA RowsProcessIInv ==
    ASSUME RowsIInv, EditsIInv', NEW t0, NEW ranges \in SUBSET (Times \X Times), NEW splits,
           \/ t0 = Epoch
           \/ (\E s \in stays : t0 = s.from) /\ splits = force,
           NEW discards, Process(t0, ranges, splits, discards, trips, tripOf),
           fixes' = fixes, force' = splits
    PROVE  RowsIInv'
<1>1. PICK r \in Reconciled(t0, ranges, splits, discards, trips, tripOf) :
         stays' = r.stays /\ trips' = r.trips /\ nextId' = r.nextId /\ tripOf' = r.tripOf
  BY DEF Process
<1>2. InTime(fixes) /\ Times \subseteq Nat
  BY TimesArePositive DEF RowsIInv, EditsIInv
<1>3. t0 \in Nat
  <2>1. \A s \in stays : s.from \in Nat
    BY <1>2 DEF RowsIInv, EditsIInv, Bounded
  <2> QED BY <2>1 DEF Epoch
<1>4. ranges \in SUBSET (Int \X Int)
  <2>1. Times \subseteq Int
    BY <1>2
  <2> QED BY <2>1
<1>5. PICK d : d = Detect(Window(t0), ranges, splits, discards)
  OBVIOUS
<1>6. PassFrom(t0, d, splits)
  BY <1>2, <1>3, <1>4, <1>5, WindowPass
<1>7. PICK m \in GreedyMatchings(Existing(t0, trips), d.trips), laterWins \in BOOLEAN :
         r = ReconciledBy(t0, d, Existing(t0, trips), trips, tripOf, m, laterWins)
  BY <1>1, <1>5, OneReconciliation DEF ReconciledWith
<1>8. /\ Identified(r.trips, r.nextId) /\ Placed(r.trips, r.stays, Times)
      /\ Owning(r.trips, r.stays, r.tripOf, splits)
  BY <1>3, <1>6, <1>7, ReconciledOwns
<1>9. Times' = Times
  BY DEF Times
<1> QED BY <1>1, <1>8, <1>9 DEF RowsIInv

LEMMA RowsRunIInv == ASSUME RowsIInv, Run PROVE RowsIInv'
<1>1. EditsIInv /\ EditsIInv'
  BY EditsRunIInv DEF RowsIInv
<1>2. PICK t0 : t0 = RewindStart(Min(dirty))
  OBVIOUS
<1>3. /\ Process(t0, suppress, force, discard, trips, tripOf)
      /\ fixes' = fixes /\ force' = force
  BY <1>2 DEF Run, overrides
<1>4. t0 = Epoch \/ \E s \in stays : t0 = s.from
  BY <1>1, <1>2, WindowsOpenAtStays DEF EditsIInv
<1>5. suppress \in SUBSET (Times \X Times)
  BY <1>1 DEF EditsIInv
<1> QED BY <1>1, <1>3, <1>4, <1>5, RowsProcessIInv

LEMMA RowsMergeIInv == ASSUME RowsIInv, NEW e \in trips, NEW f \in trips, Merge(e, f) PROVE RowsIInv'
<1>1. EditsIInv /\ EditsIInv'
  BY EditsMergeIInv DEF RowsIInv
<1>2. PICK ranges, splits : ranges = suppress' /\ splits = force'
  OBVIOUS
<1>3. /\ Process(Epoch, ranges, splits, discard, trips, tripOf)
      /\ fixes' = fixes /\ ranges = suppress \cup {<<e.to, f.from>>}
  BY <1>2 DEF Merge
<1>4. ranges \in SUBSET (Times \X Times)
  BY <1>1, <1>3 DEF EditsIInv, Bounded
<1> QED BY <1>1, <1>2, <1>3, <1>4, RowsProcessIInv

LEMMA RowsSplitIInv == ASSUME RowsIInv, NEW e \in trips, NEW t \in Times, Split(e, t) PROVE RowsIInv'
<1>1. EditsIInv /\ EditsIInv'
  BY EditsSplitIInv DEF RowsIInv
<1>2. PICK splits : splits = force'
  OBVIOUS
<1>3. Process(Epoch, suppress, splits, discard, trips, tripOf) /\ fixes' = fixes
  BY <1>2 DEF Split
<1>4. suppress \in SUBSET (Times \X Times)
  BY <1>1 DEF EditsIInv
<1> QED BY <1>1, <1>2, <1>3, <1>4, RowsProcessIInv

LEMMA RowsTagIInv == ASSUME RowsIInv, NEW e \in trips, Tag(e) PROVE RowsIInv'
<1>1. EditsIInv /\ EditsIInv'
  BY EditsTagIInv DEF RowsIInv
<1>2. PICK f : f = [e EXCEPT !.human = TRUE]
  OBVIOUS
<1>3. /\ trips' = (trips \ {e}) \cup {f}
      /\ UNCHANGED <<fixes, stays, tripOf, nextId, force>>
  BY <1>2 DEF Tag, overrides
<1>4. f.id = e.id /\ f.from = e.from /\ f.to = e.to /\ f.fixes = e.fixes
  <2>1. DOMAIN e = TripRowFields
    BY <1>1 DEF EditsIInv, Bounded
  <2> QED BY <1>2, <2>1 DEF TripRowFields
<1>5. Times' = Times
  BY <1>3 DEF Times
<1>6. Identified(trips', nextId')
  BY <1>3, <1>4 DEF RowsIInv, Identified
<1>7. Placed(trips', stays', Times')
  BY <1>3, <1>4, <1>5 DEF RowsIInv, Placed
<1>8. Owning(trips', stays', tripOf', force')
  BY <1>3, <1>4 DEF RowsIInv, Owning
<1> QED BY <1>1, <1>6, <1>7, <1>8 DEF RowsIInv

LEMMA RowsDeleteIInv == ASSUME RowsIInv, NEW e \in trips, Delete(e) PROVE RowsIInv'
<1>1. EditsIInv'
  BY EditsDeleteIInv DEF RowsIInv
<1>2. /\ trips' = trips \ {e} /\ UNCHANGED <<fixes, stays, nextId, force>>
      /\ tripOf' = [t \in Times |-> IF tripOf[t] = e.id THEN 0 ELSE tripOf[t]]
  BY DEF Delete
<1>3. Times' = Times
  BY <1>2 DEF Times
<1>4. Identified(trips', nextId')
  BY <1>2 DEF RowsIInv, Identified
<1>5. Placed(trips', stays', Times')
  BY <1>2, <1>3 DEF RowsIInv, Placed
<1>6. ASSUME NEW f \in trips', NEW t \in f.fixes, tripOf[t] = f.id PROVE tripOf'[t] = f.id
  <2>1. f \in trips /\ f # e /\ t \in Times
    BY <1>2 DEF RowsIInv, Placed
  <2>2. f.id # e.id
    BY <2>1 DEF RowsIInv, Identified
  <2> QED BY <1>2, <1>6, <2>1, <2>2
<1>7. Owning(trips', stays', tripOf', force')
  BY <1>2, <1>6 DEF RowsIInv, Owning
<1> QED BY <1>1, <1>4, <1>5, <1>7 DEF RowsIInv

LEMMA RowsNextIInv == RowsIInv /\ [Next]_vars => RowsIInv'
<1> SUFFICES ASSUME RowsIInv, [Next]_vars PROVE RowsIInv'
  OBVIOUS
<1>0. EditsIInv /\ EditsIInv'
  BY EditsNextIInv DEF RowsIInv
<1>1. CASE UNCHANGED vars
  <2>1. UNCHANGED <<fixes, stays, trips, tripOf, nextId, force>>
    BY <1>1 DEF vars, output, overrides
  <2>2. Times' = Times
    BY <2>1 DEF Times
  <2> QED BY <1>0, <2>1, <2>2 DEF RowsIInv
<1>2. CASE \E leg \in Legs[Len(fixes)] : Deliver(leg)
  BY <1>0, <1>2, DeliverMovesNothing, RowsStoreIInv
<1>3. CASE \E i \in 1 .. Len(fixes) - 1 : \E t \in fixes[i].t + 1 .. fixes[i + 1].t - 1 :
              \E dx \in LateSteps : DeliverLate(i, t, fixes[i].x + dx)
  BY <1>0, <1>3, DeliverLateMovesNothing, RowsStoreIInv
<1>4. CASE Run
  BY <1>4, RowsRunIInv
<1>5. CASE \E e \in trips : Tag(e)
  BY <1>5, RowsTagIInv
<1>6. CASE \E e \in trips : Delete(e)
  BY <1>6, RowsDeleteIInv
<1>7. CASE \E e, f \in trips : Merge(e, f)
  BY <1>7, RowsMergeIInv
<1>8. CASE \E e \in trips : \E t \in Times : Split(e, t)
  BY <1>8, RowsSplitIInv
<1> QED BY <1>1, <1>2, <1>3, <1>4, <1>5, <1>6, <1>7, <1>8 DEF Next

\* No stretch of the track is ever in two trips, and points.trip_id names of each fix the one
\* trip that has it, but for a split between two, through every delivery, run, tag, merge,
\* split and deletion, in whatever order the rows are matched and written, for every track
\* and all parameters of the detector (detect, plan_reconcile, _process_device, delete_trip).
THEOREM TripsAlwaysOwnTheirFixes == Spec => []TripsOwnTheirFixes
<1>1. Spec => []RowsIInv
  BY RowsInitIInv, RowsNextIInv, PTL DEF Spec
<1>2. RowsIInv => TripsOwnTheirFixes
  BY DEF RowsIInv, Owning, TripsOwnTheirFixes
<1> QED BY <1>1, <1>2, PTL
=============================================================================

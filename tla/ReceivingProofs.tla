--------------------------- MODULE ReceivingProofs ---------------------------
(***************************************************************************)
(* Proofs about receiving fixes from phones: what a request knows of its   *)
(* credential, alias and account, what it stores and what its phone drops  *)
(* (Ingest), and the failed passwords of an address (IngestLimiter), for   *)
(* every number of requests, phones, messages, devices and credentials.    *)
(***************************************************************************)
EXTENDS Ingest, IngestLimiter, SequenceTheorems, FiniteSetTheorems, TLAPS

CredRow == [dev : Dev \cup {None}, live : BOOLEAN, gen : Nat, secret : Nat]
AliasRow == [dev : Dev \cup {None}, on : BOOLEAN]
RawRow == [ns : ({"device"} \X Dev) \cup ({"credential"} \X Cred), msg : Msg]

RequestFields == {"at", "msg", "gone", "cred", "secret", "row", "ver", "dev", "fresh", "valid",
                  "shared", "provision", "replay"}

\* A credential that a phone may have is issued, or is the migrated one.
Known(c) == cred[c].dev # None \/ Legacy(c)

SettingsOK ==
    /\ account \in [on : BOOLEAN, ver : Nat]
    /\ cred \in [Cred -> CredRow] /\ cred[LegacyCred].dev = None
    /\ alias \in [Label -> AliasRow] /\ \A l \in Label : alias[l].on => alias[l].dev # None
    /\ config \in [Phone -> [cred : Cred, secret : Nat]]
    /\ \A p \in Phone : Known(config[p].cred)

StoreOK == raw \in Seq(RawRow) /\ DOMAIN req = Req

\* A point at the time of message m.
Placed(d, m) == \E p \in points : p.dev = d /\ p.time = TimeOf[m]

RowOf(q) == [ns |-> IF q.dev # None THEN <<"device", q.dev>> ELSE <<"credential", q.cred>>,
             msg |-> q.msg]

\* The row a request has read is a past state of its credential.
HasRead(q) ==
    /\ q.row \in CredRow /\ q.row.dev \in Dev \cup {None}
    /\ IF Legacy(q.cred) THEN q.row.dev = None ELSE q.row.dev # None
    /\ q.row.gen <= cred[q.cred].gen
    /\ q.row.gen = cred[q.cred].gen => q.row.secret = cred[q.cred].secret

\* A request that has resolved its alias holds the provision lock, so the alias stays.
HasAlias(q) ==
    /\ q.fresh => q.provision /\ q.dev # None
    /\ Legacy(q.cred) /\ q.dev # None /\ ~q.fresh =>
         LET l == LabelOf[q.msg] IN q.provision /\ alias[l].on /\ alias[l].dev = q.dev

\* What a request knows is true of the database while its locks hold.
Sound(q) ==
    /\ DOMAIN q = RequestFields
    /\ q.at \in {"arrived", "verifying", "waiting", "open", "resolved", "admitted", "stored",
                 "committed"}
    /\ q.msg \in Msg /\ q.cred \in Cred /\ Known(q.cred)
    /\ q.at # "arrived" => HasRead(q)
    /\ q.at \in {"arrived", "verifying", "waiting", "open"} => ~q.provision /\ ~q.fresh
    /\ q.at \in InTransaction =>
         account = [on |-> TRUE, ver |-> q.ver] /\ KindOf[q.msg] # "poison"
    /\ q.at \in InTransaction \cup {"committed"} => (KindOf[q.msg] = "fix" => q.valid)
    /\ q.at \in {"resolved", "admitted", "stored", "committed"} =>
         q.dev \in Dev \cup {None} /\ (q.valid => q.dev # None)
    /\ q.at \in {"resolved", "admitted", "stored"} => HasAlias(q)
    /\ q.at \in {"admitted", "stored"} =>
         q.shared /\ cred[q.cred].live /\ cred[q.cred].gen = q.row.gen
    /\ q.at = "stored" =>
         IF q.replay THEN KindOf[q.msg] = "fix" => Placed(q.dev, q.msg)
                     ELSE RowOf(q) \notin StoredRows
    /\ q.at = "committed" => (KindOf[q.msg] = "fix" => Placed(q.dev, q.msg))

Requests == \A r \in Req : req[r] = NoRequest \/ Sound(req[r])

Exclusive ==
    /\ \A r, o \in Req : HoldsProvisionLock(r) /\ HoldsProvisionLock(o) => r = o
    /\ \A r, o \in Req : HoldsUsage(r) /\ HoldsUsage(o) => r = o

\* A stored fix has its point, whatever has become of its raw message.
RowsPlaced ==
    \A x \in StoredRows : KindOf[x.msg] = "fix" => Placed(x.ns[2], x.msg)

DroppedOnce == \A a \in acked : a.msg \notin held

IngestIInv ==
    /\ SettingsOK /\ StoreOK /\ Requests /\ Exclusive
    /\ RowsPlaced /\ DroppedOnce /\ StoredOnce /\ DeliveredIsStored

-----------------------------------------------------------------------------

LEMMA InitIInv == Init => IngestIInv
<1> SUFFICES ASSUME Init PROVE IngestIInv
  OBVIOUS
<1> DEFINE d0 == CHOOSE d \in Dev : TRUE
<1>1. d0 \in Dev /\ d0 # None
  BY IngestAssumption
<1>2. /\ account = [on |-> TRUE, ver |-> 1]
      /\ cred = [c \in Cred |-> LET used == \E p \in Phone : FirstCred[p] = c IN
           [dev |-> IF used /\ ~Legacy(c) THEN d0 ELSE None, live |-> used, gen |-> 1, secret |-> 1]]
      /\ config = [p \in Phone |-> [cred |-> FirstCred[p], secret |-> 1]]
      /\ alias = [l \in Label |-> [dev |-> None, on |-> FALSE]]
      /\ raw = <<>> /\ points = {} /\ unpoked = {} /\ acked = {}
      /\ req = [r \in Req |-> NoRequest]
  BY DEF Init
<1> HIDE DEF d0
<1>3. \A c \in Cred : /\ cred[c] \in CredRow
                      /\ (\E p \in Phone : FirstCred[p] = c) => Known(c)
  BY <1>1, <1>2 DEF CredRow, Known
<1>4. SettingsOK
  <2>1. cred[LegacyCred].dev = None
    BY <1>2, IngestAssumption DEF Legacy
  <2>2. \A p \in Phone : FirstCred[p] \in Cred /\ Known(FirstCred[p])
    BY <1>3, IngestAssumption
  <2>3. cred \in [Cred -> CredRow]
    BY <1>2, <1>3
  <2> QED BY <1>2, <2>1, <2>2, <2>3 DEF SettingsOK, AliasRow
<1>5. StoreOK /\ StoredOnce /\ StoredRows = {}
  BY <1>2 DEF StoreOK, StoredOnce, StoredRows
<1>6. Requests /\ DroppedOnce /\ DeliveredIsStored
  BY <1>2 DEF Requests, DroppedOnce, DeliveredIsStored
<1>7. Exclusive
  BY <1>2 DEF Exclusive, HoldsProvisionLock, HoldsUsage, InTransaction, NoRequest
<1> QED BY <1>4, <1>5, <1>6, <1>7 DEF IngestIInv, RowsPlaced

\* A step of one request that leaves it as q, and the database alone.
LEMMA OneRequest ==
    ASSUME IngestIInv, NEW r \in Req, NEW q, req' = [req EXCEPT ![r] = q],
           UNCHANGED <<account, cred, devices, alias, config, raw, points>>,
           unpoked' \subseteq unpoked, q = NoRequest \/ Sound(q),
           q.at \in InTransaction /\ q.provision => HoldsProvisionLock(r) \/ ProvisionFree,
           q.at = "stored" => HoldsUsage(r) \/ UsageFree,
           held' \subseteq held,
           \A a \in acked' \ acked :
               a.msg \notin held' /\ (KindOf[a.msg] = "fix" => Placed(a.dev, a.msg) /\ unpoked' = {})
    PROVE  IngestIInv'
<1>1. DOMAIN req = Req
  BY DEF IngestIInv, StoreOK
<1>2. DOMAIN req' = Req /\ req'[r] = q /\ \A o \in Req \ {r} : req'[o] = req[o]
  BY <1>1
<1>3. SettingsOK' /\ StoreOK' /\ StoredOnce' /\ StoredRows' = StoredRows
  BY <1>2 DEF IngestIInv, SettingsOK, StoreOK, Known, StoredOnce, StoredRows
<1>4. \A d, m : Placed(d, m)' = Placed(d, m)
  BY DEF Placed
<1>5. RowsPlaced'
  BY <1>3, <1>4 DEF IngestIInv, RowsPlaced
<1>6. \A x : Sound(x)' = Sound(x)
  BY <1>3, <1>4 DEF Sound, Known, HasRead, HasAlias
<1>7. Requests'
  BY <1>2, <1>6 DEF IngestIInv, Requests
<1>8. Exclusive'
  BY <1>2 DEF IngestIInv, Exclusive, HoldsProvisionLock, HoldsUsage, ProvisionFree, UsageFree
<1>9. DroppedOnce'
  BY DEF IngestIInv, DroppedOnce
<1>10. DeliveredIsStored'
  <2> SUFFICES ASSUME NEW a \in acked', KindOf[a.msg] = "fix"
               PROVE  \E p \in points' \ unpoked' : p.dev = a.dev /\ p.time = TimeOf[a.msg]
    BY DEF DeliveredIsStored
  <2>1. CASE a \in acked
    BY <2>1 DEF IngestIInv, DeliveredIsStored
  <2>2. CASE a \notin acked
    BY <2>2 DEF Placed
  <2> QED BY <2>1, <2>2
<1> QED BY <1>3, <1>5, <1>7, <1>8, <1>9, <1>10 DEF IngestIInv

\* A request that is refused, or that has nothing to store.
LEMMA Refused ==
    ASSUME IngestIInv, NEW r \in Req, NEW status, req[r] # NoRequest, Answer(r, status),
           UNCHANGED <<account, cred, devices, alias, config, raw, points, unpoked>>,
           status = 200 => KindOf[req[r].msg] # "fix"
    PROVE  IngestIInv'
<1> DEFINE m == req[r].msg
<1>1. /\ req' = [req EXCEPT ![r] = NoRequest]
      /\ held' = IF ~req[r].gone /\ Drops(SenderOf[m], status) THEN held \ {m} ELSE held
      /\ acked' = IF ~req[r].gone /\ status = 200 THEN acked \cup {[msg |-> m, dev |-> req[r].dev]}
                                                 ELSE acked
  BY DEF Answer
<1>2. held' \subseteq held
  BY <1>1
<1>3. \A a \in acked' \ acked : a.msg = m /\ status = 200 /\ ~req[r].gone
  BY <1>1
<1>4. \A a \in acked' \ acked : a.msg \notin held' /\ KindOf[a.msg] # "fix"
  BY <1>1, <1>3 DEF Drops
<1>5. \A a \in acked' \ acked :
        a.msg \notin held' /\ (KindOf[a.msg] = "fix" => Placed(a.dev, a.msg) /\ unpoked' = {})
  BY <1>4
<1>6. NoRequest.at = "idle"
  BY DEF NoRequest
<1> HIDE DEF m
<1>7. PICK q : q = NoRequest
  OBVIOUS
<1>8. req' = [req EXCEPT ![r] = q]
  BY <1>1, <1>7
<1>9. q.at \notin InTransaction /\ q.at # "stored"
  BY <1>6, <1>7 DEF InTransaction
<1>10. q.at \in InTransaction /\ q.provision => HoldsProvisionLock(r) \/ ProvisionFree
  BY <1>9
<1>11. q.at = "stored" => HoldsUsage(r) \/ UsageFree
  BY <1>9
<1>12. unpoked' \subseteq unpoked
  OBVIOUS
<1>13. q = NoRequest \/ Sound(q)
  BY <1>7
<1> QED BY <1>8, <1>2, <1>5, <1>10, <1>11, <1>12, <1>13, OneRequest

-----------------------------------------------------------------------------
(***************************************************************************)
(* The steps of one request                                                *)
(***************************************************************************)
\* A step that goes on with the request as q, in the same transaction or a new one.
LEMMA GoesOn ==
    ASSUME IngestIInv, NEW r \in Req, NEW q, req' = [req EXCEPT ![r] = q],
           UNCHANGED <<settings, raw, points, held, unpoked, acked>>, Sound(q),
           q.at \in InTransaction /\ q.provision => HoldsProvisionLock(r) \/ ProvisionFree,
           q.at = "stored" => HoldsUsage(r) \/ UsageFree
    PROVE  IngestIInv'
<1>1. UNCHANGED <<account, cred, devices, alias, config, raw, points>>
  BY DEF settings
<1>2. unpoked' \subseteq unpoked /\ held' \subseteq held
  OBVIOUS
<1>3. \A a \in acked' \ acked :
        a.msg \notin held' /\ (KindOf[a.msg] = "fix" => Placed(a.dev, a.msg) /\ unpoked' = {})
  OBVIOUS
<1>4. q = NoRequest \/ Sound(q)
  OBVIOUS
<1> QED BY <1>1, <1>2, <1>3, <1>4, OneRequest

LEMMA SendKeeps ==
    ASSUME IngestIInv, NEW r \in Req, NEW m \in Msg, Send(r, m)  PROVE IngestIInv'
<1>1. PICK q : q = [at |-> "arrived", msg |-> m, gone |-> FALSE,
         cred |-> config[SenderOf[m]].cred, secret |-> config[SenderOf[m]].secret,
         row |-> None, ver |-> 0, dev |-> None, fresh |-> FALSE, valid |-> FALSE,
         shared |-> FALSE, provision |-> FALSE, replay |-> FALSE]
  OBVIOUS
<1>2. req' = [req EXCEPT ![r] = q] /\ UNCHANGED <<settings, raw, points, held, unpoked, acked>>
  BY <1>1 DEF Send
<1>3. SenderOf[m] \in Phone
  BY IngestAssumption
<1>4. config[SenderOf[m]].cred \in Cred /\ Known(config[SenderOf[m]].cred)
  BY <1>3 DEF IngestIInv, SettingsOK
<1>5. /\ DOMAIN q = RequestFields /\ q.at = "arrived" /\ q.msg = m /\ q.cred = config[SenderOf[m]].cred
      /\ ~q.provision /\ ~q.fresh
  BY <1>1 DEF RequestFields
<1>6. Sound(q)
  BY <1>4, <1>5 DEF Sound, InTransaction
<1>7. q.at \in InTransaction /\ q.provision => HoldsProvisionLock(r) \/ ProvisionFree
  BY <1>5 DEF InTransaction
<1>8. q.at = "stored" => HoldsUsage(r) \/ UsageFree
  BY <1>5
<1> QED BY <1>2, <1>6, <1>7, <1>8, GoesOn

\* A request in flight, and the fields that its step leaves alone.
LEMMA InFlight ==
    ASSUME IngestIInv, NEW r \in Req, req[r] # NoRequest
    PROVE  Sound(req[r]) /\ DOMAIN req[r] = RequestFields
BY DEF IngestIInv, Requests, Sound

LEMMA Busied == \A r \in Req : req[r].at # "idle" => req[r] # NoRequest
BY DEF NoRequest

LEMMA LeaveKeeps ==
    ASSUME IngestIInv, NEW r \in Req, Leave(r)  PROVE IngestIInv'
<1>1. Sound(req[r]) /\ DOMAIN req[r] = RequestFields
  BY InFlight DEF Leave
<1>2. PICK q : q = [req[r] EXCEPT !.gone = TRUE]
  OBVIOUS
<1>3. req' = [req EXCEPT ![r] = q] /\ UNCHANGED <<settings, raw, points, held, unpoked, acked>>
  BY <1>2 DEF Leave, IngestIInv, StoreOK
<1>4. /\ DOMAIN q = RequestFields
      /\ \A f \in RequestFields \ {"gone"} : q[f] = req[r][f]
  BY <1>1, <1>2
<1>5. /\ q.at = req[r].at /\ q.msg = req[r].msg /\ q.cred = req[r].cred /\ q.row = req[r].row
      /\ q.ver = req[r].ver /\ q.dev = req[r].dev /\ q.fresh = req[r].fresh /\ q.valid = req[r].valid
      /\ q.shared = req[r].shared /\ q.provision = req[r].provision /\ q.replay = req[r].replay
  BY <1>4 DEF RequestFields
<1>6. HasRead(q) = HasRead(req[r]) /\ HasAlias(q) = HasAlias(req[r]) /\ RowOf(q) = RowOf(req[r])
  BY <1>5 DEF HasRead, HasAlias, RowOf
<1>7. Sound(q)
  BY <1>1, <1>4, <1>5, <1>6 DEF Sound
<1>8. q.at \in InTransaction /\ q.provision => HoldsProvisionLock(r) \/ ProvisionFree
  BY <1>5 DEF HoldsProvisionLock
<1>9. q.at = "stored" => HoldsUsage(r) \/ UsageFree
  BY <1>5 DEF HoldsUsage
<1> QED BY <1>3, <1>7, <1>8, <1>9, GoesOn

LEMMA LookUpKeeps ==
    ASSUME IngestIInv, NEW r \in Req, LookUp(r)  PROVE IngestIInv'
<1> DEFINE c == req[r].cred
<1>1. req[r].at = "arrived"
  BY DEF LookUp
<1>2. req[r] # NoRequest
  BY <1>1, Busied
<1>3. Sound(req[r]) /\ DOMAIN req[r] = RequestFields
  BY <1>2, InFlight
<1>4. CASE Answer(r, 401)
  <2>1. UNCHANGED <<account, cred, devices, alias, config, raw, points, unpoked>>
    BY DEF LookUp, settings
  <2> QED BY <1>2, <1>4, <2>1, Refused
<1>5. CASE ~Answer(r, 401)
  <2>1. PICK q : q = [req[r] EXCEPT !.at = "verifying", !.row = cred[c], !.ver = account.ver]
    OBVIOUS
  <2>2. req' = [req EXCEPT ![r] = q] /\ UNCHANGED <<settings, raw, points, held, unpoked, acked>>
    BY <1>5, <2>1 DEF LookUp, IngestIInv, StoreOK
  <2>3. /\ DOMAIN q = RequestFields /\ q.at = "verifying" /\ q.row = cred[c]
        /\ q.msg = req[r].msg /\ q.cred = c
        /\ q.provision = req[r].provision /\ q.fresh = req[r].fresh
    BY <1>3, <2>1 DEF RequestFields
  <2>4. c \in Cred /\ cred[c] \in CredRow
    BY <1>3 DEF Sound, IngestIInv, SettingsOK
  <2>5. HasRead(q)
    <3>1. cred[c].dev \in Dev \cup {None} /\ cred[c].gen \in Nat
      BY <2>4 DEF CredRow
    <3>2. IF Legacy(c) THEN cred[c].dev = None ELSE cred[c].dev # None
      BY <1>5, <2>4 DEF LookUp, Legacy, IngestIInv, SettingsOK
    <3> HIDE DEF c
    <3> QED BY <2>3, <2>4, <3>1, <3>2 DEF HasRead
  <2>6. Sound(q)
    BY <1>1, <1>3, <2>3, <2>5 DEF Sound, InTransaction
  <2>7. q.at \in InTransaction /\ q.provision => HoldsProvisionLock(r) \/ ProvisionFree
    BY <2>3 DEF InTransaction
  <2>8. q.at = "stored" => HoldsUsage(r) \/ UsageFree
    BY <2>3
  <2> QED BY <2>2, <2>6, <2>7, <2>8, GoesOn
<1> QED BY <1>4, <1>5

LEMMA VerifyKeeps ==
    ASSUME IngestIInv, NEW r \in Req, Verify(r)  PROVE IngestIInv'
<1>1. req[r].at = "verifying"
  BY DEF Verify
<1>2. req[r] # NoRequest
  BY <1>1, Busied
<1>3. Sound(req[r]) /\ DOMAIN req[r] = RequestFields
  BY <1>2, InFlight
<1>4. CASE Answer(r, 401)
  <2>1. UNCHANGED <<account, cred, devices, alias, config, raw, points, unpoked>>
    BY DEF Verify, settings
  <2> QED BY <1>2, <1>4, <2>1, Refused
<1>5. CASE ~Answer(r, 401)
  <2>1. PICK q : q = [req[r] EXCEPT !.at = "waiting"]
    OBVIOUS
  <2>2. req' = [req EXCEPT ![r] = q] /\ UNCHANGED <<settings, raw, points, held, unpoked, acked>>
    BY <1>5, <2>1 DEF Verify, IngestIInv, StoreOK
  <2>3. /\ DOMAIN q = RequestFields /\ q.at = "waiting" /\ q.row = req[r].row
        /\ q.msg = req[r].msg /\ q.cred = req[r].cred
        /\ q.provision = req[r].provision /\ q.fresh = req[r].fresh
    BY <1>3, <2>1 DEF RequestFields
  <2>4. HasRead(q)
    BY <1>1, <1>3, <2>3 DEF HasRead, Sound
  <2>5. Sound(q)
    BY <1>1, <1>3, <2>3, <2>4 DEF Sound, InTransaction
  <2>6. q.at \in InTransaction /\ q.provision => HoldsProvisionLock(r) \/ ProvisionFree
    BY <2>3 DEF InTransaction
  <2>7. q.at = "stored" => HoldsUsage(r) \/ UsageFree
    BY <2>3
  <2> QED BY <2>2, <2>5, <2>6, <2>7, GoesOn
<1> QED BY <1>4, <1>5

\* What is refused for want of a slot, thrown away, or rolled back.
LEMMA NothingStored ==
    ASSUME IngestIInv, NEW r \in Req,
           Busy(r) \/ DropPoison(r) \/ Discard(r) \/ Fault(r)
    PROVE  IngestIInv'
<1>1. req[r] # NoRequest
  <2>1. req[r].at \in {"arrived", "waiting", "admitted", "open", "resolved", "stored"}
    BY DEF Busy, DropPoison, Discard, Fault, Open, InTransaction
  <2> QED BY <2>1, Busied
<1>2. UNCHANGED <<account, cred, devices, alias, config, raw, points, unpoked>>
  BY DEF Busy, DropPoison, Discard, Fault, settings
<1>3. \E status : Answer(r, status) /\ (status = 200 => KindOf[req[r].msg] # "fix")
  <2>1. CASE Busy(r)
    BY <2>1 DEF Busy
  <2>2. CASE DropPoison(r)
    BY <2>2 DEF DropPoison
  <2>3. CASE Discard(r)
    BY <2>3 DEF Discard
  <2>4. CASE Fault(r)
    <3>1. PICK fault : Answer(r, FaultStatus(r, fault))
      BY <2>4 DEF Fault
    <3>2. FaultStatus(r, fault) # 200
      BY DEF FaultStatus
    <3> QED BY <3>1, <3>2
  <2> QED BY <2>1, <2>2, <2>3, <2>4
<1> QED BY <1>1, <1>2, <1>3, Refused

LEMMA BeginKeeps ==
    ASSUME IngestIInv, NEW r \in Req, Begin(r)  PROVE IngestIInv'
<1>1. req[r].at = "waiting" /\ KindOf[req[r].msg] # "poison"
  BY DEF Begin
<1>2. req[r] # NoRequest
  BY <1>1, Busied
<1>3. Sound(req[r]) /\ DOMAIN req[r] = RequestFields
  BY <1>2, InFlight
<1>4. CASE Answer(r, 401)
  <2>1. UNCHANGED <<account, cred, devices, alias, config, raw, points, unpoked>>
    BY DEF Begin, settings
  <2> QED BY <1>2, <1>4, <2>1, Refused
<1>5. CASE ~Answer(r, 401)
  <2>1. PICK u \in Usable(req[r].msg) : req' = [req EXCEPT ![r].at = "open", ![r].valid = u]
    BY <1>5 DEF Begin
  <2>2. PICK q : q = [req[r] EXCEPT !.at = "open", !.valid = u]
    OBVIOUS
  <2>3. req' = [req EXCEPT ![r] = q]
    BY <2>1, <2>2 DEF IngestIInv, StoreOK
  <2>4. UNCHANGED <<settings, raw, points, held, unpoked, acked>>
    BY <1>5 DEF Begin
  <2>5. /\ DOMAIN q = RequestFields /\ q.at = "open" /\ q.row = req[r].row /\ q.valid = u
        /\ q.msg = req[r].msg /\ q.cred = req[r].cred /\ q.ver = req[r].ver
        /\ q.provision = req[r].provision /\ q.fresh = req[r].fresh
    BY <1>3, <2>2 DEF RequestFields
  <2>6. HasRead(q)
    BY <1>1, <1>3, <2>5 DEF HasRead, Sound
  <2>7. account = [on |-> TRUE, ver |-> q.ver]
    BY <1>5, <2>5 DEF Begin, IngestIInv, SettingsOK
  <2>8. KindOf[q.msg] = "fix" => q.valid
    BY <2>5 DEF Usable
  <2>9. Sound(q)
    BY <1>1, <1>3, <2>5, <2>6, <2>7, <2>8 DEF Sound, InTransaction
  <2>10. q.at \in InTransaction /\ q.provision => HoldsProvisionLock(r) \/ ProvisionFree
    BY <1>1, <1>3, <2>5 DEF Sound
  <2>11. q.at = "stored" => HoldsUsage(r) \/ UsageFree
    BY <2>5
  <2> QED BY <2>3, <2>4, <2>9, <2>10, <2>11, GoesOn
<1> QED BY <1>4, <1>5


LEMMA OwnStreamKeeps ==
    ASSUME IngestIInv, NEW r \in Req, OwnStream(r)  PROVE IngestIInv'
<1>1. req[r].at = "open" /\ ~(Legacy(req[r].cred) /\ req[r].valid)
  BY DEF OwnStream
<1>2. req[r] # NoRequest
  BY <1>1, Busied
<1>3. Sound(req[r]) /\ DOMAIN req[r] = RequestFields
  BY <1>2, InFlight
<1>4. PICK q : q = [req[r] EXCEPT !.at = "resolved", !.dev = req[r].row.dev]
  OBVIOUS
<1>5. req' = [req EXCEPT ![r] = q] /\ UNCHANGED <<settings, raw, points, held, unpoked, acked>>
  BY <1>4 DEF OwnStream, IngestIInv, StoreOK
<1>6. /\ DOMAIN q = RequestFields /\ q.at = "resolved" /\ q.dev = req[r].row.dev /\ q.row = req[r].row
      /\ q.msg = req[r].msg /\ q.cred = req[r].cred /\ q.ver = req[r].ver /\ q.valid = req[r].valid
      /\ q.provision = req[r].provision /\ q.fresh = req[r].fresh
  BY <1>3, <1>4 DEF RequestFields
<1>7. HasRead(req[r]) /\ ~q.provision /\ ~q.fresh
  BY <1>1, <1>3, <1>6 DEF Sound
<1>8. HasRead(q)
  BY <1>6, <1>7 DEF HasRead
<1>9. HasAlias(q)
  BY <1>6, <1>7 DEF HasAlias, HasRead
<1>10. q.dev \in Dev \cup {None} /\ (q.valid => q.dev # None)
  BY <1>1, <1>6, <1>7 DEF HasRead
<1>11. /\ account = [on |-> TRUE, ver |-> q.ver] /\ KindOf[q.msg] # "poison"
       /\ (KindOf[q.msg] = "fix" => q.valid) /\ q.msg \in Msg /\ q.cred \in Cred /\ Known(q.cred)
  BY <1>1, <1>3, <1>6 DEF Sound, InTransaction
<1>12. Sound(q)
  BY <1>6, <1>8, <1>9, <1>10, <1>11 DEF Sound
<1>13. q.at \in InTransaction /\ q.provision => HoldsProvisionLock(r) \/ ProvisionFree
  BY <1>7
<1>14. q.at = "stored" => HoldsUsage(r) \/ UsageFree
  BY <1>6
<1> QED BY <1>5, <1>12, <1>13, <1>14, GoesOn

\* The stream of a label: its alias, or the alias that this transaction will insert.
LEMMA ResolvedAlias ==
    ASSUME IngestIInv, NEW r \in Req, req[r].at = "open", Legacy(req[r].cred), ProvisionFree,
           NEW q, req' = [req EXCEPT ![r] = q], UNCHANGED <<settings, raw, points, held, unpoked, acked>>,
           DOMAIN q = RequestFields, q.at = "resolved", q.row = req[r].row, q.msg = req[r].msg,
           q.cred = req[r].cred, q.ver = req[r].ver, q.valid = req[r].valid, q.provision, q.dev \in Dev,
           q.fresh \/ (alias[LabelOf[q.msg]].on /\ alias[LabelOf[q.msg]].dev = q.dev)
    PROVE  IngestIInv'
<1>1. req[r] # NoRequest
  BY Busied
<1>2. Sound(req[r])
  BY <1>1, InFlight
<1>3. HasRead(req[r]) /\ None \notin Dev
  BY <1>2, IngestAssumption DEF Sound
<1>4. HasRead(q)
  BY <1>3 DEF HasRead
<1>5. HasAlias(q)
  BY <1>3 DEF HasAlias
<1>6. /\ account = [on |-> TRUE, ver |-> q.ver] /\ KindOf[q.msg] # "poison"
      /\ (KindOf[q.msg] = "fix" => q.valid) /\ q.msg \in Msg /\ q.cred \in Cred /\ Known(q.cred)
  BY <1>2 DEF Sound, InTransaction
<1>7. Sound(q)
  BY <1>3, <1>4, <1>5, <1>6 DEF Sound
<1>8. q.at \in InTransaction /\ q.provision => HoldsProvisionLock(r) \/ ProvisionFree
  OBVIOUS
<1>9. q.at = "stored" => HoldsUsage(r) \/ UsageFree
  OBVIOUS
<1> QED BY <1>7, <1>8, <1>9, GoesOn

LEMMA ResolveAliasKeeps ==
    ASSUME IngestIInv, NEW r \in Req, ResolveAlias(r)  PROVE IngestIInv'
<1> DEFINE l == LabelOf[req[r].msg]
<1>1. req[r].at = "open" /\ Legacy(req[r].cred) /\ req[r].valid /\ ProvisionFree
  BY DEF ResolveAlias
<1>2. req[r] # NoRequest
  BY <1>1, Busied
<1>3. Sound(req[r]) /\ DOMAIN req[r] = RequestFields /\ DOMAIN req = Req
  BY <1>2, InFlight DEF IngestIInv, StoreOK
<1>4. l \in Label
  BY <1>3, IngestAssumption DEF Sound
<1>5. CASE Answer(r, 401)
  <2>1. UNCHANGED <<account, cred, devices, alias, config, raw, points, unpoked>>
    BY DEF ResolveAlias, settings
  <2> QED BY <1>2, <1>5, <2>1, Refused
<1>6. CASE alias[l].on /\ UNCHANGED <<held, acked>>
           /\ req' = [req EXCEPT ![r].at = "resolved", ![r].dev = alias[l].dev,
                                 ![r].provision = TRUE, ![r].shared = TRUE]
  <2>1. PICK q : q = [req[r] EXCEPT !.at = "resolved", !.dev = alias[l].dev,
                                    !.provision = TRUE, !.shared = TRUE]
    OBVIOUS
  <2>2. req' = [req EXCEPT ![r] = q] /\ UNCHANGED <<settings, raw, points, held, unpoked, acked>>
    BY <1>3, <1>6, <2>1 DEF ResolveAlias
  <2>3. alias[l].dev \in Dev
    BY <1>4, <1>6 DEF IngestIInv, SettingsOK, AliasRow
  <2> HIDE DEF l
  <2>4. /\ DOMAIN q = RequestFields /\ q.at = "resolved" /\ q.dev = alias[l].dev /\ q.row = req[r].row
        /\ q.msg = req[r].msg /\ q.cred = req[r].cred /\ q.ver = req[r].ver /\ q.valid = req[r].valid
        /\ q.provision
    BY <1>3, <2>1 DEF RequestFields
  <2>5. alias[LabelOf[q.msg]].on /\ alias[LabelOf[q.msg]].dev = q.dev
    BY <1>6, <2>4 DEF l
  <2> QED BY <1>1, <2>2, <2>3, <2>4, <2>5, ResolvedAlias
<1>7. CASE \E d \in Dev \ devices : UNCHANGED <<held, acked>>
           /\ req' = [req EXCEPT ![r].at = "resolved", ![r].dev = d, ![r].fresh = TRUE,
                                 ![r].provision = TRUE, ![r].shared = TRUE]
  <2>1. PICK d \in Dev : UNCHANGED <<held, acked>>
           /\ req' = [req EXCEPT ![r].at = "resolved", ![r].dev = d, ![r].fresh = TRUE,
                                 ![r].provision = TRUE, ![r].shared = TRUE]
    BY <1>7
  <2>2. PICK q : q = [req[r] EXCEPT !.at = "resolved", !.dev = d, !.fresh = TRUE,
                                    !.provision = TRUE, !.shared = TRUE]
    OBVIOUS
  <2>3. req' = [req EXCEPT ![r] = q] /\ UNCHANGED <<settings, raw, points, held, unpoked, acked>>
    BY <1>3, <2>1, <2>2 DEF ResolveAlias
  <2>4. /\ DOMAIN q = RequestFields /\ q.at = "resolved" /\ q.dev = d /\ q.row = req[r].row
        /\ q.msg = req[r].msg /\ q.cred = req[r].cred /\ q.ver = req[r].ver /\ q.valid = req[r].valid
        /\ q.provision /\ q.fresh
    BY <1>3, <2>2 DEF RequestFields
  <2> QED BY <1>1, <2>3, <2>4, ResolvedAlias
<1> QED BY <1>5, <1>6, <1>7 DEF ResolveAlias

LEMMA AdmitKeeps ==
    ASSUME IngestIInv, NEW r \in Req, Admit(r)  PROVE IngestIInv'
<1>1. req[r].at = "resolved"
  BY DEF Admit
<1>2. req[r] # NoRequest
  BY <1>1, Busied
<1>3. Sound(req[r]) /\ DOMAIN req[r] = RequestFields
  BY <1>2, InFlight
<1>4. CASE Answer(r, 401)
  <2>1. UNCHANGED <<account, cred, devices, alias, config, raw, points, unpoked>>
    BY DEF Admit, settings
  <2> QED BY <1>2, <1>4, <2>1, Refused
<1>5. CASE ~Answer(r, 401)
  <2>1. PICK q : q = [req[r] EXCEPT !.at = "admitted", !.shared = TRUE]
    OBVIOUS
  <2>2. req' = [req EXCEPT ![r] = q] /\ UNCHANGED <<settings, raw, points, held, unpoked, acked>>
    BY <1>5, <2>1 DEF Admit, IngestIInv, StoreOK
  <2>3. /\ DOMAIN q = RequestFields /\ q.at = "admitted" /\ q.shared /\ q.row = req[r].row
        /\ q.msg = req[r].msg /\ q.cred = req[r].cred /\ q.ver = req[r].ver /\ q.valid = req[r].valid
        /\ q.provision = req[r].provision /\ q.fresh = req[r].fresh /\ q.dev = req[r].dev
    BY <1>3, <2>1 DEF RequestFields
  <2>4. HasRead(req[r]) /\ HasAlias(req[r])
    BY <1>1, <1>3 DEF Sound
  <2>5. HasRead(q) /\ HasAlias(q)
    BY <2>3, <2>4 DEF HasRead, HasAlias
  <2>6. /\ account = [on |-> TRUE, ver |-> q.ver] /\ KindOf[q.msg] # "poison"
        /\ (KindOf[q.msg] = "fix" => q.valid) /\ q.msg \in Msg /\ q.cred \in Cred /\ Known(q.cred)
        /\ q.dev \in Dev \cup {None} /\ (q.valid => q.dev # None)
    BY <1>1, <1>3, <2>3 DEF Sound, InTransaction
  <2>7. cred[q.cred].live /\ cred[q.cred].gen = q.row.gen
    BY <1>5, <2>3 DEF Admit, CredentialCurrent
  <2>8. Sound(q)
    BY <2>3, <2>5, <2>6, <2>7 DEF Sound
  <2>9. q.at \in InTransaction /\ q.provision => HoldsProvisionLock(r) \/ ProvisionFree
    BY <1>1, <2>3 DEF HoldsProvisionLock, InTransaction
  <2>10. q.at = "stored" => HoldsUsage(r) \/ UsageFree
    BY <2>3
  <2> QED BY <2>2, <2>8, <2>9, <2>10, GoesOn
<1> QED BY <1>4, <1>5

LEMMA FindReplayKeeps ==
    ASSUME IngestIInv, NEW r \in Req, FindReplay(r)  PROVE IngestIInv'
<1>1. req[r].at = "admitted" /\ UsageFree
  BY DEF FindReplay
<1>2. req[r] # NoRequest
  BY <1>1, Busied
<1>3. Sound(req[r]) /\ DOMAIN req[r] = RequestFields
  BY <1>2, InFlight
<1>4. PICK seen : seen = (Row(r) \in StoredRows)
  OBVIOUS
<1>5. PICK q : q = [req[r] EXCEPT !.at = "stored", !.replay = seen]
  OBVIOUS
<1>6. req' = [req EXCEPT ![r] = q] /\ UNCHANGED <<settings, raw, points, held, unpoked, acked>>
  BY <1>4, <1>5 DEF FindReplay, IngestIInv, StoreOK
<1>7. /\ DOMAIN q = RequestFields /\ q.at = "stored" /\ q.shared = req[r].shared /\ q.row = req[r].row
      /\ q.msg = req[r].msg /\ q.cred = req[r].cred /\ q.ver = req[r].ver /\ q.valid = req[r].valid
      /\ q.provision = req[r].provision /\ q.fresh = req[r].fresh /\ q.dev = req[r].dev
      /\ q.replay = seen
  BY <1>3, <1>5 DEF RequestFields
<1>8. HasRead(req[r]) /\ HasAlias(req[r])
  BY <1>1, <1>3 DEF Sound
<1>9. HasRead(q) /\ HasAlias(q)
  BY <1>7, <1>8 DEF HasRead, HasAlias
<1>10. /\ account = [on |-> TRUE, ver |-> q.ver] /\ KindOf[q.msg] # "poison"
       /\ (KindOf[q.msg] = "fix" => q.valid) /\ q.msg \in Msg /\ q.cred \in Cred /\ Known(q.cred)
       /\ q.dev \in Dev \cup {None} /\ (q.valid => q.dev # None)
       /\ q.shared /\ cred[q.cred].live /\ cred[q.cred].gen = q.row.gen
  BY <1>1, <1>3, <1>7 DEF Sound, InTransaction
<1>11. IF q.replay THEN KindOf[q.msg] = "fix" => Placed(q.dev, q.msg) ELSE RowOf(q) \notin StoredRows
  <2>1. Row(r) = RowOf(q)
    BY <1>7 DEF Row, Namespace, RowOf
  <2>2. CASE q.replay /\ KindOf[q.msg] = "fix"
    <3>1. RowOf(q) \in StoredRows
      BY <1>4, <1>7, <2>1, <2>2
    <3>2. RowOf(q).ns[2] = q.dev /\ RowOf(q).msg = q.msg
      BY <1>10, <2>2 DEF RowOf
    <3> QED BY <2>2, <3>1, <3>2 DEF IngestIInv, RowsPlaced
  <2> QED BY <1>4, <1>7, <2>1, <2>2
<1>12. Sound(q)
  BY <1>7, <1>9, <1>10, <1>11 DEF Sound
<1>13. q.at \in InTransaction /\ q.provision => HoldsProvisionLock(r) \/ ProvisionFree
  BY <1>1, <1>7 DEF HoldsProvisionLock, InTransaction
<1>14. q.at = "stored" => HoldsUsage(r) \/ UsageFree
  BY <1>1
<1> QED BY <1>6, <1>12, <1>13, <1>14, GoesOn


\* The answer after the transaction has closed: a stored fix has its point, and the
\* detector has been poked.
LEMMA AcknowledgeKeeps ==
    ASSUME IngestIInv, NEW r \in Req, Acknowledge(r)  PROVE IngestIInv'
<1> DEFINE m == req[r].msg
<1>1. req[r].at = "committed" /\ Answer(r, 200)
  BY DEF Acknowledge
<1>2. req[r] # NoRequest
  BY <1>1, Busied
<1>3. Sound(req[r])
  BY <1>2, InFlight
<1>4. KindOf[m] = "fix" => Placed(req[r].dev, m) /\ unpoked' = {}
  BY <1>1, <1>3 DEF Sound, Acknowledge, ShouldPoke, InTransaction
<1>5. /\ req' = [req EXCEPT ![r] = NoRequest]
      /\ held' = IF ~req[r].gone /\ Drops(SenderOf[m], 200) THEN held \ {m} ELSE held
      /\ acked' = IF ~req[r].gone THEN acked \cup {[msg |-> m, dev |-> req[r].dev]} ELSE acked
  BY <1>1 DEF Answer
<1>6. held' \subseteq held /\ unpoked' \subseteq unpoked
  BY <1>5 DEF Acknowledge
<1>7. \A a \in acked' \ acked : a.msg = m /\ a.dev = req[r].dev /\ ~req[r].gone
  BY <1>5
<1>8. \A a \in acked' \ acked :
        a.msg \notin held' /\ (KindOf[a.msg] = "fix" => Placed(a.dev, a.msg) /\ unpoked' = {})
  BY <1>4, <1>5, <1>7 DEF Drops
<1>9. NoRequest.at = "idle"
  BY DEF NoRequest
<1> HIDE DEF m
<1>10. PICK q : q = NoRequest
  OBVIOUS
<1>11. req' = [req EXCEPT ![r] = q]
  BY <1>5, <1>10
<1>12. q.at \notin InTransaction /\ q.at # "stored"
  BY <1>9, <1>10 DEF InTransaction
<1>13. q.at \in InTransaction /\ q.provision => HoldsProvisionLock(r) \/ ProvisionFree
  BY <1>12
<1>14. q.at = "stored" => HoldsUsage(r) \/ UsageFree
  BY <1>12
<1>15. q = NoRequest \/ Sound(q)
  BY <1>10
<1>16. UNCHANGED <<account, cred, devices, alias, config, raw, points>>
  BY DEF Acknowledge, settings
<1> QED BY <1>6, <1>8, <1>11, <1>13, <1>14, <1>15, <1>16, OneRequest

\* What a committed row may be, and what it leaves of what was there.
LEMMA NewRow ==
    ASSUME IngestIInv, NEW r \in Req, Commit(r)
    PROVE  /\ RowOf(req[r]) \in RawRow /\ Row(r) = RowOf(req[r])
           /\ points \subseteq points' /\ points \ unpoked \subseteq points' \ unpoked'
           /\ KindOf[req[r].msg] = "fix" =>
                req[r].dev # None /\ \E p \in points' : p.dev = req[r].dev /\ p.time = TimeOf[req[r].msg]
<1> DEFINE q == req[r]
<1>1. q.at = "stored"
  BY DEF Commit
<1>2. Sound(q)
  BY <1>1, Busied, InFlight
<1>3. Row(r) = RowOf(q)
  BY DEF Row, Namespace, RowOf
<1>4. q.msg \in Msg /\ q.cred \in Cred /\ q.dev \in Dev \cup {None} /\ (q.valid => q.dev # None)
      /\ (KindOf[q.msg] = "fix" => q.valid)
  BY <1>1, <1>2 DEF Sound, InTransaction
<1>5. RowOf(q) \in RawRow
  BY <1>4 DEF RowOf, RawRow
<1>6. points' = points \cup NewPoints(r) /\ unpoked' = unpoked \cup NewPoints(r)
  BY DEF Commit
<1>7. points \intersect NewPoints(r) = {}
  BY DEF NewPoints
<1>8. ASSUME KindOf[q.msg] = "fix"
      PROVE  \E p \in points' : p.dev = q.dev /\ p.time = TimeOf[q.msg]
  <2>1. q.replay => Placed(q.dev, q.msg)
    BY <1>1, <1>2, <1>8 DEF Sound
  <2>2. CASE \E p \in points : p.dev = q.dev /\ p.time = TimeOf[q.msg]
    BY <1>6, <2>2
  <2>3. CASE ~\E p \in points : p.dev = q.dev /\ p.time = TimeOf[q.msg]
    <3>1. NewPoints(r) = {[dev |-> q.dev, time |-> TimeOf[q.msg], msg |-> q.msg]}
      <4>1. ~q.replay
        BY <2>1, <2>3 DEF Placed
      <4>2. ~(q.replay \/ ~q.valid \/ \E p \in points : p.dev = q.dev /\ p.time = TimeOf[q.msg])
        BY <1>4, <1>8, <2>3, <4>1
      <4> QED BY <4>2 DEF NewPoints
    <3>2. PICK p : p = [dev |-> q.dev, time |-> TimeOf[q.msg], msg |-> q.msg]
      OBVIOUS
    <3>3. p \in points' /\ p.dev = q.dev /\ p.time = TimeOf[q.msg]
      BY <1>6, <3>1, <3>2
    <3> QED BY <3>3
  <2> QED BY <2>2, <2>3
<1> QED BY <1>3, <1>4, <1>5, <1>6, <1>7, <1>8

LEMMA CommitKeeps ==
    ASSUME IngestIInv, NEW r \in Req, Commit(r)  PROVE IngestIInv'
<1>1. req[r].at = "stored" /\ UNCHANGED <<account, cred, config, held, acked>>
  BY DEF Commit
<1>2. Sound(req[r]) /\ DOMAIN req[r] = RequestFields /\ DOMAIN req = Req
  BY <1>1, Busied, InFlight DEF IngestIInv, StoreOK
<1>3. PICK q : q = [req[r] EXCEPT !.at = "committed"]
  OBVIOUS
<1>4. req'[r] = q /\ DOMAIN req' = Req /\ \A o \in Req \ {r} : req'[o] = req[o]
  BY <1>2, <1>3 DEF Commit
<1>5. /\ DOMAIN q = RequestFields /\ q.at = "committed" /\ q.row = req[r].row
      /\ q.msg = req[r].msg /\ q.cred = req[r].cred /\ q.valid = req[r].valid /\ q.dev = req[r].dev
  BY <1>2, <1>3 DEF RequestFields
<1>6. /\ RowOf(req[r]) \in RawRow /\ Row(r) = RowOf(req[r])
      /\ points \subseteq points' /\ points \ unpoked \subseteq points' \ unpoked'
  BY NewRow
<1>7. KindOf[q.msg] = "fix" => q.dev # None /\ Placed(q.dev, q.msg)'
  BY <1>5, NewRow DEF Placed
<1>8. \A d, m : Placed(d, m) => Placed(d, m)'
  BY <1>6 DEF Placed
<1>9. /\ raw \in Seq(RawRow) /\ StoredOnce
      /\ IF req[r].replay THEN raw' = raw
                          ELSE raw' = Append(raw, RowOf(req[r])) /\ RowOf(req[r]) \notin StoredRows
  BY <1>1, <1>2, <1>6 DEF IngestIInv, StoreOK, Sound, Commit
<1>10. raw' \in Seq(RawRow) /\ StoredOnce' /\ StoredRows' \subseteq StoredRows \cup {RowOf(req[r])}
  BY <1>6, <1>9 DEF StoredOnce, StoredRows
<1>11. StoreOK'
  BY <1>4, <1>10 DEF StoreOK
<1>12. SettingsOK'
  <2>1. req[r].fresh => req[r].dev \in Dev /\ req[r].dev # None
    BY <1>1, <1>2 DEF Sound, HasAlias
  <2>2. alias' \in [Label -> AliasRow] /\ \A l \in Label : alias'[l].on => alias'[l].dev # None
    BY <2>1 DEF Commit, IngestIInv, SettingsOK, AliasRow
  <2> QED BY <1>1, <2>2 DEF IngestIInv, SettingsOK, Known
<1>13. RowsPlaced'
  <2>1. KindOf[req[r].msg] = "fix" => RowOf(req[r]).ns[2] = req[r].dev
    BY <1>5, <1>7 DEF RowOf
  <2>2. RowOf(req[r]).msg = req[r].msg
    BY DEF RowOf
  <2> QED BY <1>5, <1>7, <1>8, <1>10, <2>1, <2>2 DEF IngestIInv, RowsPlaced
<1>14. Requests'
  <2>1. HasRead(req[r])
    BY <1>1, <1>2 DEF Sound
  <2>2. HasRead(q)'
    BY <1>1, <1>5, <2>1 DEF HasRead
  <2>3. Sound(q)'
    <3>1. q.msg \in Msg /\ q.cred \in Cred /\ Known(q.cred)' /\ (KindOf[q.msg] = "fix" => q.valid)
          /\ q.dev \in Dev \cup {None} /\ (q.valid => q.dev # None)
      BY <1>1, <1>2, <1>5 DEF Sound, Known, InTransaction
    <3> QED BY <1>5, <1>7, <2>2, <3>1 DEF Sound, InTransaction
  <2>4. ASSUME NEW o \in Req \ {r}, req[o] # NoRequest  PROVE Sound(req[o])'
    <3>1. PICK x : x = req[o]
      OBVIOUS
    <3>2. Sound(x) /\ x.at # "stored"
      BY <1>1, <2>4, <3>1, InFlight DEF IngestIInv, Exclusive, HoldsUsage
    <3>3. HasRead(x) => HasRead(x)'
      BY <1>1 DEF HasRead
    <3>4. x.at \in InTransaction /\ HasAlias(x) => HasAlias(x)'
      <4>1. req[r].fresh => ~(x.at \in InTransaction /\ x.provision)
        BY <1>1, <1>2, <2>4, <3>1 DEF IngestIInv, Exclusive, HoldsProvisionLock, Sound, HasAlias,
                                    InTransaction
      <4>2. CASE alias' = alias
        BY <4>2 DEF HasAlias
      <4>3. CASE req[r].fresh
        BY <4>1, <4>3 DEF HasAlias
      <4> QED BY <4>2, <4>3 DEF Commit
    <3>5. Known(x.cred) => Known(x.cred)'
      BY <1>1 DEF Known
    <3>6. Sound(x)'
      BY <1>1, <1>8, <3>2, <3>3, <3>4, <3>5 DEF Sound, InTransaction
    <3> QED BY <1>4, <3>1, <3>6
  <2> QED BY <1>4, <2>3, <2>4 DEF Requests
<1>15. Exclusive'
  BY <1>4, <1>5 DEF IngestIInv, Exclusive, HoldsProvisionLock, HoldsUsage, InTransaction
<1>16. DroppedOnce' /\ DeliveredIsStored'
  BY <1>1, <1>6 DEF IngestIInv, DroppedOnce, DeliveredIsStored
<1> QED BY <1>10, <1>11, <1>12, <1>13, <1>14, <1>15, <1>16 DEF IngestIInv


-----------------------------------------------------------------------------
(***************************************************************************)
(* The steps of the settings                                               *)
(***************************************************************************)
\* A credential moves to a later generation when no open transaction shares it, an alias
\* when none holds the provision lock, and the account when none is open.
CredentialMoves(c) ==
    Known(c) => \/ cred'[c] = cred[c]
                \/ /\ cred'[c].dev = cred[c].dev /\ cred'[c].gen = cred[c].gen + 1
                   /\ NotShared(c)

LEMMA NewSettings ==
    ASSUME IngestIInv, UNCHANGED <<raw, points, held, req, unpoked, acked>>, SettingsOK',
           \A c \in Cred : CredentialMoves(c),
           account' = account \/ Open = {}, alias' = alias \/ ProvisionFree
    PROVE  IngestIInv'
<1>1. \A d, m : Placed(d, m)' = Placed(d, m)
  BY DEF Placed
<1>2. StoreOK' /\ StoredOnce' /\ StoredRows' = StoredRows /\ Exclusive' /\ DroppedOnce'
      /\ DeliveredIsStored'
  BY DEF IngestIInv, StoreOK, StoredOnce, StoredRows, Exclusive, HoldsProvisionLock, HoldsUsage,
         DroppedOnce, DeliveredIsStored
<1>3. RowsPlaced'
  BY <1>1, <1>2 DEF IngestIInv, RowsPlaced
<1>4. ASSUME NEW r \in Req, req[r] # NoRequest  PROVE Sound(req[r])'
  <2>1. PICK x : x = req[r]
    OBVIOUS
  <2>2. Sound(x)
    BY <1>4, <2>1, InFlight
  <2>3. x.cred \in Cred /\ Known(x.cred) /\ CredentialMoves(x.cred) /\ cred[x.cred] \in CredRow
    BY <2>2 DEF Sound, IngestIInv, SettingsOK
  <2>4. Known(x.cred)'
    BY <2>3 DEF Known, CredentialMoves
  <2>5. HasRead(x) => HasRead(x)'
    <3>1. cred[x.cred].gen \in Nat
      BY <2>3 DEF CredRow
    <3>2. x.row \in CredRow => x.row.gen \in Nat
      BY DEF CredRow
    <3> QED BY <2>3, <3>1, <3>2 DEF HasRead, CredentialMoves
  <2>6. x.at \in InTransaction => account' = account
    BY <2>1 DEF Open
  <2>7. x.at \in InTransaction /\ HasAlias(x) => HasAlias(x)'
    BY <2>1 DEF HasAlias, ProvisionFree, HoldsProvisionLock
  <2>8. x.at \in {"admitted", "stored"} => cred'[x.cred] = cred[x.cred]
    <3>1. SUFFICES ASSUME x.at \in {"admitted", "stored"}  PROVE ~NotShared(x.cred)
      BY <2>3 DEF CredentialMoves
    <3>2. x.shared /\ r \in Open
      BY <2>1, <2>2, <3>1 DEF Sound, Open, InTransaction
    <3> QED BY <2>1, <3>2 DEF NotShared, SharesCredential
  <2>9. Sound(x)'
    BY <1>1, <1>2, <2>2, <2>4, <2>5, <2>6, <2>7, <2>8 DEF Sound, InTransaction
  <2> QED BY <2>1, <2>9
<1>5. Requests'
  BY <1>4 DEF Requests
<1> QED BY <1>2, <1>3, <1>5 DEF IngestIInv

LEMMA RotateKeeps ==
    ASSUME IngestIInv, NEW c \in Cred, RotateCredential(c) \/ RevokeCredential(c)
    PROVE  IngestIInv'
<1>1. UNCHANGED <<account, devices, alias, config, raw, points, held, req, unpoked, acked>>
      /\ NotShared(c)
  BY DEF RotateCredential, RevokeCredential
<1>2. PICK row : /\ cred' = [cred EXCEPT ![c] = row]
                 /\ row \in CredRow /\ row.dev = cred[c].dev /\ row.gen = cred[c].gen + 1
  <2>1. cred \in [Cred -> CredRow] /\ cred[c] \in CredRow /\ cred[c].gen \in Nat
        /\ cred[c].secret \in Nat
    BY DEF IngestIInv, SettingsOK, CredRow
  <2>2. CASE RotateCredential(c)
    <3>1. PICK row : row = [cred[c] EXCEPT !.secret = @ + 1, !.live = TRUE, !.gen = @ + 1]
      OBVIOUS
    <3>2. cred' = [cred EXCEPT ![c] = row]
      BY <2>1, <2>2, <3>1 DEF RotateCredential
    <3>3. row \in CredRow /\ row.dev = cred[c].dev /\ row.gen = cred[c].gen + 1
      <4>1. PICK o : o = cred[c]
        OBVIOUS
      <4>2. o \in CredRow /\ o.gen \in Nat /\ o.secret \in Nat
        BY <2>1, <4>1
      <4>3. row = [dev |-> o.dev, live |-> TRUE, gen |-> o.gen + 1, secret |-> o.secret + 1]
        BY <3>1, <4>1, <4>2 DEF CredRow
      <4>4. o.dev \in Dev \cup {None} /\ o.gen + 1 \in Nat /\ o.secret + 1 \in Nat
        BY <4>2 DEF CredRow
      <4>5. row \in CredRow
        BY <4>2, <4>3, <4>4 DEF CredRow
      <4> QED BY <4>1, <4>3, <4>5
    <3> QED BY <3>2, <3>3
  <2>3. CASE RevokeCredential(c)
    <3>1. PICK row : row = [cred[c] EXCEPT !.live = FALSE, !.gen = @ + 1]
      OBVIOUS
    <3>2. cred' = [cred EXCEPT ![c] = row]
      BY <2>1, <2>3, <3>1 DEF RevokeCredential
    <3>3. row \in CredRow /\ row.dev = cred[c].dev /\ row.gen = cred[c].gen + 1
      <4>1. PICK o : o = cred[c]
        OBVIOUS
      <4>2. o \in CredRow /\ o.gen \in Nat /\ o.secret \in Nat
        BY <2>1, <4>1
      <4>3. row = [dev |-> o.dev, live |-> FALSE, gen |-> o.gen + 1, secret |-> o.secret]
        BY <3>1, <4>1, <4>2 DEF CredRow
      <4>4. o.dev \in Dev \cup {None} /\ o.gen + 1 \in Nat /\ o.secret + 1 \in Nat
        BY <4>2 DEF CredRow
      <4>5. row \in CredRow
        BY <4>2, <4>3, <4>4 DEF CredRow
      <4> QED BY <4>1, <4>3, <4>5
    <3> QED BY <3>2, <3>3
  <2> QED BY <2>2, <2>3
<1>3. DOMAIN cred = Cred
  BY DEF IngestIInv, SettingsOK
<1>4. \A o \in Cred : cred'[o].dev = cred[o].dev /\ CredentialMoves(o)
  BY <1>1, <1>2, <1>3 DEF CredentialMoves
<1>5. cred' \in [Cred -> CredRow]
  BY <1>2 DEF IngestIInv, SettingsOK
<1>6. SettingsOK'
  <2>1. \A o \in Cred : Known(o)' = Known(o)
    BY <1>4 DEF Known
  <2>2. LegacyCred \in Cred
    BY IngestAssumption
  <2> QED BY <1>1, <1>4, <1>5, <2>1, <2>2 DEF IngestIInv, SettingsOK
<1> QED BY <1>1, <1>4, <1>6, NewSettings

\* A credential that no phone has is given to one.
LEMMA IssueKeeps ==
    ASSUME IngestIInv, NEW c \in Unused, NEW d \in Dev, NEW p \in Phone, Issue(c, d, p)
    PROVE  /\ cred' \in [Cred -> CredRow] /\ cred'[LegacyCred].dev = None
           /\ config' \in [Phone -> [cred : Cred, secret : Nat]]
           /\ (\A q \in Phone : Known(config[q].cred))'
           /\ \A o \in Cred : CredentialMoves(o)
<1>1. c \in Cred /\ cred[c].dev = None /\ ~Legacy(c) /\ c # LegacyCred /\ d # None
      /\ LegacyCred \in Cred
  BY IngestAssumption DEF Unused, Legacy
<1>2. PICK row : row = [dev |-> d, live |-> TRUE, gen |-> 1, secret |-> 1]
  OBVIOUS
<1>3. row \in CredRow /\ row.dev = d
  BY <1>2 DEF CredRow
<1>4. cred' = [cred EXCEPT ![c] = row] /\ config' = [config EXCEPT ![p] = [cred |-> c, secret |-> 1]]
  BY <1>2 DEF Issue
<1>5. /\ cred \in [Cred -> CredRow] /\ cred[LegacyCred].dev = None
      /\ config \in [Phone -> [cred : Cred, secret : Nat]]
      /\ \A q \in Phone : Known(config[q].cred)
  BY DEF IngestIInv, SettingsOK
<1>6. cred' \in [Cred -> CredRow] /\ cred'[c] = row /\ \A o \in Cred \ {c} : cred'[o] = cred[o]
  BY <1>1, <1>3, <1>4, <1>5
<1>7. config' \in [Phone -> [cred : Cred, secret : Nat]] /\ config'[p].cred = c
      /\ \A q \in Phone \ {p} : config'[q] = config[q]
  BY <1>1, <1>4, <1>5
<1>8. \A o \in Cred : Known(o) => Known(o)'
  BY <1>1, <1>6 DEF Known
<1>9. Known(c)'
  BY <1>1, <1>3, <1>6 DEF Known
<1>10. \A q \in Phone : config[q].cred \in Cred
  BY <1>5
<1>11. (\A q \in Phone : Known(config[q].cred))'
  BY <1>5, <1>7, <1>8, <1>9, <1>10
<1>12. \A o \in Cred : CredentialMoves(o)
  BY <1>1, <1>6 DEF CredentialMoves, Known
<1> QED BY <1>1, <1>5, <1>6, <1>7, <1>11, <1>12

LEMMA DevicesKeep ==
    ASSUME IngestIInv, NEW c \in Cred, NEW d \in Dev, NEW p \in Phone,
           ConvertLegacyDevice(d, c, p) \/ CreateDevice(d, c, p)
    PROVE  IngestIInv'
<1>1. /\ UNCHANGED <<account, raw, points, held, req, unpoked, acked>>
      /\ ProvisionFree /\ c \in Unused /\ Issue(c, d, p)
  BY DEF ConvertLegacyDevice, CreateDevice
<1>2. /\ cred' \in [Cred -> CredRow] /\ cred'[LegacyCred].dev = None
      /\ config' \in [Phone -> [cred : Cred, secret : Nat]]
      /\ (\A q \in Phone : Known(config[q].cred))'
      /\ \A o \in Cred : CredentialMoves(o)
  BY <1>1, IssueKeeps
<1>3. alias' \in [Label -> AliasRow] /\ \A l \in Label : alias'[l].on => alias'[l].dev # None
  <2>1. alias \in [Label -> AliasRow] /\ \A l \in Label : alias[l].on => alias[l].dev # None
    BY DEF IngestIInv, SettingsOK
  <2>2. CASE ConvertLegacyDevice(d, c, p)
    <3>1. PICK on : alias' = [l \in Label |-> IF l \in on THEN [alias[l] EXCEPT !.on = FALSE]
                                                          ELSE alias[l]]
      BY <2>2 DEF ConvertLegacyDevice
    <3>2. \A l \in Label : [alias[l] EXCEPT !.on = FALSE] \in AliasRow
                           /\ [alias[l] EXCEPT !.on = FALSE].on = FALSE
      BY <2>1 DEF AliasRow
    <3> QED BY <2>1, <3>1, <3>2
  <2>3. CASE CreateDevice(d, c, p)
    BY <2>1, <2>3 DEF CreateDevice
  <2> QED BY <2>2, <2>3
<1>4. SettingsOK'
  <2>1. account \in [on : BOOLEAN, ver : Nat]
    BY DEF IngestIInv, SettingsOK
  <2>2. (\A q \in Phone : Known(config[q].cred))'
    BY <1>2
  <2> QED BY <1>1, <1>2, <1>3, <2>1, <2>2 DEF SettingsOK
<1> QED BY <1>1, <1>2, <1>4, NewSettings


LEMMA ReconfigureKeeps ==
    ASSUME IngestIInv, NEW p \in Phone, Reconfigure(p)  PROVE IngestIInv'
<1>1. UNCHANGED <<account, cred, devices, alias, raw, points, held, req, unpoked, acked>>
  BY DEF Reconfigure
<1>2. /\ config \in [Phone -> [cred : Cred, secret : Nat]] /\ cred \in [Cred -> CredRow]
      /\ \A q \in Phone : Known(config[q].cred)
  BY DEF IngestIInv, SettingsOK
<1>3. PICK c, s : c = config[p].cred /\ s = cred[config[p].cred].secret
  OBVIOUS
<1>4. c \in Cred /\ s \in Nat /\ Known(c)
  BY <1>2, <1>3 DEF CredRow
<1>5. config' = [config EXCEPT ![p] = [cred |-> c, secret |-> s]]
  <2>1. PICK o : o = config[p]
    OBVIOUS
  <2>2. o \in [cred : Cred, secret : Nat] /\ o.cred = c
    BY <1>2, <1>3, <2>1
  <2>3. [o EXCEPT !.secret = s] = [cred |-> c, secret |-> s]
    BY <2>2
  <2>4. config' = [config EXCEPT ![p] = [o EXCEPT !.secret = s]]
    BY <1>2, <1>3, <2>1 DEF Reconfigure
  <2> QED BY <2>3, <2>4
<1>6. config' \in [Phone -> [cred : Cred, secret : Nat]] /\ config'[p].cred = c
      /\ \A q \in Phone \ {p} : config'[q] = config[q]
  BY <1>2, <1>4, <1>5
<1>7. \A o \in Cred : Known(o)' = Known(o)
  BY <1>1 DEF Known
<1>8. (\A q \in Phone : Known(config[q].cred))'
  BY <1>1, <1>2, <1>4, <1>6 DEF Known
<1>9. SettingsOK'
  BY <1>1, <1>6, <1>8 DEF IngestIInv, SettingsOK
<1>10. \A o \in Cred : CredentialMoves(o)
  BY <1>1 DEF CredentialMoves
<1> QED BY <1>1, <1>9, <1>10, NewSettings

\* A new password, or the account disabled or enabled.
LEMMA AccountKeeps ==
    ASSUME IngestIInv, ChangePassword \/ SetEnabled  PROVE IngestIInv'
<1>1. UNCHANGED <<devices, alias, raw, points, config, held, req, unpoked, acked>> /\ Open = {}
  BY DEF ChangePassword, SetEnabled
<1>2. \A c \in Cred : NotShared(c)
  BY <1>1 DEF NotShared, SharesCredential
<1>3. account \in [on : BOOLEAN, ver : Nat] /\ account.ver \in Nat /\ cred \in [Cred -> CredRow]
  BY DEF IngestIInv, SettingsOK
<1>4. account' \in [on : BOOLEAN, ver : Nat]
  <2>1. CASE ChangePassword
    BY <1>3, <2>1 DEF ChangePassword
  <2>2. CASE SetEnabled
    <3>1. account.on \in BOOLEAN /\ account.ver + 1 \in Nat
      BY <1>3
    <3>2. CASE account.on
      BY <2>2, <3>1, <3>2 DEF SetEnabled
    <3>3. CASE ~account.on
      BY <1>3, <2>2, <3>3 DEF SetEnabled
    <3> QED BY <3>2, <3>3
  <2> QED BY <2>1, <2>2
<1>5. ASSUME NEW c \in Cred
      PROVE  cred'[c] \in CredRow /\ cred'[c].dev = cred[c].dev /\ CredentialMoves(c)
  <2>1. PICK o : o = cred[c]
    OBVIOUS
  <2>2. o \in CredRow /\ o.gen \in Nat
    BY <1>3, <2>1 DEF CredRow
  <2>3. PICK e : e = [o EXCEPT !.live = FALSE, !.gen = @ + 1]
    OBVIOUS
  <2>4. e = [dev |-> o.dev, live |-> FALSE, gen |-> o.gen + 1, secret |-> o.secret]
    BY <2>2, <2>3 DEF CredRow
  <2>5. o.dev \in Dev \cup {None} /\ o.gen + 1 \in Nat /\ o.secret \in Nat
    BY <2>2 DEF CredRow
  <2>6. e \in CredRow /\ e.dev = o.dev /\ e.gen = o.gen + 1
    BY <2>4, <2>5 DEF CredRow
  <2>7. cred'[c] = o \/ cred'[c] = e
    <3>1. CASE ChangePassword
      BY <2>1, <3>1 DEF ChangePassword
    <3>2. CASE SetEnabled
      BY <2>1, <2>3, <3>2 DEF SetEnabled
    <3> QED BY <3>1, <3>2
  <2> QED BY <1>2, <2>1, <2>2, <2>6, <2>7 DEF CredentialMoves
<1>6. cred' \in [Cred -> CredRow]
  <2>1. cred' = [c \in Cred |-> cred'[c]]
    BY <1>3 DEF ChangePassword, SetEnabled
  <2> QED BY <1>5, <2>1
<1>7. SettingsOK'
  <2>1. \A c \in Cred : Known(c)' = Known(c)
    BY <1>5 DEF Known
  <2>2. LegacyCred \in Cred
    BY IngestAssumption
  <2>3. (\A q \in Phone : Known(config[q].cred))'
    BY <1>1, <2>1 DEF IngestIInv, SettingsOK, Known
  <2> QED BY <1>1, <1>4, <1>5, <1>6, <2>2, <2>3 DEF IngestIInv, SettingsOK
<1> QED BY <1>1, <1>5, <1>7, NewSettings

-----------------------------------------------------------------------------
(***************************************************************************)
(* Retention, and the crash of the server                                  *)
(***************************************************************************)
LEMMA RetainKeeps == ASSUME IngestIInv, Retain PROVE IngestIInv'
<1>1. UNCHANGED <<account, cred, devices, alias, config, points, held, req, unpoked, acked>>
  BY DEF Retain, settings
<1>2. PICK n \in Nat : n \in 1..Len(raw) /\ raw' = SubSeq(raw, n + 1, Len(raw))
  <2>1. PICK k \in 1..Len(raw) :
          raw' = SubSeq(raw, (IF k < Batch THEN k ELSE Batch) + 1, Len(raw))
    BY DEF Retain
  <2>2. Batch \in Nat \ {0} /\ Len(raw) \in Nat
    BY IngestAssumption DEF IngestIInv, StoreOK
  <2>3. (IF k < Batch THEN k ELSE Batch) \in 1..Len(raw)
    BY <2>1, <2>2
  <2>4. PICK n : n = IF k < Batch THEN k ELSE Batch
    OBVIOUS
  <2>5. n \in Nat /\ n \in 1..Len(raw) /\ raw' = SubSeq(raw, n + 1, Len(raw))
    BY <2>1, <2>2, <2>3, <2>4
  <2> QED BY <2>5
<1>3. raw \in Seq(RawRow) /\ StoredOnce
  BY DEF IngestIInv, StoreOK
<1>4. /\ raw' \in Seq(RawRow) /\ Len(raw') = Len(raw) - n
      /\ \A i \in 1..Len(raw') : raw'[i] = raw[n + i] /\ n + i \in 1..Len(raw)
  BY <1>2, <1>3
<1>5. StoredOnce' /\ StoredRows' \subseteq StoredRows
  <2>1. StoredOnce'
    <3> SUFFICES ASSUME NEW i \in DOMAIN raw', NEW j \in DOMAIN raw', raw'[i] = raw'[j]  PROVE i = j
      BY DEF StoredOnce
    <3>1. i \in 1..Len(raw') /\ j \in 1..Len(raw')
      BY <1>4
    <3>2. n + i \in DOMAIN raw /\ n + j \in DOMAIN raw /\ raw[n + i] = raw[n + j]
      <4>1. DOMAIN raw = 1..Len(raw)
        BY <1>3
      <4> QED BY <1>4, <3>1, <4>1
    <3>3. n + i = n + j
      BY <1>3, <3>2 DEF StoredOnce
    <3> QED BY <1>2, <3>1, <3>3
  <2>2. ASSUME NEW i \in DOMAIN raw'  PROVE raw'[i] \in StoredRows
    <3>1. i \in 1..Len(raw')
      BY <1>4
    <3>2. n + i \in DOMAIN raw
      BY <1>3, <1>4, <3>1
    <3> QED BY <1>4, <3>1, <3>2 DEF StoredRows
  <2> QED BY <2>1, <2>2 DEF StoredRows
<1>6. \A d, m : Placed(d, m)' = Placed(d, m)
  BY <1>1 DEF Placed
<1>7. RowsPlaced'
  BY <1>5, <1>6 DEF IngestIInv, RowsPlaced
<1>8. \A x : Sound(x) => Sound(x)'
  <2>1. \A x : HasRead(x)' = HasRead(x) /\ HasAlias(x)' = HasAlias(x) /\ Known(x.cred)' = Known(x.cred)
    BY <1>1 DEF HasRead, HasAlias, Known
  <2> QED BY <1>1, <1>5, <1>6, <2>1 DEF Sound
<1>9. Requests' /\ SettingsOK' /\ StoreOK' /\ Exclusive' /\ DroppedOnce' /\ DeliveredIsStored'
  BY <1>1, <1>4, <1>8 DEF IngestIInv, Requests, SettingsOK, Known, StoreOK, Exclusive,
       HoldsProvisionLock, HoldsUsage, DroppedOnce, DeliveredIsStored
<1> QED BY <1>5, <1>7, <1>9 DEF IngestIInv

LEMMA CrashKeeps == ASSUME IngestIInv, Crash PROVE IngestIInv'
<1>1. /\ UNCHANGED <<account, cred, devices, alias, config, raw, points, held, acked>>
      /\ req' = [r \in Req |-> NoRequest] /\ unpoked' = {}
  BY DEF Crash, settings
<1>2. SettingsOK' /\ StoreOK' /\ Requests' /\ RowsPlaced' /\ DroppedOnce' /\ StoredOnce'
  BY <1>1 DEF IngestIInv, SettingsOK, Known, StoreOK, Requests, RowsPlaced, StoredRows, Placed,
       DroppedOnce, StoredOnce
<1>3. Exclusive'
  BY <1>1 DEF Exclusive, HoldsProvisionLock, HoldsUsage, InTransaction, NoRequest
<1>4. DeliveredIsStored'
  BY <1>1 DEF IngestIInv, DeliveredIsStored
<1> QED BY <1>2, <1>3, <1>4 DEF IngestIInv

\* Every step keeps the invariant.
LEMMA IngestNextIInv == IngestIInv /\ [Next]_vars => IngestIInv'
<1> SUFFICES ASSUME IngestIInv, [Next]_vars  PROVE IngestIInv'
  OBVIOUS
<1>1. CASE UNCHANGED vars
  BY <1>1 DEF vars, IngestIInv, SettingsOK, Known, StoreOK, Requests, Sound, HasRead, HasAlias,
       Exclusive, HoldsProvisionLock, HoldsUsage, RowsPlaced, StoredRows, Placed, DroppedOnce,
       StoredOnce, DeliveredIsStored
<1>2. ASSUME NEW r \in Req, NEW m \in Msg, Send(r, m)  PROVE IngestIInv'
  BY <1>2, SendKeeps
<1>3. ASSUME NEW r \in Req, Leave(r) \/ LookUp(r) \/ Verify(r) \/ Begin(r)  PROVE IngestIInv'
  BY <1>3, LeaveKeeps, LookUpKeeps, VerifyKeeps, BeginKeeps
<1>4. ASSUME NEW r \in Req, Busy(r) \/ DropPoison(r) \/ Discard(r) \/ Fault(r)  PROVE IngestIInv'
  BY <1>4, NothingStored
<1>5. ASSUME NEW r \in Req, OwnStream(r) \/ ResolveAlias(r) \/ Admit(r) \/ FindReplay(r)
      PROVE  IngestIInv'
  BY <1>5, OwnStreamKeeps, ResolveAliasKeeps, AdmitKeeps, FindReplayKeeps
<1>6. ASSUME NEW r \in Req, Commit(r) \/ Acknowledge(r)  PROVE IngestIInv'
  BY <1>6, CommitKeeps, AcknowledgeKeeps
<1>7. ASSUME NEW c \in Cred, RotateCredential(c) \/ RevokeCredential(c)  PROVE IngestIInv'
  BY <1>7, RotateKeeps
<1>8. ASSUME NEW c \in Cred, NEW d \in Dev, NEW p \in Phone,
             ConvertLegacyDevice(d, c, p) \/ CreateDevice(d, c, p)
      PROVE  IngestIInv'
  BY <1>8, DevicesKeep
<1>9. ASSUME NEW p \in Phone, Reconfigure(p)  PROVE IngestIInv'
  BY <1>9, ReconfigureKeeps
<1>10. CASE ChangePassword \/ SetEnabled \/ Retain \/ Crash
  BY <1>10, AccountKeeps, RetainKeeps, CrashKeeps
<1> QED BY <1>1, <1>2, <1>3, <1>4, <1>5, <1>6, <1>7, <1>8, <1>9, <1>10 DEF Next

(***************************************************************************)
(* Whatever answers are lost, whatever is sent again and whenever the      *)
(* server crashes, a message is one row, and a location that a phone was   *)
(* told is delivered has its point, of which the detector has been told.   *)
(***************************************************************************)
THEOREM MessagesStoredOnce == Spec => []StoredExactlyOnce
<1>1. Spec => []IngestIInv
  BY InitIInv, IngestNextIInv, PTL DEF Spec
<1>2. IngestIInv => StoredExactlyOnce
  BY DEF IngestIInv, StoredExactlyOnce
<1> QED BY <1>1, <1>2, PTL


-----------------------------------------------------------------------------
(***************************************************************************)
(* Who is refused                                                          *)
(***************************************************************************)
\* What a phone drops undelivered, it drops because of a 401.
LEMMA DroppedRefused ==
    ASSUME IngestIInv, NEW r \in Req, NEW status, Answer(r, status),
           NEW m \in Msg, m \in held, m \notin held', acked' = acked
    PROVE  req[r].msg = m /\ status = 401 /\ RouteOf[SenderOf[m]] = "owntracks"
<1>1. ~req[r].gone /\ Drops(SenderOf[req[r].msg], status) /\ req[r].msg = m
  BY DEF Answer
<1>2. status # 200
  <2>1. SUFFICES ASSUME status = 200  PROVE FALSE
    OBVIOUS
  <2>2. PICK a : a = [msg |-> m, dev |-> req[r].dev]
    OBVIOUS
  <2>3. a \in acked /\ a.msg = m
    BY <1>1, <2>1, <2>2 DEF Answer
  <2> QED BY <2>3 DEF IngestIInv, DroppedOnce
<1> QED BY <1>1, <1>2 DEF Drops

LEMMA RefusedAreStale ==
    ASSUME IngestIInv, NEW r \in Req, NEW m \in Msg, m \in held, m \notin held', acked' = acked,
           LookUp(r) \/ Verify(r) \/ Busy(r) \/ DropPoison(r) \/ Begin(r) \/ ResolveAlias(r)
             \/ Admit(r) \/ Discard(r) \/ Acknowledge(r) \/ Fault(r)
    PROVE  req[r] # NoRequest /\ req[r].msg = m /\ Stale(r)
<1>1. req[r] # NoRequest
  <2>1. req[r].at # "idle"
    BY DEF LookUp, Verify, Busy, DropPoison, Begin, ResolveAlias, Admit, Discard, Acknowledge, Fault,
           Open, InTransaction
  <2> QED BY <2>1, Busied
<1>2. Sound(req[r])
  BY <1>1, InFlight
<1>3. \A status : Answer(r, status) =>
        req[r].msg = m /\ status = 401 /\ RouteOf[SenderOf[m]] = "owntracks"
  BY DroppedRefused
<1>4. held' # held
  OBVIOUS
<1>5. req[r].at # "arrived" => req[r].row # None
  BY <1>2, IngestAssumption DEF Sound, HasRead, CredRow
<1>6. CASE LookUp(r)
  <2>1. Answer(r, 401)
    BY <1>4, <1>6 DEF LookUp
  <2>2. \/ cred[req[r].cred].dev = None /\ ~Legacy(req[r].cred)
        \/ ~cred[req[r].cred].live \/ ~account.on
    BY <1>4, <1>6 DEF LookUp
  <2>3. ~(cred[req[r].cred].dev = None /\ ~Legacy(req[r].cred))
    BY <1>2 DEF Sound, Known
  <2> QED BY <1>1, <1>3, <2>1, <2>2, <2>3 DEF Stale
<1>7. CASE Verify(r)
  <2>1. Answer(r, 401) /\ req[r].at = "verifying"
    BY <1>4, <1>7 DEF Verify
  <2>2. req[r].msg = m /\ RouteOf[SenderOf[m]] # "traccar"
    BY <1>3, <2>1
  <2>3. req[r].secret # req[r].row.secret
    BY <1>4, <1>7, <2>2 DEF Verify
  <2>4. cred[req[r].cred].gen = req[r].row.gen => cred[req[r].cred].secret = req[r].row.secret
    BY <1>2, <2>1 DEF Sound, HasRead
  <2> QED BY <1>1, <1>5, <2>1, <2>2, <2>3, <2>4 DEF Stale, CredentialCurrent
<1>8. CASE Begin(r)
  <2>1. Answer(r, 401) /\ req[r].at = "waiting" /\ (~account.on \/ account.ver # req[r].ver)
    BY <1>4, <1>8 DEF Begin
  <2> QED BY <1>1, <1>3, <1>5, <2>1 DEF Stale
<1>9. CASE ResolveAlias(r)
  <2>1. /\ req[r].at = "open" /\ Legacy(req[r].cred) /\ Answer(r, 401)
        /\ \/ ~CredentialCurrent(r)
           \/ alias[LabelOf[req[r].msg]].dev # None /\ ~alias[LabelOf[req[r].msg]].on
    BY <1>4, <1>9 DEF ResolveAlias
  <2> QED BY <1>1, <1>3, <1>5, <2>1 DEF Stale
<1>10. CASE Admit(r)
  <2>1. req[r].at = "resolved" /\ Answer(r, 401) /\ (~CredentialCurrent(r) \/ ~AliasCurrent(r))
    BY <1>4, <1>10 DEF Admit
  <2>2. AliasCurrent(r)
    BY <1>2, <2>1 DEF Sound, HasAlias, AliasCurrent
  <2> QED BY <1>1, <1>3, <1>5, <2>1, <2>2 DEF Stale
<1>11. CASE Busy(r) \/ DropPoison(r) \/ Discard(r) \/ Acknowledge(r)
  <2>1. Answer(r, 503) \/ Answer(r, 200)
    BY <1>11 DEF Busy, DropPoison, Discard, Acknowledge
  <2> QED BY <1>3, <2>1
<1>12. CASE Fault(r)
  <2>1. PICK fault \in {"lock", "other"} \cup (IF req[r].at \in {"admitted", "stored"}
                                               THEN {"privilege", "capacity"} ELSE {}) :
          Answer(r, FaultStatus(r, fault))
    BY <1>12 DEF Fault
  <2>2. FaultStatus(r, fault) # 401
    BY <2>1 DEF FaultStatus
  <2> QED BY <1>3, <2>1, <2>2
<1> QED BY <1>6, <1>7, <1>8, <1>9, <1>10, <1>11, <1>12

(***************************************************************************)
(* A message is stored only under the credential, alias and account that   *)
(* it was admitted with, and a phone loses one to a refusal only when one  *)
(* of these had really changed, however rotations, revocations and new     *)
(* passwords fall between the steps of a request.                          *)
(***************************************************************************)
THEOREM CredentialsAlwaysDecide == Spec => CredentialsDecide
<1>1. ASSUME IngestIInv, NEW r \in Req, req[r].at = "stored"
      PROVE  /\ CredentialCurrent(r) /\ AliasCurrent(r)
             /\ account = [on |-> TRUE, ver |-> req[r].ver]
  <2>1. Sound(req[r])
    BY <1>1, Busied, InFlight
  <2> QED BY <1>1, <2>1 DEF Sound, HasAlias, CredentialCurrent, AliasCurrent, InTransaction
<1>2. ASSUME IngestIInv, [Next]_vars, NEW m \in Msg, m \in held, m \notin held', acked' = acked
      PROVE  \E r \in Req : req[r] # NoRequest /\ req[r].msg = m /\ Stale(r)
  <2>1. held' # held
    BY <1>2
  <2>2. \E r \in Req :
          LookUp(r) \/ Verify(r) \/ Busy(r) \/ DropPoison(r) \/ Begin(r) \/ ResolveAlias(r)
            \/ Admit(r) \/ Discard(r) \/ Acknowledge(r) \/ Fault(r)
    <3>1. Next
      BY <1>2, <2>1 DEF vars
    <3> QED BY <2>1, <3>1 DEF Next, Send, Leave, OwnStream, FindReplay, Commit, RotateCredential,
         RevokeCredential, ConvertLegacyDevice, CreateDevice, Reconfigure, ChangePassword, SetEnabled,
         Retain, Crash
  <2> QED BY <1>2, <2>2, RefusedAreStale
<1>3. IngestIInv /\ [Next]_vars =>
        /\ [\A r \in Req : req[r].at = "stored" /\ req'[r].at = "committed" =>
              /\ CredentialCurrent(r) /\ AliasCurrent(r)
              /\ account = [on |-> TRUE, ver |-> req[r].ver]]_vars
        /\ [\A m \in Msg : m \in held /\ m \notin held' /\ acked' = acked =>
              \E r \in Req : req[r] # NoRequest /\ req[r].msg = m /\ Stale(r)]_vars
  BY <1>1, <1>2
<1>4. Spec => []IngestIInv
  BY InitIInv, IngestNextIInv, PTL DEF Spec
<1> QED BY <1>3, <1>4, PTL DEF Spec, CredentialsDecide, StoredUnderLiveCredential, RefusedOnlyWhenStale

-----------------------------------------------------------------------------
(***************************************************************************)
(* The limiter of failed passwords                                         *)
(***************************************************************************)
\* Induction, with a set for the predicate: a set that 0 is in and that leads from
\* each number to the next cannot miss one, because the successor would map its part
\* below the missing number into itself, one to one, without reaching 0.
LEMMA Induction ==
    ASSUME NEW U \in SUBSET Nat, 0 \in U, \A k \in U : k + 1 \in U
    PROVE  \A n \in Nat : n \in U
<1> SUFFICES ASSUME NEW n \in Nat, n \notin U PROVE FALSE
  OBVIOUS
<1> DEFINE V == U \cap (0 .. n)
           h == [k \in V |-> k + 1]
<1>1. IsFiniteSet(V)
  <2>1. 0 \in Int /\ n \in Int
    OBVIOUS
  <2>2. IsFiniteSet(0 .. n) /\ V \in SUBSET (0 .. n)
    BY <2>1, FS_Interval
  <2> QED BY <2>2, FS_Subset
<1>2. h \in Injection(V, V)
  <2>1. \A k \in V : k + 1 \in V
    OBVIOUS
  <2>2. \A j, k \in V : j + 1 = k + 1 => j = k
    OBVIOUS
  <2> QED BY <2>1, <2>2 DEF Injection, IsInjective
<1>3. h \in Surjection(V, V)
  BY <1>1, <1>2, FS_Injection
<1>4. 0 \in V /\ \A k \in V : h[k] # 0
  OBVIOUS
<1> QED
  BY <1>3, <1>4 DEF Surjection

\* A set of numbers that is not empty has a least one.
LEMMA Least ==
    ASSUME NEW I \in SUBSET Nat, I # {}
    PROVE  Min(I) \in I /\ \A i \in I : Min(I) <= i
<1> DEFINE U == {k \in Nat : \A i \in I : k < i}
<1>1. ASSUME 0 \notin I, \A k \in U : k + 1 \in U PROVE FALSE
  <2>1. 0 \in U
    BY <1>1
  <2>2. \A n \in Nat : n \in U
    <3> HIDE DEF U
    <3>1. U \in SUBSET Nat
      BY DEF U
    <3> QED BY <1>1, <2>1, <3>1, Induction
  <2>3. PICK i \in I : TRUE
    OBVIOUS
  <2>4. i \in U /\ i \in Nat
    BY <2>2, <2>3
  <2> QED BY <2>3, <2>4
<1>2. \E x \in I : \A y \in I : x <= y
  <2>1. CASE 0 \in I
    BY <2>1
  <2>2. CASE \E k \in U : k + 1 \notin U
    <3>1. PICK k \in U : k + 1 \notin U
      BY <2>2
    <3>2. PICK x \in I : ~(k + 1 < x)
      BY <3>1
    <3> QED BY <3>1, <3>2
  <2> QED BY <1>1, <2>1, <2>2
<1> QED
  BY <1>2 DEF Min

-----------------------------------------------------------------------------
(***************************************************************************)
(* Failures in a window                                                    *)
(***************************************************************************)
\* The k-th of a sequence, counted from its end.
FromEnd(s, k) == s[Len(s) - k + 1]

InOrder(s, n) ==
    /\ \A i \in 1..Len(s) : s[i] <= n
    /\ \A i, j \in 1..Len(s) : i <= j => s[i] <= s[j]

\* Every failed check that is in the window, up to the number that blocks, is counted by
\* a failure that is no older.
Counted(w, f, cutoff) ==
    \A k \in 1..MaxFailures :
        k <= Len(w) /\ FromEnd(w, k) >= cutoff => k <= Len(f) /\ FromEnd(f, k) >= FromEnd(w, k)

\* What record_failure leaves of an address.
Recorded(f, cutoff, n) ==
    LET times == Append(Since(f, cutoff), n) IN
    SubSeq(times, IF Len(times) > MaxFailures THEN 2 ELSE 1, Len(times))

\* Where the window begins in a sequence of times, and what is left of it.
LEMMA WindowBegins ==
    ASSUME NEW s \in Seq(Nat), NEW cutoff \in Int
    PROVE  \E b \in 1..(Len(s) + 1) :
             /\ Since(s, cutoff) = SubSeq(s, b, Len(s)) /\ Since(s, cutoff) \in Seq(Nat)
             /\ Len(Since(s, cutoff)) = Len(s) - b + 1
             /\ \A i \in 1..Len(s) : i < b => s[i] < cutoff
             /\ b <= Len(s) => s[b] >= cutoff
             /\ \A k \in 1..(Len(s) - b + 1) : FromEnd(Since(s, cutoff), k) = FromEnd(s, k)
<1> DEFINE I == {i \in 1..Len(s) : s[i] >= cutoff} \cup {Len(s) + 1}
<1>1. Len(s) \in Nat
  OBVIOUS
<1>2. I \in SUBSET Nat /\ I # {} /\ I \subseteq 1..(Len(s) + 1)
  BY <1>1
<1>3. PICK b : b = Min(I)
  OBVIOUS
<1>4. b \in I /\ \A i \in I : b <= i
  <2> HIDE DEF I
  <2> QED BY <1>2, <1>3, Least
<1>5. Since(s, cutoff) = SubSeq(s, b, Len(s))
  BY <1>3 DEF Since
<1>6. b \in 1..(Len(s) + 1) /\ (b <= Len(s) => s[b] >= cutoff)
      /\ \A i \in 1..Len(s) : i < b => ~(s[i] >= cutoff)
  BY <1>1, <1>4
<1>7. \A i \in 1..Len(s) : s[i] \in Nat
  OBVIOUS
<1>8. \A i \in 1..Len(s) : i < b => s[i] < cutoff
  BY <1>6, <1>7
<1> HIDE DEF I
<1>9. /\ Since(s, cutoff) \in Seq(Nat) /\ Len(Since(s, cutoff)) = Len(s) - b + 1
      /\ \A i \in 1..(Len(s) - b + 1) : Since(s, cutoff)[i] = s[b + i - 1]
  BY <1>1, <1>5, <1>6
<1>10. \A k \in 1..(Len(s) - b + 1) : FromEnd(Since(s, cutoff), k) = FromEnd(s, k)
  <2> SUFFICES ASSUME NEW k \in 1..(Len(s) - b + 1)
               PROVE  FromEnd(Since(s, cutoff), k) = FromEnd(s, k)
    OBVIOUS
  <2>1. (Len(s) - b + 1) - k + 1 \in 1..(Len(s) - b + 1)
    BY <1>1, <1>6
  <2>2. b + ((Len(s) - b + 1) - k + 1) - 1 = Len(s) - k + 1
    BY <1>1, <1>6
  <2> QED BY <1>9, <2>1, <2>2 DEF FromEnd
<1> QED BY <1>5, <1>6, <1>8, <1>9, <1>10

\* What is in the window stays, at its distance from the end.
LEMMA WindowKeeps ==
    ASSUME NEW s \in Seq(Nat), NEW cutoff \in Int, NEW k \in 1..Len(s), FromEnd(s, k) >= cutoff
    PROVE  k <= Len(Since(s, cutoff)) /\ FromEnd(Since(s, cutoff), k) = FromEnd(s, k)
<1>1. PICK b \in 1..(Len(s) + 1) :
        /\ Len(Since(s, cutoff)) = Len(s) - b + 1
        /\ \A i \in 1..Len(s) : i < b => s[i] < cutoff
        /\ \A j \in 1..(Len(s) - b + 1) : FromEnd(Since(s, cutoff), j) = FromEnd(s, j)
  BY WindowBegins
<1>2. Len(s) \in Nat
  OBVIOUS
<1>3. Len(s) - k + 1 \in 1..Len(s) /\ s[Len(s) - k + 1] >= cutoff /\ s[Len(s) - k + 1] \in Nat
  BY <1>2 DEF FromEnd
<1>4. ~(Len(s) - k + 1 < b)
  BY <1>1, <1>3
<1>5. k \in 1..(Len(s) - b + 1)
  BY <1>2, <1>4
<1> QED BY <1>1, <1>5

\* A later window holds no more, and one more time holds at most one more.
LEMMA WindowShrinks ==
    ASSUME NEW s \in Seq(Nat), NEW c \in Int, NEW d \in Int, c <= d
    PROVE  Len(Since(s, d)) <= Len(Since(s, c))
<1>1. PICK b \in 1..(Len(s) + 1) :
        Len(Since(s, c)) = Len(s) - b + 1 /\ \A i \in 1..Len(s) : i < b => s[i] < c
  BY WindowBegins
<1>2. PICK e \in 1..(Len(s) + 1) :
        Len(Since(s, d)) = Len(s) - e + 1 /\ (e <= Len(s) => s[e] >= d)
  BY WindowBegins
<1>3. Len(s) \in Nat /\ \A i \in 1..Len(s) : s[i] \in Nat
  OBVIOUS
<1>4. b <= e
  <2>1. SUFFICES ASSUME e < b  PROVE FALSE
    BY <1>3
  <2>2. e \in 1..Len(s)
    BY <1>3, <2>1
  <2>3. s[e] < c /\ s[e] >= d /\ s[e] \in Nat
    BY <1>1, <1>2, <1>3, <2>1, <2>2
  <2> QED BY <2>3
<1> QED BY <1>1, <1>2, <1>3, <1>4

LEMMA WindowGrows ==
    ASSUME NEW s \in Seq(Nat), NEW c \in Int, NEW n \in Nat
    PROVE  Len(Since(Append(s, n), c)) <= Len(Since(s, c)) + 1
<1> DEFINE t == Append(s, n)
<1>1. t \in Seq(Nat) /\ Len(t) = Len(s) + 1 /\ Len(s) \in Nat /\ \A i \in 1..Len(s) : t[i] = s[i]
  OBVIOUS
<1>2. PICK b \in 1..(Len(s) + 1) :
        Len(Since(s, c)) = Len(s) - b + 1 /\ \A i \in 1..Len(s) : i < b => s[i] < c
  BY WindowBegins
<1> HIDE DEF t
<1>3. PICK e \in 1..(Len(t) + 1) :
        Len(Since(t, c)) = Len(t) - e + 1 /\ (e <= Len(t) => t[e] >= c)
  BY <1>1, WindowBegins
<1>4. \A i \in 1..Len(s) : s[i] \in Nat
  OBVIOUS
<1>5. b <= e
  <2>1. SUFFICES ASSUME e < b  PROVE FALSE
    BY <1>1
  <2>2. e \in 1..Len(s)
    BY <1>1, <2>1
  <2>3. s[e] < c /\ s[e] >= c /\ s[e] \in Nat
    BY <1>1, <1>2, <1>3, <1>4, <2>1, <2>2
  <2> QED BY <2>3
<1>6. Len(Since(t, c)) <= Len(Since(s, c)) + 1
  BY <1>1, <1>2, <1>3, <1>5
<1> QED BY <1>6 DEF t

LEMMA CountedPruned ==
    ASSUME NEW w \in Seq(Nat), NEW f \in Seq(Nat), NEW c \in Int, Counted(w, f, c)
    PROVE  Counted(w, Since(f, c), c)
<1> SUFFICES ASSUME NEW k \in 1..MaxFailures, k <= Len(w), FromEnd(w, k) >= c
             PROVE  k <= Len(Since(f, c)) /\ FromEnd(Since(f, c), k) >= FromEnd(w, k)
  BY DEF Counted
<1>1. MaxFailures \in Nat /\ Len(w) \in Nat /\ Len(f) \in Nat /\ k \in Nat
  BY LimiterAssumption
<1>2. k <= Len(f) /\ FromEnd(f, k) >= FromEnd(w, k)
  BY DEF Counted
<1>3. FromEnd(w, k) \in Nat /\ FromEnd(f, k) \in Nat
  BY <1>1, <1>2 DEF FromEnd
<1>4. k \in 1..Len(f) /\ FromEnd(f, k) >= c
  BY <1>1, <1>2, <1>3
<1>5. k <= Len(Since(f, c)) /\ FromEnd(Since(f, c), k) = FromEnd(f, k)
  BY <1>4, WindowKeeps
<1> QED BY <1>2, <1>5

LEMMA CountedLater ==
    ASSUME NEW w \in Seq(Nat), NEW f \in Seq(Nat), NEW c \in Int, NEW d \in Int, c <= d,
           Counted(w, f, c)
    PROVE  Counted(w, f, d)
<1> SUFFICES ASSUME NEW k \in 1..MaxFailures, k <= Len(w), FromEnd(w, k) >= d
             PROVE  k <= Len(f) /\ FromEnd(f, k) >= FromEnd(w, k)
  BY DEF Counted
<1>1. MaxFailures \in Nat /\ Len(w) \in Nat /\ k \in Nat
  BY LimiterAssumption
<1>2. FromEnd(w, k) \in Nat
  BY <1>1 DEF FromEnd
<1>3. FromEnd(w, k) >= c
  BY <1>2
<1> QED BY <1>3 DEF Counted

\* The sequence that record_failure leaves, from its end: the time of this failure, then
\* what was in the window.
LEMMA RecordedTimes ==
    ASSUME NEW f \in Seq(Nat), NEW c \in Int, NEW n \in Nat
    PROVE  /\ Recorded(f, c, n) \in Seq(Nat)
           /\ Len(Recorded(f, c, n)) >= 1 /\ FromEnd(Recorded(f, c, n), 1) = n
           /\ \A k \in 2..MaxFailures : k <= Len(Since(f, c)) + 1 =>
                /\ k <= Len(Recorded(f, c, n))
                /\ FromEnd(Recorded(f, c, n), k) = FromEnd(Since(f, c), k - 1)
<1> DEFINE g == Since(f, c)
           t == Append(g, n)
<1>1. MaxFailures \in Nat \ {0}
  BY LimiterAssumption
<1>2. g \in Seq(Nat)
  BY WindowBegins
<1> HIDE DEF g
<1>3. t \in Seq(Nat) /\ Len(t) = Len(g) + 1 /\ Len(g) \in Nat /\ t[Len(t)] = n
      /\ \A i \in 1..Len(g) : t[i] = g[i]
  BY <1>2
<1> HIDE DEF t
<1>4. PICK b : b = IF Len(t) > MaxFailures THEN 2 ELSE 1
  OBVIOUS
<1>5. Recorded(f, c, n) = SubSeq(t, b, Len(t))
  BY <1>4 DEF Recorded, g, t
<1>6. PICK u : u = SubSeq(t, b, Len(t))
  OBVIOUS
<1>7. /\ b \in {1, 2} /\ b <= Len(t) /\ (b = 2 => Len(t) > MaxFailures)
  BY <1>1, <1>3, <1>4
<1>8. /\ u \in Seq(Nat) /\ Len(u) = Len(t) - b + 1
      /\ \A i \in 1..(Len(t) - b + 1) : u[i] = t[b + i - 1]
  <2>1. b \in Int /\ Len(t) \in Int /\ b <= Len(t)
    BY <1>3, <1>7
  <2>2. \A i \in b..Len(t) : t[i] \in Nat
    BY <1>3, <1>7
  <2>3. /\ SubSeq(t, b, Len(t)) \in Seq(Nat) /\ Len(SubSeq(t, b, Len(t))) = Len(t) - b + 1
        /\ \A i \in 1..(Len(t) - b + 1) : SubSeq(t, b, Len(t))[i] = t[b + i - 1]
    BY <2>1, <2>2, SubSeqProperties
  <2> QED BY <1>6, <2>3
<1>9. \A k \in 1..Len(u) : FromEnd(u, k) = FromEnd(t, k)
  <2> SUFFICES ASSUME NEW k \in 1..Len(u)  PROVE FromEnd(u, k) = FromEnd(t, k)
    OBVIOUS
  <2>1. Len(u) - k + 1 \in 1..(Len(t) - b + 1) /\ b + (Len(u) - k + 1) - 1 = Len(t) - k + 1
    BY <1>3, <1>7, <1>8
  <2> QED BY <1>8, <2>1 DEF FromEnd
<1>10. Len(u) >= 1 /\ FromEnd(u, 1) = n
  <2>1. 1 \in 1..Len(u) /\ Len(t) - 1 + 1 = Len(t)
    BY <1>3, <1>7, <1>8
  <2> QED BY <1>3, <1>9, <2>1 DEF FromEnd
<1>11. ASSUME NEW k \in 2..MaxFailures, k <= Len(g) + 1
       PROVE  k <= Len(u) /\ FromEnd(u, k) = FromEnd(g, k - 1)
  <2>1. k \in 1..Len(u)
    BY <1>1, <1>3, <1>7, <1>8, <1>11
  <2>2. Len(t) - k + 1 = Len(g) - (k - 1) + 1 /\ Len(t) - k + 1 \in 1..Len(g)
    BY <1>1, <1>3, <1>11
  <2>3. FromEnd(t, k) = FromEnd(g, k - 1)
    BY <1>3, <2>2 DEF FromEnd
  <2> QED BY <1>9, <2>1, <2>3
<1>12. \A k \in 2..MaxFailures : k <= Len(g) + 1 =>
         k <= Len(u) /\ FromEnd(u, k) = FromEnd(g, k - 1)
  BY <1>11
<1>13. u = Recorded(f, c, n)
  BY <1>5, <1>6
<1> QED BY <1>8, <1>10, <1>12, <1>13 DEF g

\* A failure that is no failed check moves every count one further.
LEMMA CountedRecorded ==
    ASSUME NEW w \in Seq(Nat), NEW f \in Seq(Nat), NEW c \in Int, NEW n \in Nat,
           InOrder(w, n), Counted(w, f, c)
    PROVE  Counted(w, Recorded(f, c, n), c)
<1> DEFINE g == Since(f, c)
<1> SUFFICES ASSUME NEW k \in 1..MaxFailures, k <= Len(w), FromEnd(w, k) >= c
             PROVE  k <= Len(Recorded(f, c, n)) /\ FromEnd(Recorded(f, c, n), k) >= FromEnd(w, k)
  BY DEF Counted
<1>1. MaxFailures \in Nat /\ Len(w) \in Nat /\ k \in 1..Len(w) /\ g \in Seq(Nat) /\ Len(g) \in Nat
  <2>1. g \in Seq(Nat)
    BY WindowBegins
  <2> HIDE DEF g
  <2> QED BY <2>1, LimiterAssumption
<1>2. FromEnd(w, k) \in Nat /\ FromEnd(w, k) <= n
  BY <1>1 DEF FromEnd, InOrder
<1>3. CASE k = 1
  BY <1>2, <1>3, RecordedTimes
<1>4. CASE k # 1
  <2>1. k - 1 \in 1..MaxFailures /\ k - 1 \in 1..Len(w) /\ k \in 2..MaxFailures
    BY <1>1, <1>4
  <2>2. FromEnd(w, k - 1) \in Nat /\ FromEnd(w, k) <= FromEnd(w, k - 1)
    <3>1. PICK i, j : i = Len(w) - k + 1 /\ j = Len(w) - (k - 1) + 1
      OBVIOUS
    <3>2. i \in 1..Len(w) /\ j \in 1..Len(w) /\ i <= j
      BY <1>1, <2>1, <3>1
    <3>3. w[j] \in Nat /\ w[i] <= w[j]
      BY <3>2 DEF InOrder
    <3> QED BY <3>1, <3>3 DEF FromEnd
  <2>3. FromEnd(w, k - 1) >= c
    BY <1>2, <2>2
  <2>4. Counted(w, g, c)
    BY CountedPruned
  <2>5. k - 1 <= Len(g) /\ FromEnd(g, k - 1) >= FromEnd(w, k - 1)
    BY <2>1, <2>3, <2>4 DEF Counted
  <2>6. k <= Len(g) + 1 /\ FromEnd(g, k - 1) \in Nat
    <3> HIDE DEF g
    <3>1. PICK i : i = Len(g) - (k - 1) + 1
      OBVIOUS
    <3>2. k <= Len(g) + 1 /\ i \in 1..Len(g)
      BY <1>1, <2>1, <2>5, <3>1
    <3>3. g[i] \in Nat
      BY <1>1, <3>2
    <3> QED BY <3>1, <3>2, <3>3 DEF FromEnd
  <2>7. k <= Len(Recorded(f, c, n)) /\ FromEnd(Recorded(f, c, n), k) = FromEnd(g, k - 1)
    BY <2>1, <2>6, RecordedTimes
  <2> QED BY <1>2, <2>2, <2>5, <2>6, <2>7
<1> QED BY <1>3, <1>4

\* A failed check is its own failure.
LEMMA CountedFailure ==
    ASSUME NEW w \in Seq(Nat), NEW f \in Seq(Nat), NEW c \in Int, NEW n \in Nat, Counted(w, f, c)
    PROVE  Counted(Append(w, n), Recorded(f, c, n), c)
<1> DEFINE g == Since(f, c)
<1>1. PICK v : v = Append(w, n)
  OBVIOUS
<1>2. v \in Seq(Nat) /\ Len(v) = Len(w) + 1 /\ Len(w) \in Nat /\ v[Len(v)] = n
      /\ \A i \in 1..Len(w) : v[i] = w[i]
  BY <1>1
<1> SUFFICES ASSUME NEW k \in 1..MaxFailures, k <= Len(v), FromEnd(v, k) >= c
             PROVE  k <= Len(Recorded(f, c, n)) /\ FromEnd(Recorded(f, c, n), k) >= FromEnd(v, k)
  BY <1>1 DEF Counted
<1>3. MaxFailures \in Nat /\ k \in Nat /\ g \in Seq(Nat) /\ Len(g) \in Nat
  <2>1. g \in Seq(Nat)
    BY WindowBegins
  <2> HIDE DEF g
  <2> QED BY <2>1, LimiterAssumption
<1>4. CASE k = 1
  <2>1. FromEnd(v, k) = n
    BY <1>2, <1>4 DEF FromEnd
  <2> QED BY <1>4, <2>1, RecordedTimes
<1>5. CASE k # 1
  <2>1. k - 1 \in 1..MaxFailures /\ k - 1 \in 1..Len(w) /\ k \in 2..MaxFailures
    BY <1>2, <1>3, <1>5
  <2>2. FromEnd(v, k) = FromEnd(w, k - 1)
    <3>1. Len(v) - k + 1 = Len(w) - (k - 1) + 1 /\ Len(v) - k + 1 \in 1..Len(w)
      BY <1>2, <2>1
    <3> QED BY <1>2, <3>1 DEF FromEnd
  <2>3. Counted(w, g, c)
    BY CountedPruned
  <2>4. k - 1 <= Len(g) /\ FromEnd(g, k - 1) >= FromEnd(w, k - 1)
    BY <2>1, <2>2, <2>3 DEF Counted
  <2>5. k <= Len(g) + 1
    BY <1>3, <2>4
  <2>6. k <= Len(Recorded(f, c, n)) /\ FromEnd(Recorded(f, c, n), k) = FromEnd(g, k - 1)
    BY <2>1, <2>5, RecordedTimes
  <2> QED BY <2>2, <2>4, <2>6
<1> QED BY <1>4, <1>5

\* An address that is not blocked has had no more failed checks than it has failures.
LEMMA CountedBound ==
    ASSUME NEW w \in Seq(Nat), NEW f \in Seq(Nat), NEW c \in Int, NEW n \in Nat, InOrder(w, n),
           Counted(w, f, c), Len(Since(f, c)) < MaxFailures
    PROVE  Len(Since(w, c)) <= MaxFailures - 1
<1>1. MaxFailures \in Nat /\ Len(w) \in Nat /\ Len(f) \in Nat /\ Since(f, c) \in Seq(Nat)
      /\ Len(Since(f, c)) \in Nat /\ \A i \in 1..Len(w) : w[i] \in Nat
  <2>1. Since(f, c) \in Seq(Nat)
    BY WindowBegins
  <2> QED BY <2>1, LimiterAssumption
<1>2. PICK b \in 1..(Len(w) + 1) :
        Len(Since(w, c)) = Len(w) - b + 1 /\ (b <= Len(w) => w[b] >= c)
  BY WindowBegins
<1> SUFFICES ASSUME Len(w) - b + 1 >= MaxFailures  PROVE FALSE
  BY <1>1, <1>2
<1>3. PICK k : k = Len(Since(f, c)) + 1
  OBVIOUS
<1>4. k \in 1..MaxFailures /\ k \in 1..Len(w) /\ k <= Len(w) - b + 1 /\ k > Len(Since(f, c))
  BY <1>1, <1>2, <1>3
<1>5. FromEnd(w, k) >= c
  <2>1. Len(w) - k + 1 \in 1..Len(w) /\ b \in 1..Len(w) /\ b <= Len(w) - k + 1
    BY <1>1, <1>2, <1>4
  <2>2. w[b] >= c /\ w[b] <= w[Len(w) - k + 1] /\ w[b] \in Nat /\ w[Len(w) - k + 1] \in Nat
    BY <1>1, <1>2, <2>1 DEF InOrder
  <2> QED BY <2>2 DEF FromEnd
<1>6. Counted(w, Since(f, c), c)
  BY CountedPruned
<1>7. k <= Len(Since(f, c))
  BY <1>4, <1>5, <1>6 DEF Counted
<1> QED BY <1>1, <1>4, <1>7


-----------------------------------------------------------------------------
(***************************************************************************)
(* The limiter                                                             *)
(***************************************************************************)
Checks(ip) == {t \in tasks : t.from = ip}

Cutoff == now - Window

LimiterTypeOK ==
    /\ now \in Nat
    /\ failures \in [Address -> Seq(Nat)] /\ wrong \in [Address -> Seq(Nat)]
    /\ DOMAIN caller = Caller
    /\ \A c \in Caller : caller[c].at = "queued" => caller[c].from \in Address
    /\ IsFiniteSet(tasks) /\ Cardinality(tasks) <= MaxAuth
    /\ \A t \in tasks : t.from \in Address

\* The checks of an address that are over and those that run are fewer than its
\* failures and the slots allow, and its failures count the checks that are over.
Bounded(ip) ==
    /\ Counted(wrong[ip], failures[ip], Cutoff)
    /\ Len(Recent(wrong[ip])) + Cardinality(Checks(ip)) <= MaxFailures - 1 + MaxAuth

LimiterIInv ==
    /\ LimiterTypeOK
    /\ \A ip \in Address : InOrder(wrong[ip], now)
    /\ \A ip \in Address \ evicted : Bounded(ip)

LEMMA LimiterInitIInv == LimiterInit => LimiterIInv
<1> SUFFICES ASSUME LimiterInit  PROVE LimiterIInv
  OBVIOUS
<1>1. MaxFailures \in Nat \ {0} /\ MaxAuth \in Nat \ {0} /\ Window \in Nat
  BY LimiterAssumption
<1>2. Cardinality(tasks) = 0 /\ IsFiniteSet(tasks) /\ tasks = {}
  BY FS_EmptySet DEF LimiterInit
<1>3. LimiterTypeOK
  BY <1>1, <1>2 DEF LimiterInit, LimiterTypeOK
<1>4. ASSUME NEW ip \in Address  PROVE InOrder(wrong[ip], now) /\ Bounded(ip)
  <2>1. wrong[ip] = <<>> /\ Checks(ip) = {} /\ now = 0
    BY <1>2, <1>4 DEF LimiterInit, Checks
  <2>2. InOrder(<<>>, now) /\ Counted(<<>>, failures[ip], Cutoff)
    BY DEF InOrder, Counted
  <2>3. <<>> \in Seq(Nat) /\ Cutoff \in Int /\ Len(<<>>) = 0
    BY <1>1, <2>1 DEF Cutoff
  <2>4. PICK e \in Seq(Nat) : e = <<>>
    BY <2>3
  <2>5. Len(Since(e, Cutoff)) = 0
    <3>1. PICK b \in 1..(Len(e) + 1) : Len(Since(e, Cutoff)) = Len(e) - b + 1
      BY <2>3, WindowBegins
    <3> QED BY <2>3, <2>4, <3>1
  <2>6. Len(Recent(wrong[ip])) = 0
    BY <2>1, <2>4, <2>5 DEF Recent, Cutoff
  <2> QED BY <1>1, <1>2, <2>1, <2>2, <2>6 DEF Bounded
<1> QED BY <1>3, <1>4 DEF LimiterIInv

\* What a table operation may do to the failures of an address.
Forgets(ip) ==
    \/ failures'[ip] \in {failures[ip], Recent(failures[ip])}
    \/ ip \in evicted'

Records(ip) == failures'[ip] = Recorded(failures[ip], Cutoff, now)

LEMMA PruneForgets ==
    ASSUME LimiterIInv, NEW ip \in Address, Prune(ip)
    PROVE  failures' \in [Address -> Seq(Nat)] /\ \A a \in Address : Forgets(a)
<1>1. failures' = [a \in Address |-> IF a = ip \/ now >= nextPrune THEN Recent(failures[a])
                                                                ELSE failures[a]]
  BY DEF Prune, Cleaned
<1>2. \A a \in Address : Recent(failures[a]) \in Seq(Nat) /\ failures[a] \in Seq(Nat)
  <2> SUFFICES ASSUME NEW a \in Address  PROVE Recent(failures[a]) \in Seq(Nat) /\ failures[a] \in Seq(Nat)
    OBVIOUS
  <2>1. failures[a] \in Seq(Nat) /\ now - Window \in Int
    BY LimiterAssumption DEF LimiterIInv, LimiterTypeOK
  <2> QED BY <2>1, WindowBegins DEF Recent
<1> QED BY <1>1, <1>2 DEF Forgets

LEMMA RecordFailureRecords ==
    ASSUME LimiterIInv, NEW ip \in Address, RecordFailure(ip)
    PROVE  /\ failures' \in [Address -> Seq(Nat)] /\ evicted \subseteq evicted'
           /\ Records(ip) /\ \A a \in Address \ {ip} : Forgets(a)
<1>1. PICK kept, full :
        /\ failures' = [a \in Address |->
              IF a = ip THEN SubSeq(Append(Cleaned(ip)[ip], now),
                                    IF Len(Append(Cleaned(ip)[ip], now)) > MaxFailures THEN 2 ELSE 1,
                                    Len(Append(Cleaned(ip)[ip], now)))
              ELSE IF full /\ a = Head(kept) THEN <<>> ELSE Cleaned(ip)[a]]
        /\ evicted' = IF full THEN evicted \cup {Head(kept)} ELSE evicted
  BY DEF RecordFailure
<1>2. Cleaned(ip)[ip] = Since(failures[ip], Cutoff)
      /\ \A a \in Address : Cleaned(ip)[a] \in {failures[a], Recent(failures[a])}
  BY DEF Cleaned, Recent, Cutoff
<1>3. \A a \in Address : Recent(failures[a]) \in Seq(Nat) /\ failures[a] \in Seq(Nat)
                         /\ Recorded(failures[a], Cutoff, now) \in Seq(Nat)
  <2> SUFFICES ASSUME NEW a \in Address
               PROVE  Recent(failures[a]) \in Seq(Nat) /\ failures[a] \in Seq(Nat)
                      /\ Recorded(failures[a], Cutoff, now) \in Seq(Nat)
    OBVIOUS
  <2>1. failures[a] \in Seq(Nat) /\ Cutoff \in Int /\ now \in Nat
    BY LimiterAssumption DEF LimiterIInv, LimiterTypeOK, Cutoff
  <2>2. Since(failures[a], Cutoff) \in Seq(Nat)
    BY <2>1, WindowBegins
  <2>3. Recorded(failures[a], Cutoff, now) \in Seq(Nat)
    BY <2>1, RecordedTimes
  <2> QED BY <2>1, <2>2, <2>3 DEF Recent, Cutoff
<1>4. Records(ip)
  BY <1>1, <1>2 DEF Records, Recorded
<1>5. \A a \in Address \ {ip} :
        \/ failures'[a] = Cleaned(ip)[a]
        \/ failures'[a] = <<>> /\ a \in evicted'
  BY <1>1
<1>6. \A a \in Address \ {ip} : Forgets(a)
  BY <1>2, <1>5 DEF Forgets
<1>7. \A a \in Address : failures'[a] \in Seq(Nat)
  <2> SUFFICES ASSUME NEW a \in Address  PROVE failures'[a] \in Seq(Nat)
    OBVIOUS
  <2>1. CASE a = ip
    BY <1>3, <1>4, <2>1 DEF Records
  <2>2. CASE a # ip
    <3>1. Cleaned(ip)[a] \in Seq(Nat)
      BY <1>2, <1>3
    <3>2. <<>> \in Seq(Nat)
      OBVIOUS
    <3> QED BY <1>5, <2>2, <3>1, <3>2
  <2> QED BY <2>1, <2>2
<1>8. failures' = [a \in Address |-> failures'[a]]
  BY <1>1
<1> QED BY <1>1, <1>4, <1>6, <1>7, <1>8

\* A step that ends no failed check keeps the bound of every address it starts no check of.
LEMMA BoundKept ==
    ASSUME LimiterIInv, NEW ip \in Address \ evicted, ip \notin evicted', now' = now,
           wrong'[ip] = wrong[ip], Forgets(ip) \/ Records(ip), Cardinality(Checks(ip)') <= Cardinality(Checks(ip)),
           Cardinality(Checks(ip)') \in Nat, Cardinality(Checks(ip)) \in Nat
    PROVE  Bounded(ip)'
<1>1. /\ now \in Nat /\ Cutoff \in Int /\ Cutoff' = Cutoff /\ MaxFailures \in Nat /\ MaxAuth \in Nat
      /\ wrong[ip] \in Seq(Nat) /\ failures[ip] \in Seq(Nat) /\ InOrder(wrong[ip], now)
      /\ Counted(wrong[ip], failures[ip], Cutoff)
  BY LimiterAssumption DEF LimiterIInv, LimiterTypeOK, Bounded, Cutoff
<1>2. Counted(wrong[ip], failures'[ip], Cutoff)
  <2>1. CASE failures'[ip] = failures[ip]
    BY <1>1, <2>1
  <2>2. CASE failures'[ip] = Recent(failures[ip])
    <3>1. failures'[ip] = Since(failures[ip], Cutoff)
      BY <2>2 DEF Recent, Cutoff
    <3>2. Counted(wrong[ip], Since(failures[ip], Cutoff), Cutoff)
      BY <1>1, CountedPruned
    <3> QED BY <3>1, <3>2
  <2>3. CASE Records(ip)
    <3>1. Counted(wrong[ip], Recorded(failures[ip], Cutoff, now), Cutoff)
      BY <1>1, CountedRecorded
    <3> QED BY <2>3, <3>1 DEF Records
  <2> QED BY <2>1, <2>2, <2>3 DEF Forgets
<1>3. Counted(wrong[ip], failures[ip], Cutoff)'
  BY <1>1, <1>2 DEF Counted
<1>4. Recent(wrong[ip])' = Recent(wrong[ip]) /\ Len(Recent(wrong[ip])) \in Nat
  <2>1. Since(wrong[ip], Cutoff) \in Seq(Nat)
    BY <1>1, WindowBegins
  <2> QED BY <2>1 DEF Recent, Cutoff
<1>5. Len(Recent(wrong[ip])) + Cardinality(Checks(ip)) <= MaxFailures - 1 + MaxAuth
  BY DEF LimiterIInv, Bounded
<1> QED BY <1>1, <1>3, <1>4, <1>5 DEF Bounded


\* A table operation of one address.
TableStep(ip) ==
    /\ failures' \in [Address -> Seq(Nat)] /\ evicted \subseteq evicted'
    /\ \A a \in Address : Forgets(a) \/ (a = ip /\ Records(a))

LEMMA TableSteps ==
    ASSUME LimiterIInv, NEW ip \in Address, (Prune(ip) /\ evicted' = evicted) \/ RecordFailure(ip)
    PROVE  TableStep(ip)
BY PruneForgets, RecordFailureRecords DEF TableStep

LEMMA ChecksFinite ==
    ASSUME LimiterIInv, NEW ip
    PROVE  /\ IsFiniteSet(Checks(ip)) /\ Cardinality(Checks(ip)) \in Nat
           /\ Cardinality(Checks(ip)) <= Cardinality(tasks)
<1>1. IsFiniteSet(tasks) /\ Checks(ip) \in SUBSET tasks
  BY DEF LimiterIInv, LimiterTypeOK, Checks
<1> QED BY <1>1, FS_Subset, FS_CardinalityType

\* A step of the table that starts and ends no check.
LEMMA TableOnly ==
    ASSUME LimiterIInv, NEW ip \in Address, TableStep(ip),
           UNCHANGED <<now, tasks, wrong>>, DOMAIN caller' = Caller,
           \A c \in Caller : caller'[c].at = "queued" => caller'[c].from \in Address
    PROVE  LimiterIInv'
<1>1. LimiterTypeOK'
  BY DEF LimiterIInv, LimiterTypeOK, TableStep
<1>2. (\A a \in Address : InOrder(wrong[a], now))'
  BY DEF LimiterIInv, InOrder
<1>3. ASSUME NEW a \in Address \ evicted'  PROVE Bounded(a)'
  <2>1. a \notin evicted /\ (Forgets(a) \/ Records(a))
    BY DEF TableStep
  <2>2. Checks(a)' = Checks(a)
    BY DEF Checks
  <2>3. Cardinality(Checks(a)) \in Nat
    BY ChecksFinite
  <2>4. Cardinality(Checks(a)') <= Cardinality(Checks(a)) /\ Cardinality(Checks(a)') \in Nat
    BY <2>2, <2>3
  <2> QED BY <2>1, <2>3, <2>4, BoundKept
<1> QED BY <1>1, <1>2, <1>3 DEF LimiterIInv

LEMMA ArriveKeeps ==
    ASSUME LimiterIInv, NEW c \in Caller, NEW ip \in Address, NEW shown, Arrive(c, ip, shown)
    PROVE  LimiterIInv'
<1>1. UNCHANGED <<now, tasks, wrong>> /\ ((Prune(ip) /\ evicted' = evicted) \/ RecordFailure(ip))
  BY DEF Arrive
<1>2. \/ caller' = caller
      \/ caller' = [caller EXCEPT ![c] = [at |-> "queued", from |-> ip, shown |-> shown]]
  BY DEF Arrive
<1>3. DOMAIN caller' = Caller
      /\ \A o \in Caller : caller'[o].at = "queued" => caller'[o].from \in Address
  <2>1. CASE caller' = caller
    BY <2>1 DEF LimiterIInv, LimiterTypeOK
  <2>2. CASE caller' = [caller EXCEPT ![c] = [at |-> "queued", from |-> ip, shown |-> shown]]
    <3>1. PICK q : q = [at |-> "queued", from |-> ip, shown |-> shown]
      OBVIOUS
    <3>2. q.from = ip /\ caller' = [caller EXCEPT ![c] = q]
      BY <2>2, <3>1
    <3> QED BY <3>2 DEF LimiterIInv, LimiterTypeOK
  <2> QED BY <1>2, <2>1, <2>2
<1> QED BY <1>1, <1>3, TableSteps, TableOnly

LEMMA AuthenticateKeeps ==
    ASSUME LimiterIInv, NEW c \in Caller, Authenticate(c)  PROVE LimiterIInv'
<1>1. PICK ip : ip = caller[c].from
  OBVIOUS
<1>2. ip \in Address
  BY <1>1 DEF Authenticate, LimiterIInv, LimiterTypeOK
<1>3. UNCHANGED <<now, wrong>> /\ ((Prune(ip) /\ evicted' = evicted) \/ RecordFailure(ip))
  BY <1>1 DEF Authenticate
<1>4. TableStep(ip)
  BY <1>2, <1>3, TableSteps
<1>5. DOMAIN caller' = Caller
      /\ \A o \in Caller : caller'[o].at = "queued" => caller'[o].from \in Address
  <2>1. PICK q : caller' = [caller EXCEPT ![c] = q] /\ q.at # "queued"
    <3>1. [at |-> "idle"].at # "queued" /\ [at |-> "verifying", gone |-> FALSE].at # "queued"
      OBVIOUS
    <3> QED BY <3>1 DEF Authenticate
  <2> QED BY <2>1 DEF LimiterIInv, LimiterTypeOK
<1>6. CASE tasks' = tasks
  BY <1>2, <1>3, <1>4, <1>5, <1>6, TableOnly
<1>7. CASE /\ ~Blocked(ip) /\ Cardinality(tasks) < MaxAuth
           /\ \E right : tasks' = tasks \cup {[of |-> c, from |-> ip, right |-> right]}
  <2>1. PICK t : tasks' = tasks \cup {t} /\ t.from = ip
    <3>1. PICK right : tasks' = tasks \cup {[of |-> c, from |-> ip, right |-> right]}
      BY <1>7
    <3>2. [of |-> c, from |-> ip, right |-> right].from = ip
      OBVIOUS
    <3> QED BY <3>1, <3>2
  <2>2. IsFiniteSet(tasks) /\ Cardinality(tasks) \in Nat /\ MaxAuth \in Nat /\ MaxFailures \in Nat
    BY LimiterAssumption, FS_CardinalityType DEF LimiterIInv, LimiterTypeOK
  <2>3. IsFiniteSet(tasks') /\ Cardinality(tasks') <= MaxAuth /\ Cardinality(tasks') \in Nat
    <3>1. IsFiniteSet(tasks') /\ (Cardinality(tasks') = Cardinality(tasks)
                                  \/ Cardinality(tasks') = Cardinality(tasks) + 1)
      BY <2>1, <2>2, FS_AddElement
    <3> QED BY <1>7, <2>2, <3>1
  <2>4. LimiterTypeOK'
    BY <1>2, <1>3, <1>4, <1>5, <2>1, <2>3 DEF LimiterIInv, LimiterTypeOK, TableStep
  <2>5. (\A a \in Address : InOrder(wrong[a], now))'
    BY <1>3 DEF LimiterIInv, InOrder
  <2>6. ASSUME NEW a \in Address \ evicted', a # ip  PROVE Bounded(a)'
    <3>1. a \notin evicted /\ Forgets(a)
      BY <1>4, <2>6 DEF TableStep
    <3>2. Checks(a)' = Checks(a)
      BY <2>1, <2>6 DEF Checks
    <3>3. Cardinality(Checks(a)) \in Nat
      BY ChecksFinite
    <3>4. Cardinality(Checks(a)') <= Cardinality(Checks(a)) /\ Cardinality(Checks(a)') \in Nat
      BY <3>2, <3>3
    <3> QED BY <1>3, <3>1, <3>3, <3>4, BoundKept
  <2>7. ASSUME ip \notin evicted'  PROVE Bounded(ip)'
    <3>1. ip \notin evicted /\ (Forgets(ip) \/ Records(ip))
      BY <1>2, <1>4, <2>7 DEF TableStep
    <3>2. /\ wrong[ip] \in Seq(Nat) /\ failures[ip] \in Seq(Nat) /\ InOrder(wrong[ip], now)
          /\ Counted(wrong[ip], failures[ip], Cutoff) /\ Cutoff \in Int /\ now \in Nat
      BY <1>2, <3>1, LimiterAssumption DEF LimiterIInv, LimiterTypeOK, Bounded, Cutoff
    <3>3. Len(Since(failures[ip], Cutoff)) < MaxFailures
      <4>1. Since(failures[ip], Cutoff) \in Seq(Nat)
        BY <3>2, WindowBegins
      <4>2. Len(Since(failures[ip], Cutoff)) \in Nat
        BY <4>1
      <4>3. ~(Len(Since(failures[ip], Cutoff)) >= MaxFailures)
        BY <1>7 DEF Blocked, Recent, Cutoff
      <4> QED BY <2>2, <4>2, <4>3
    <3>4. Len(Since(wrong[ip], Cutoff)) <= MaxFailures - 1
      BY <3>2, <3>3, CountedBound
    <3>5. Checks(ip)' \in SUBSET tasks'
      BY DEF Checks
    <3>6. Cardinality(Checks(ip)') <= MaxAuth /\ Cardinality(Checks(ip)') \in Nat
      <4>1. IsFiniteSet(Checks(ip)') /\ Cardinality(Checks(ip)') <= Cardinality(tasks')
        BY <2>3, <3>5, FS_Subset
      <4>2. Cardinality(Checks(ip)') \in Nat
        BY <4>1, FS_CardinalityType
      <4> QED BY <2>2, <2>3, <4>1, <4>2
    <3>7. Len(Recent(wrong[ip]))' = Len(Since(wrong[ip], Cutoff)) /\ Len(Since(wrong[ip], Cutoff)) \in Nat
      <4>1. Since(wrong[ip], Cutoff) \in Seq(Nat)
        BY <3>2, WindowBegins
      <4> QED BY <1>3, <4>1 DEF Recent, Cutoff
    <3>8. Counted(wrong[ip], failures[ip], Cutoff)'
      <4>1. CASE failures'[ip] = failures[ip]
        BY <1>3, <3>2, <4>1 DEF Counted, Cutoff
      <4>2. CASE failures'[ip] = Recent(failures[ip])
        <5>1. Counted(wrong[ip], Since(failures[ip], Cutoff), Cutoff)
          BY <3>2, CountedPruned
        <5>2. failures'[ip] = Since(failures[ip], Cutoff) /\ Cutoff' = Cutoff /\ wrong' = wrong
          BY <1>3, <4>2 DEF Recent, Cutoff
        <5> QED BY <5>1, <5>2 DEF Counted
      <4>3. CASE Records(ip)
        <5>1. Counted(wrong[ip], Recorded(failures[ip], Cutoff, now), Cutoff)
          BY <3>2, CountedRecorded
        <5>2. failures'[ip] = Recorded(failures[ip], Cutoff, now) /\ Cutoff' = Cutoff /\ wrong' = wrong
          BY <1>3, <4>3 DEF Records, Cutoff
        <5> QED BY <5>1, <5>2 DEF Counted
      <4> QED BY <2>7, <3>1, <4>1, <4>2, <4>3 DEF Forgets
    <3> QED BY <2>2, <3>4, <3>6, <3>7, <3>8 DEF Bounded
  <2> QED BY <2>4, <2>5, <2>6, <2>7 DEF LimiterIInv
<1> QED BY <1>1, <1>6, <1>7 DEF Authenticate


LEMMA FinishKeeps ==
    ASSUME LimiterIInv, NEW t \in tasks, FinishCheck(t)  PROVE LimiterIInv'
<1>1. PICK ip : ip = t.from
  OBVIOUS
<1>2. ip \in Address /\ tasks' = tasks \ {t} /\ now' = now /\ t \in Checks(ip)
  BY <1>1 DEF FinishCheck, LimiterIInv, LimiterTypeOK, Checks
<1>3. DOMAIN caller' = Caller
      /\ \A o \in Caller : caller'[o].at = "queued" => caller'[o].from \in Address
  <2>1. PICK q : caller' = [caller EXCEPT ![t.of] = q] /\ q.at # "queued"
    <3>1. [at |-> "idle"].at # "queued"
      OBVIOUS
    <3> QED BY <3>1 DEF FinishCheck
  <2> QED BY <2>1 DEF LimiterIInv, LimiterTypeOK
<1>4. /\ IsFiniteSet(tasks') /\ Cardinality(tasks') <= MaxAuth
      /\ \A x \in tasks' : x.from \in Address
  <2>1. IsFiniteSet(tasks) /\ Cardinality(tasks) <= MaxAuth /\ MaxAuth \in Nat
        /\ \A x \in tasks : x.from \in Address
    BY LimiterAssumption DEF LimiterIInv, LimiterTypeOK
  <2>2. IsFiniteSet(tasks') /\ Cardinality(tasks') = Cardinality(tasks) - 1
        /\ Cardinality(tasks) \in Nat
    BY <1>2, <2>1, FS_RemoveElement, FS_CardinalityType
  <2> QED BY <1>2, <2>1, <2>2
<1>5. \A a \in Address : a # ip => Checks(a)' = Checks(a)
  BY <1>1, <1>2 DEF Checks
<1>6. /\ Cardinality(Checks(ip)') = Cardinality(Checks(ip)) - 1
      /\ Cardinality(Checks(ip)) \in Nat /\ Cardinality(Checks(ip)') \in Nat
  <2>1. Checks(ip)' = Checks(ip) \ {t} /\ IsFiniteSet(Checks(ip))
    BY <1>2, ChecksFinite DEF Checks
  <2> QED BY <1>2, <2>1, FS_RemoveElement, FS_CardinalityType
<1>7. \A a \in Address : /\ Cardinality(Checks(a)') <= Cardinality(Checks(a))
                         /\ Cardinality(Checks(a)) \in Nat /\ Cardinality(Checks(a)') \in Nat
  BY <1>5, <1>6, ChecksFinite
<1>8. CASE t.right
  <2>1. UNCHANGED <<now, failures, wrong, evicted>>
    BY <1>8 DEF FinishCheck
  <2>2. LimiterTypeOK'
    BY <1>3, <1>4, <2>1 DEF LimiterIInv, LimiterTypeOK
  <2>3. (\A a \in Address : InOrder(wrong[a], now))'
    BY <2>1 DEF LimiterIInv, InOrder
  <2>4. ASSUME NEW a \in Address \ evicted'  PROVE Bounded(a)'
    <3>1. Forgets(a) /\ a \notin evicted
      BY <2>1, <2>4 DEF Forgets
    <3> QED BY <1>7, <2>1, <3>1, BoundKept
  <2> QED BY <2>2, <2>3, <2>4 DEF LimiterIInv
<1>9. CASE ~t.right
  <2>1. RecordFailure(ip) /\ wrong' = [wrong EXCEPT ![ip] = Append(@, now)]
    BY <1>1, <1>9 DEF FinishCheck
  <2>2. TableStep(ip) /\ Records(ip) /\ \A a \in Address \ {ip} : Forgets(a)
    BY <1>2, <2>1, TableSteps, RecordFailureRecords
  <2>3. PICK w : w = wrong[ip]
    OBVIOUS
  <2>4. PICK v : v = Append(w, now)
    OBVIOUS
  <2>5. /\ wrong \in [Address -> Seq(Nat)] /\ w \in Seq(Nat) /\ now \in Nat /\ InOrder(w, now)
        /\ failures[ip] \in Seq(Nat) /\ Cutoff \in Int /\ MaxFailures \in Nat /\ MaxAuth \in Nat
    BY <1>2, <2>3, LimiterAssumption DEF LimiterIInv, LimiterTypeOK, Cutoff
  <2>6. /\ v \in Seq(Nat) /\ Len(v) = Len(w) + 1 /\ Len(w) \in Nat /\ v[Len(v)] = now
        /\ \A i \in 1..Len(w) : v[i] = w[i]
    BY <2>4, <2>5
  <2>7. wrong' \in [Address -> Seq(Nat)] /\ wrong'[ip] = v
        /\ \A a \in Address \ {ip} : wrong'[a] = wrong[a]
    BY <1>2, <2>1, <2>3, <2>4, <2>5, <2>6
  <2>8. LimiterTypeOK'
    BY <1>2, <1>3, <1>4, <2>2, <2>7 DEF LimiterIInv, LimiterTypeOK, TableStep
  <2>9. InOrder(v, now)
    <3>1. \A i \in 1..Len(w) : w[i] \in Nat
      BY <2>5
    <3>2. \A i \in 1..Len(v) : i \in 1..Len(w) \/ i = Len(v)
      BY <2>6
    <3>3. \A i \in 1..Len(v) : v[i] <= now
      BY <2>5, <2>6, <3>2 DEF InOrder
    <3>4. ASSUME NEW i \in 1..Len(v), NEW j \in 1..Len(v), i <= j  PROVE v[i] <= v[j]
      <4>1. CASE j = Len(v)
        BY <2>6, <3>3, <4>1
      <4>2. CASE j # Len(v)
        <5>1. i \in 1..Len(w) /\ j \in 1..Len(w)
          BY <2>6, <3>2, <3>4, <4>2
        <5> QED BY <2>5, <2>6, <3>4, <5>1 DEF InOrder
      <4> QED BY <4>1, <4>2
    <3> QED BY <3>3, <3>4 DEF InOrder
  <2>10. (\A a \in Address : InOrder(wrong[a], now))'
    <3>1. \A a \in Address : InOrder(wrong'[a], now)
      BY <2>7, <2>9 DEF LimiterIInv
    <3> QED BY <1>2, <3>1 DEF InOrder
  <2>11. ASSUME NEW a \in Address \ evicted', a # ip  PROVE Bounded(a)'
    <3>1. Forgets(a) /\ a \notin evicted /\ wrong'[a] = wrong[a]
      BY <2>2, <2>7, <2>11 DEF TableStep
    <3> QED BY <1>2, <1>7, <3>1, BoundKept
  <2>12. ASSUME ip \notin evicted'  PROVE Bounded(ip)'
    <3>1. ip \notin evicted
      BY <2>2, <2>12 DEF TableStep
    <3>2. /\ Counted(w, failures[ip], Cutoff)
          /\ Len(Since(w, Cutoff)) + Cardinality(Checks(ip)) <= MaxFailures - 1 + MaxAuth
      BY <1>2, <2>3, <3>1 DEF LimiterIInv, Bounded, Recent, Cutoff
    <3>3. Counted(v, Recorded(failures[ip], Cutoff, now), Cutoff)
      BY <2>4, <2>5, <3>2, CountedFailure
    <3>4. Counted(wrong[ip], failures[ip], Cutoff)'
      <4>1. failures'[ip] = Recorded(failures[ip], Cutoff, now) /\ Cutoff' = Cutoff
        BY <1>2, <2>2 DEF Records, Cutoff
      <4> QED BY <2>7, <3>3, <4>1 DEF Counted
    <3>5. Len(Since(v, Cutoff)) <= Len(Since(w, Cutoff)) + 1
      BY <2>4, <2>5, WindowGrows
    <3>6. Len(Since(v, Cutoff)) \in Nat /\ Len(Since(w, Cutoff)) \in Nat
      <4>1. Since(v, Cutoff) \in Seq(Nat) /\ Since(w, Cutoff) \in Seq(Nat)
        BY <2>5, <2>6, WindowBegins
      <4> QED BY <4>1
    <3>7. Len(Recent(wrong[ip]))' = Len(Since(v, Cutoff))
      BY <1>2, <2>7 DEF Recent, Cutoff
    <3>8. Len(Since(v, Cutoff)) + Cardinality(Checks(ip)') <= MaxFailures - 1 + MaxAuth
      BY <1>6, <2>5, <3>2, <3>5, <3>6
    <3> QED BY <3>4, <3>7, <3>8 DEF Bounded
  <2> QED BY <2>8, <2>10, <2>11, <2>12 DEF LimiterIInv
<1> QED BY <1>8, <1>9

LEMMA TickKeeps == ASSUME LimiterIInv, Tick PROVE LimiterIInv'
<1>1. now' = now + 1 /\ UNCHANGED <<failures, caller, tasks, wrong, evicted>>
  BY DEF Tick
<1>2. LimiterTypeOK' /\ now \in Nat
  BY <1>1 DEF LimiterIInv, LimiterTypeOK
<1>3. (\A a \in Address : InOrder(wrong[a], now))'
  <2> SUFFICES ASSUME NEW a \in Address  PROVE InOrder(wrong[a], now)'
    OBVIOUS
  <2>1. wrong[a] \in Seq(Nat) /\ InOrder(wrong[a], now)
    BY DEF LimiterIInv, LimiterTypeOK
  <2>2. \A i \in 1..Len(wrong[a]) : wrong[a][i] \in Nat /\ wrong[a][i] <= now + 1
    BY <1>2, <2>1 DEF InOrder
  <2> QED BY <1>1, <2>1, <2>2 DEF InOrder
<1>4. ASSUME NEW a \in Address \ evicted'  PROVE Bounded(a)'
  <2>1. PICK d : d = now + 1 - Window
    OBVIOUS
  <2>2. /\ wrong[a] \in Seq(Nat) /\ failures[a] \in Seq(Nat) /\ Bounded(a)
        /\ Cutoff \in Int /\ d \in Int /\ Cutoff <= d /\ MaxFailures \in Nat /\ MaxAuth \in Nat
    BY <1>1, <1>2, <2>1, LimiterAssumption DEF LimiterIInv, LimiterTypeOK, Cutoff
  <2>3. Counted(wrong[a], failures[a], d) /\ Len(Since(wrong[a], d)) <= Len(Since(wrong[a], Cutoff))
    BY <2>2, CountedLater, WindowShrinks DEF Bounded
  <2>4. Len(Since(wrong[a], d)) \in Nat /\ Len(Since(wrong[a], Cutoff)) \in Nat
    <3>1. Since(wrong[a], d) \in Seq(Nat) /\ Since(wrong[a], Cutoff) \in Seq(Nat)
      BY <2>2, WindowBegins
    <3> QED BY <3>1
  <2>5. Cardinality(Checks(a)) \in Nat /\ Checks(a)' = Checks(a)
    BY <1>1, ChecksFinite DEF Checks
  <2>6. Counted(wrong[a], failures[a], Cutoff)'
    <3>1. Cutoff' = d
      BY <1>1, <1>2, <2>1, LimiterAssumption DEF Cutoff
    <3> QED BY <1>1, <2>3, <3>1 DEF Counted
  <2>7. Len(Recent(wrong[a]))' = Len(Since(wrong[a], d))
        /\ Len(Recent(wrong[a])) = Len(Since(wrong[a], Cutoff))
    BY <1>1, <1>2, <2>1, LimiterAssumption DEF Recent, Cutoff
  <2>8. Len(Since(wrong[a], d)) + Cardinality(Checks(a)') <= MaxFailures - 1 + MaxAuth
    <3>1. Len(Since(wrong[a], Cutoff)) + Cardinality(Checks(a)) <= MaxFailures - 1 + MaxAuth
      BY <2>2, <2>7 DEF Bounded
    <3> QED BY <2>2, <2>3, <2>4, <2>5, <3>1
  <2> QED BY <2>6, <2>7, <2>8 DEF Bounded
<1> QED BY <1>2, <1>3, <1>4 DEF LimiterIInv

LEMMA LimiterNextIInv == LimiterIInv /\ [LimiterNext]_limiterVars => LimiterIInv'
<1> SUFFICES ASSUME LimiterIInv, [LimiterNext]_limiterVars  PROVE LimiterIInv'
  OBVIOUS
<1>1. CASE UNCHANGED limiterVars
  BY <1>1 DEF limiterVars, LimiterIInv, LimiterTypeOK, InOrder, Bounded, Counted, Checks, Recent, Cutoff
<1>2. ASSUME NEW c \in Caller, NEW ip \in Address, NEW shown \in Presented, Arrive(c, ip, shown)
      PROVE  LimiterIInv'
  BY <1>2, ArriveKeeps
<1>3. ASSUME NEW c \in Caller, Authenticate(c)  PROVE LimiterIInv'
  BY <1>3, AuthenticateKeeps
<1>4. ASSUME NEW c \in Caller, LeaveCheck(c) \/ LeaveQueue(c)  PROVE LimiterIInv'
  <2>1. UNCHANGED <<now, failures, tasks, wrong, evicted>>
    BY <1>4 DEF LeaveCheck, LeaveQueue
  <2>2. DOMAIN caller' = Caller
        /\ \A o \in Caller : caller'[o].at = "queued" => caller'[o].from \in Address
    <3>1. PICK q : caller' = [caller EXCEPT ![c] = q] /\ q.at # "queued"
      <4>1. CASE LeaveQueue(c)
        <5>1. [at |-> "idle"].at # "queued"
          OBVIOUS
        <5> QED BY <4>1, <5>1 DEF LeaveQueue
      <4>2. CASE LeaveCheck(c)
        <5>1. PICK o : o = caller[c]
          OBVIOUS
        <5>2. o.at = "verifying" /\ caller' = [caller EXCEPT ![c] = [o EXCEPT !.gone = TRUE]]
          BY <4>2, <5>1 DEF LeaveCheck, LimiterIInv, LimiterTypeOK
        <5>3. [o EXCEPT !.gone = TRUE].at = o.at
          OBVIOUS
        <5> QED BY <5>2, <5>3
      <4> QED BY <1>4, <4>1, <4>2
    <3> QED BY <3>1 DEF LimiterIInv, LimiterTypeOK
  <2>3. LimiterTypeOK'
    BY <2>1, <2>2 DEF LimiterIInv, LimiterTypeOK
  <2> QED BY <2>1, <2>3 DEF LimiterIInv, InOrder, Bounded, Counted, Checks, Recent, Cutoff
<1>5. ASSUME NEW t \in tasks, FinishCheck(t)  PROVE LimiterIInv'
  BY <1>5, FinishKeeps
<1>6. CASE Tick
  BY <1>6, TickKeeps
<1> QED BY <1>1, <1>2, <1>3, <1>4, <1>5, <1>6 DEF LimiterNext

(***************************************************************************)
(* However the callers of an address queue, leave and race, and whatever   *)
(* the other addresses do to the table, one window holds fewer of its      *)
(* failed password checks than the failures that block it and the slots.   *)
(***************************************************************************)
THEOREM GuessesStayBounded == LimiterSpec => []GuessesBounded
<1>1. LimiterSpec => []LimiterIInv
  BY LimiterInitIInv, LimiterNextIInv, PTL DEF LimiterSpec
<1>2. LimiterIInv => GuessesBounded
  <2> SUFFICES ASSUME LimiterIInv, NEW ip \in Address \ evicted
               PROVE  Len(Recent(wrong[ip])) <= MaxFailures - 1 + MaxAuth
    BY DEF GuessesBounded
  <2>1. Len(Recent(wrong[ip])) + Cardinality(Checks(ip)) <= MaxFailures - 1 + MaxAuth
    BY DEF LimiterIInv, Bounded
  <2>2. Cardinality(Checks(ip)) \in Nat /\ MaxFailures \in Nat /\ MaxAuth \in Nat
    BY ChecksFinite, LimiterAssumption
  <2>3. Len(Recent(wrong[ip])) \in Nat
    <3>1. wrong[ip] \in Seq(Nat) /\ now - Window \in Int
      BY LimiterAssumption DEF LimiterIInv, LimiterTypeOK
    <3>2. Since(wrong[ip], now - Window) \in Seq(Nat)
      BY <3>1, WindowBegins
    <3> QED BY <3>2 DEF Recent
  <2> QED BY <2>1, <2>2, <2>3
<1> QED BY <1>1, <1>2, PTL
=============================================================================

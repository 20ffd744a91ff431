------------------------------- MODULE Ingest -------------------------------
(***************************************************************************)
(* Receiving fixes from phones: authentication of a sender, admission of   *)
(* one message, its storage with a replay receipt, the poke of the         *)
(* detector, and the tracking settings that rotate, revoke, convert and    *)
(* create the credentials under it (app/ingest.py, app/tracking.py, the    *)
(* SQL they call, app/retention.py).                                       *)
(*                                                                         *)
(* A request runs beside the others in steps that end where the code       *)
(* waits.  What a transaction writes is kept in the request until Commit;  *)
(* its row locks are the requests that are between two steps.              *)
(***************************************************************************)
EXTENDS Integers, Sequences, FiniteSets

CONSTANTS
    Req,         \* requests the server handles at the same time
    Phone,       \* sending applications
    RouteOf,     \* [Phone -> {"owntracks", "traccar"}]: the endpoint it posts to
    Msg,         \* messages the phones hold
    SenderOf,    \* [Msg -> Phone]
    KindOf,      \* [Msg -> Kinds]
    LabelOf,     \* [Msg -> Label]: the OwnTracks tid
    TimeOf,      \* [Msg -> timestamps]
    Label, Cred, Dev,
    LegacyCred,  \* the migrated credential, in Cred
    FirstCred,   \* [Phone -> Cred]: what each phone starts with
    None,
    Batch,       \* messages one retention transaction deletes
    MaxSends,    \* bound: requests in a behaviour
    MaxChanges,  \* bound: settings and account changes
    MaxCrashes   \* bound: server crashes

Kinds == {"fix",       \* a location every check accepts
          "skewed",    \* a location ahead of the server's clock, until it is not
          "other",     \* stored without a point: another type, or a failed check
          "unlisted",  \* a type that is not in STORED_MESSAGE_TYPES
          "poison"}    \* empty, oversized, unparseable or unstorable

ASSUME IngestAssumption ==
    /\ LegacyCred \in Cred /\ FirstCred \in [Phone -> Cred] /\ Dev # {}
    /\ KindOf \in [Msg -> Kinds] /\ SenderOf \in [Msg -> Phone] /\ LabelOf \in [Msg -> Label]
    /\ RouteOf \in [Phone -> {"owntracks", "traccar"}]
    /\ Batch \in Nat \ {0} /\ {MaxSends, MaxChanges, MaxCrashes} \subseteq Nat
    /\ None \notin Dev \cup Cred /\ None \notin [dev : Dev \cup {None}, live : BOOLEAN, gen : Nat, secret : Nat]

VARIABLES
    account,  \* [on, ver]: accounts.is_enabled and auth_version
    cred,     \* ingest_credentials: [Cred -> [dev, live, gen, secret]]
    devices,  \* tracking_devices
    alias,    \* tracking_device_aliases: [Label -> [dev, on]]
    raw,      \* raw_messages with their receipts, oldest first: Seq([ns, msg])
    points,   \* points: set of [dev, time, msg]
    config,   \* [Phone -> [cred, secret]]: what is typed into the phone
    held,     \* messages a phone still keeps
    req,      \* the requests
    unpoked,  \* points committed since the last poke of the detector
    acked,    \* history: set of [msg, dev], what a phone dropped after a 2xx
    budget    \* [sends, changes, crashes] left

vars == <<account, cred, devices, alias, raw, points, config, held, req,
          unpoked, acked, budget>>
settings == <<account, cred, devices, alias, config>>

NoRequest == [at |-> "idle"]

InTransaction == {"open", "resolved", "admitted", "stored"}
Open == {r \in Req : req[r].at \in InTransaction}

Legacy(c) == c = LegacyCred

(* The row locks of the open transactions *)
HoldsProvisionLock(r) == req[r].at \in InTransaction /\ req[r].provision
SharesCredential(r, c) == r \in Open /\ req[r].cred = c /\ req[r].shared
HoldsUsage(r) == req[r].at = "stored"
ProvisionFree == \A r \in Req : ~HoldsProvisionLock(r)

(***************************************************************************)
(* Answers.  A phone drops a message after 2xx or 4xx and keeps it for a   *)
(* retry after 5xx; the Traccar client keeps it after 4xx as well.  A      *)
(* client that has left hears nothing.                                     *)
(***************************************************************************)
Drops(p, status) == status = 200 \/ (status = 401 /\ RouteOf[p] = "owntracks")

Answer(r, status) ==
    LET m == req[r].msg IN
    /\ req' = [req EXCEPT ![r] = NoRequest]
    /\ held' = IF ~req[r].gone /\ Drops(SenderOf[m], status) THEN held \ {m} ELSE held
    /\ acked' = IF ~req[r].gone /\ status = 200 THEN acked \cup {[msg |-> m, dev |-> req[r].dev]}
                                                ELSE acked

(***************************************************************************)
(* The sender                                                              *)
(***************************************************************************)
Send(r, m) ==
    /\ req[r] = NoRequest
    /\ m \in held
    /\ \A o \in Req : req[o] # NoRequest /\ req[o].msg = m => req[o].gone
    /\ budget.sends > 0
    /\ budget' = [budget EXCEPT !.sends = @ - 1]
    /\ req' = [req EXCEPT ![r] =
        [at |-> "arrived", msg |-> m, gone |-> FALSE,
         cred |-> config[SenderOf[m]].cred, secret |-> config[SenderOf[m]].secret,
         row |-> None, ver |-> 0, dev |-> None, fresh |-> FALSE, valid |-> FALSE,
         shared |-> FALSE, provision |-> FALSE, replay |-> FALSE]]
    /\ UNCHANGED <<settings, raw, points, held, unpoked, acked>>

(* The answer is not heard: a timeout of the phone, a lost connection *)
Leave(r) ==
    /\ req[r] # NoRequest
    /\ ~req[r].gone
    /\ req' = [req EXCEPT ![r].gone = TRUE]
    /\ UNCHANGED <<settings, raw, points, held, unpoked, acked, budget>>

(***************************************************************************)
(* Before the body.  The credential row is read in one statement and the   *)
(* password is checked against that row in a thread; a full lane, a        *)
(* blocked address or an expired body deadline answers 503.                *)
(***************************************************************************)
LookUp(r) ==
    /\ req[r].at = "arrived"
    /\ LET c == req[r].cred IN
       IF (cred[c].dev = None /\ ~Legacy(c)) \/ ~cred[c].live \/ ~account.on
       THEN Answer(r, 401)
       ELSE /\ req' = [req EXCEPT ![r].at = "verifying", ![r].row = cred[c],
                                  ![r].ver = account.ver]
            /\ UNCHANGED <<held, acked>>
    /\ UNCHANGED <<settings, raw, points, unpoked, budget>>

Verify(r) ==
    /\ req[r].at = "verifying"
    /\ IF \/ req[r].secret # req[r].row.secret
          \/ (RouteOf[SenderOf[req[r].msg]] = "traccar" /\ Legacy(req[r].cred))
       THEN Answer(r, 401)
       ELSE /\ req' = [req EXCEPT ![r].at = "waiting"]
            /\ UNCHANGED <<held, acked>>
    /\ UNCHANGED <<settings, raw, points, unpoked, budget>>

Busy(r) ==
    /\ req[r].at \in {"arrived", "waiting"}
    /\ Answer(r, 503)
    /\ UNCHANGED <<settings, raw, points, unpoked, budget>>

(***************************************************************************)
(* The body, and the transaction of an admitted write                      *)
(***************************************************************************)
(* _validate_location against the server's clock, at this delivery *)
Usable(m) == CASE KindOf[m] = "fix" -> {TRUE}
               [] KindOf[m] = "skewed" -> BOOLEAN
               [] OTHER -> {FALSE}

DropPoison(r) ==
    /\ req[r].at = "waiting"
    /\ KindOf[req[r].msg] = "poison"
    /\ Answer(r, 200)
    /\ UNCHANGED <<settings, raw, points, unpoked, budget>>

Begin(r) ==
    /\ req[r].at = "waiting"
    /\ KindOf[req[r].msg] # "poison"
    /\ IF ~account.on \/ account.ver # req[r].ver
       THEN Answer(r, 401)
       ELSE /\ \E usable \in Usable(req[r].msg) :
                 req' = [req EXCEPT ![r].at = "open", ![r].valid = usable]
            /\ UNCHANGED <<held, acked>>
    /\ UNCHANGED <<settings, raw, points, unpoked, budget>>

CredentialCurrent(r) == cred[req[r].cred].live /\ cred[req[r].cred].gen = req[r].row.gen

(* The stream without a query: a device's own, on both routes *)
OwnStream(r) ==
    /\ req[r].at = "open"
    /\ ~(Legacy(req[r].cred) /\ req[r].valid)
    /\ req' = [req EXCEPT ![r].at = "resolved", ![r].dev = req[r].row.dev]
    /\ UNCHANGED <<settings, raw, points, held, unpoked, acked, budget>>

(* resolve_ingest_stream for the migrated credential: the alias of the      *)
(* message's label, created with its device when there is none              *)
ResolveAlias(r) ==
    LET l == LabelOf[req[r].msg] IN
    /\ req[r].at = "open" /\ Legacy(req[r].cred) /\ req[r].valid
    /\ ProvisionFree
    /\ \/ /\ ~CredentialCurrent(r) \/ (alias[l].dev # None /\ ~alias[l].on)
          /\ Answer(r, 401)
       \/ /\ CredentialCurrent(r) /\ alias[l].on
          /\ req' = [req EXCEPT ![r].at = "resolved", ![r].dev = alias[l].dev,
                                ![r].provision = TRUE, ![r].shared = TRUE]
          /\ UNCHANGED <<held, acked>>
       \/ /\ CredentialCurrent(r) /\ alias[l].dev = None
          /\ \E d \in Dev \ devices :
               req' = [req EXCEPT ![r].at = "resolved", ![r].dev = d, ![r].fresh = TRUE,
                                  ![r].provision = TRUE, ![r].shared = TRUE]
          /\ UNCHANGED <<held, acked>>
    /\ UNCHANGED <<settings, raw, points, unpoked, budget>>

(* assert_tracking_credential: the last check, and the row locks that keep  *)
(* its verdict true until the transaction ends                              *)
AliasCurrent(r) ==
    Legacy(req[r].cred) /\ req[r].dev # None /\ ~req[r].fresh =>
        LET l == LabelOf[req[r].msg] IN alias[l].on /\ alias[l].dev = req[r].dev

Admit(r) ==
    /\ req[r].at = "resolved"
    /\ IF ~CredentialCurrent(r) \/ ~AliasCurrent(r)
       THEN Answer(r, 401)
       ELSE /\ req' = [req EXCEPT ![r].at = "admitted", ![r].shared = TRUE]
            /\ UNCHANGED <<held, acked>>
    /\ UNCHANGED <<settings, raw, points, unpoked, budget>>

Namespace(r) == IF req[r].dev # None THEN <<"device", req[r].dev>>
                                     ELSE <<"credential", req[r].cred>>

Row(r) == [ns |-> Namespace(r), msg |-> req[r].msg]
StoredRows == {raw[i] : i \in DOMAIN raw}

(* An admitted message of an unlisted type is acknowledged and not stored *)
Discard(r) ==
    /\ req[r].at = "admitted"
    /\ KindOf[req[r].msg] = "unlisted"
    /\ Answer(r, 200)
    /\ UNCHANGED <<settings, raw, points, unpoked, budget>>

(* Mutant: the receipt is looked up without the usage row's lock *)
UsageUnlocked == TRUE

(* storage_find_replay takes the usage row of the account, FOR UPDATE *)
UsageFree == \A o \in Req : ~HoldsUsage(o)

FindReplay(r) ==
    /\ req[r].at = "admitted"
    /\ KindOf[req[r].msg] # "unlisted"
    /\ UsageFree
    /\ req' = [req EXCEPT ![r].at = "stored", ![r].replay = Row(r) \in StoredRows]
    /\ UNCHANGED <<settings, raw, points, held, unpoked, acked, budget>>

(* ON CONFLICT (tracking_device_id, recorded_at) DO NOTHING *)
NewPoints(r) ==
    LET t == TimeOf[req[r].msg] IN
    IF req[r].replay \/ ~req[r].valid
       \/ \E p \in points : p.dev = req[r].dev /\ p.time = t
    THEN {} ELSE {[dev |-> req[r].dev, time |-> t, msg |-> req[r].msg]}

Commit(r) ==
    /\ req[r].at = "stored"
    /\ raw' = IF req[r].replay THEN raw ELSE Append(raw, Row(r))
    /\ points' = points \cup NewPoints(r)
    /\ unpoked' = unpoked \cup NewPoints(r)
    /\ devices' = IF req[r].fresh THEN devices \cup {req[r].dev} ELSE devices
    /\ alias' = IF req[r].fresh
                THEN [alias EXCEPT ![LabelOf[req[r].msg]] = [dev |-> req[r].dev, on |-> TRUE]]
                ELSE alias
    /\ req' = [req EXCEPT ![r].at = "committed"]
    /\ UNCHANGED <<account, cred, config, held, acked, budget>>

(* Mutant: a replay wakes nobody *)
PokeForNewOnly(r) == req[r].valid /\ ~req[r].replay

(* The detector is woken after the transaction has closed, for a replay too *)
ShouldPoke(r) == req[r].replay \/ req[r].valid

Acknowledge(r) ==
    /\ req[r].at = "committed"
    /\ unpoked' = IF ShouldPoke(r) THEN {} ELSE unpoked
    /\ Answer(r, 200)
    /\ UNCHANGED <<settings, raw, points, budget>>

(* Mutant: a privilege error is a refusal wherever it is raised *)
AlwaysRefused(r, fault) ==
    IF fault = "privilege" THEN 401 ELSE IF req[r].at = "open" THEN 500 ELSE 503

(* A failure inside the transaction, which rolls back.  The database refuses *)
(* a privilege, the storage ceiling is reached, a lock is not granted in     *)
(* time, or anything else                                                    *)
FaultStatus(r, fault) ==
    CASE fault = "privilege" -> IF req[r].at \in {"admitted", "stored"} THEN 500 ELSE 401
      [] fault = "capacity" -> IF req[r].at \in {"admitted", "stored"} THEN 503 ELSE 500
      [] fault = "lock" -> 503
      [] OTHER -> 500

Fault(r) ==
    /\ r \in Open
    /\ \E fault \in {"lock", "other"}
                      \cup (IF req[r].at \in {"admitted", "stored"}
                            THEN {"privilege", "capacity"} ELSE {}) :
         Answer(r, FaultStatus(r, fault))
    /\ UNCHANGED <<settings, raw, points, unpoked, budget>>

(***************************************************************************)
(* The tracking settings.  Each is one transaction behind the provision    *)
(* lock that takes the credential's row FOR UPDATE, so it waits for every  *)
(* request that shares the row; the account row is shared by all of them   *)
(* and is exclusive to a change of the account.                            *)
(***************************************************************************)
Change == budget.changes > 0 /\ budget' = [budget EXCEPT !.changes = @ - 1]

(* Mutant: a settings change does not wait for admitted senders *)
WaitsForNobody(c) == c \in Cred

NotShared(c) == \A r \in Req : ~SharesCredential(r, c)

RotateCredential(c) ==
    /\ Change
    /\ account.on /\ cred[c].dev # None /\ ~Legacy(c)
    /\ ProvisionFree /\ NotShared(c)
    /\ cred' = [cred EXCEPT ![c].secret = @ + 1, ![c].live = TRUE, ![c].gen = @ + 1]
    /\ UNCHANGED <<account, devices, alias, raw, points, config, held, req, unpoked, acked>>

RevokeCredential(c) ==
    /\ Change
    /\ account.on /\ (cred[c].dev # None \/ Legacy(c))
    /\ ProvisionFree /\ NotShared(c)
    /\ cred' = [cred EXCEPT ![c].live = FALSE, ![c].gen = @ + 1]
    /\ UNCHANGED <<account, devices, alias, raw, points, config, held, req, unpoked, acked>>

Unused == {c \in Cred : cred[c].dev = None /\ ~Legacy(c)}

(* The user types the credential just issued into phone p *)
Issue(c, d, p) ==
    /\ cred' = [cred EXCEPT ![c] = [dev |-> d, live |-> TRUE, gen |-> 1, secret |-> 1]]
    /\ config' = [config EXCEPT ![p] = [cred |-> c, secret |-> 1]]

(* Every enabled alias of the device is disabled; its credential is new *)
ConvertLegacyDevice(d, c, p) ==
    LET on == {l \in Label : alias[l].dev = d /\ alias[l].on} IN
    /\ Change
    /\ account.on /\ d \in devices /\ on # {} /\ c \in Unused
    /\ ProvisionFree
    /\ alias' = [l \in Label |-> IF l \in on THEN [alias[l] EXCEPT !.on = FALSE] ELSE alias[l]]
    /\ Issue(c, d, p)
    /\ UNCHANGED <<account, devices, raw, points, held, req, unpoked, acked>>

CreateDevice(d, c, p) ==
    /\ Change
    /\ account.on /\ d \in Dev \ devices /\ c \in Unused
    /\ ProvisionFree
    /\ devices' = devices \cup {d}
    /\ Issue(c, d, p)
    /\ UNCHANGED <<account, alias, raw, points, held, req, unpoked, acked>>

(* The phone is given the secret a rotation showed *)
Reconfigure(p) ==
    /\ config[p].secret # cred[config[p].cred].secret
    /\ config' = [config EXCEPT ![p].secret = cred[config[p].cred].secret]
    /\ UNCHANGED <<account, cred, devices, alias, raw, points, held, req, unpoked, acked, budget>>

(* A new password, or an administrator's disable, waits for the shared      *)
(* account row; the disable also revokes every live credential              *)
ChangePassword ==
    /\ Change
    /\ account.on /\ Open = {}
    /\ account' = [account EXCEPT !.ver = @ + 1]
    /\ UNCHANGED <<cred, devices, alias, raw, points, config, held, req, unpoked, acked>>

SetEnabled ==
    /\ Change
    /\ Open = {}
    /\ account' = IF account.on THEN [on |-> FALSE, ver |-> account.ver + 1]
                                ELSE [account EXCEPT !.on = TRUE]
    /\ cred' = [c \in Cred |-> IF account.on /\ cred[c].live
                               THEN [cred[c] EXCEPT !.live = FALSE, !.gen = @ + 1]
                               ELSE cred[c]]
    /\ UNCHANGED <<devices, alias, raw, points, config, held, req, unpoked, acked>>

(* RetentionWorker.run_turn: the oldest k messages have expired, and one    *)
(* transaction deletes at most Batch of them with their receipts            *)
Retain ==
    /\ account.on
    /\ \E k \in 1..Len(raw) :
         raw' = SubSeq(raw, (IF k < Batch THEN k ELSE Batch) + 1, Len(raw))
    /\ UNCHANGED <<settings, points, held, req, unpoked, acked, budget>>

(* A crash: open transactions roll back, phones hear nothing.  The next     *)
(* process sweeps every device, so its detector needs no poke.              *)
Crash ==
    /\ budget.crashes > 0
    /\ budget' = [budget EXCEPT !.crashes = @ - 1]
    /\ req' = [r \in Req |-> NoRequest]
    /\ unpoked' = {}
    /\ UNCHANGED <<settings, raw, points, held, acked>>

Init ==
    /\ account = [on |-> TRUE, ver |-> 1]
    /\ devices = {CHOOSE d \in Dev : TRUE}
    /\ cred = [c \in Cred |-> LET used == \E p \in Phone : FirstCred[p] = c IN
         [dev |-> IF used /\ ~Legacy(c) THEN CHOOSE d \in Dev : TRUE ELSE None,
          live |-> used, gen |-> 1, secret |-> 1]]
    /\ config = [p \in Phone |-> [cred |-> FirstCred[p], secret |-> 1]]
    /\ alias = [l \in Label |-> [dev |-> None, on |-> FALSE]]
    /\ raw = <<>> /\ points = {} /\ unpoked = {} /\ acked = {}
    /\ held = Msg
    /\ req = [r \in Req |-> NoRequest]
    /\ budget = [sends |-> MaxSends, changes |-> MaxChanges, crashes |-> MaxCrashes]

Next ==
    \/ \E r \in Req :
         \/ \E m \in Msg : Send(r, m)
         \/ Leave(r) \/ LookUp(r) \/ Verify(r) \/ Busy(r) \/ DropPoison(r) \/ Begin(r)
         \/ OwnStream(r) \/ ResolveAlias(r) \/ Admit(r) \/ Discard(r) \/ FindReplay(r)
         \/ Commit(r) \/ Acknowledge(r) \/ Fault(r)
    \/ \E c \in Cred :
         \/ RotateCredential(c) \/ RevokeCredential(c)
         \/ \E d \in Dev, p \in Phone : ConvertLegacyDevice(d, c, p) \/ CreateDevice(d, c, p)
    \/ \E p \in Phone : Reconfigure(p)
    \/ ChangePassword \/ SetEnabled \/ Retain \/ Crash

Spec == Init /\ [][Next]_vars

-----------------------------------------------------------------------------
(***************************************************************************)
(* Every message of two deliveries is one row: a phone repeats a message   *)
(* whose answer it did not hear, while the first delivery may still run,   *)
(* and the replay receipt under the usage lock keeps one copy.             *)
(***************************************************************************)
StoredOnce == \A i, j \in DOMAIN raw : raw[i] = raw[j] => i = j

(***************************************************************************)
(* A location that a phone has dropped as delivered has its point, or an   *)
(* earlier point of its device at the same time, and the detector was      *)
(* poked since that point was committed.  It holds across lost answers,    *)
(* retries, crashes, rolled back transactions and the retention of the     *)
(* raw message; only an unwoken detector would leave the fix unseen.       *)
(***************************************************************************)
DeliveredIsStored ==
    \A a \in acked : KindOf[a.msg] = "fix" =>
        \E p \in points \ unpoked : p.dev = a.dev /\ p.time = TimeOf[a.msg]

(***************************************************************************)
(* Delivery is at least once on the wire and exactly once in the store:    *)
(* neither a second row of what was delivered nor a missing fix of what    *)
(* was acknowledged.                                                       *)
(***************************************************************************)
StoredExactlyOnce == StoredOnce /\ DeliveredIsStored

(***************************************************************************)
(* A sender's message is stored only while its credential is live and of   *)
(* the generation it was admitted with, and its account is unchanged since *)
(* the password check: rotation, revocation, conversion, a new password    *)
(* and a disable all stop a request that was authenticated before them.    *)
(***************************************************************************)
StoredUnderLiveCredential ==
    [][\A r \in Req : req[r].at = "stored" /\ req'[r].at = "committed" =>
          /\ CredentialCurrent(r) /\ AliasCurrent(r)
          /\ account = [on |-> TRUE, ver |-> req[r].ver]]_vars

(***************************************************************************)
(* OwnTracks deletes what a 4xx refuses.  A phone loses a message that way *)
(* only when its credential, alias or account really had changed, or its   *)
(* secret was wrong, and never to a failure of the server.                 *)
(***************************************************************************)
Stale(r) ==
    \/ ~account.on \/ ~cred[req[r].cred].live
    \/ cred[req[r].cred].secret # req[r].secret
    \/ req[r].row # None /\ (req[r].ver # account.ver \/ ~CredentialCurrent(r))
    \/ LET l == LabelOf[req[r].msg] IN Legacy(req[r].cred) /\ alias[l].dev # None /\ ~alias[l].on

RefusedOnlyWhenStale ==
    [][\A m \in Msg : m \in held /\ m \notin held' /\ acked' = acked =>
          \E r \in Req : req[r] # NoRequest /\ req[r].msg = m /\ Stale(r)]_vars

(***************************************************************************)
(* A request that is overtaken by a change of its credential stores        *)
(* nothing, and no other is told so.                                       *)
(***************************************************************************)
CredentialsDecide == StoredUnderLiveCredential /\ RefusedOnlyWhenStale
=============================================================================

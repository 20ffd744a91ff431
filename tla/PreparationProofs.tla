--------------------------- MODULE PreparationProofs ---------------------------
(***************************************************************************)
(* Proofs about what is prepared outside a request: about Spool for every  *)
(* number of preparations, processes and directories, about Digest for     *)
(* every number of replicas, kinds and addresses, every length of a period,*)
(* and any number of changes, hours and faults, about Geocode for every    *)
(* number of trips, coordinates, servers, size of a page and number of     *)
(* faults, and about ProviderPacer for any number of callers.              *)
(***************************************************************************)
EXTENDS Spool, Digest, Geocode, ProviderPacer, SequenceTheorems, FiniteSetTheorems,
        WellFoundedInduction, TLAPS

-----------------------------------------------------------------------------
(* The directories of the spool.                                           *)

Pcs == {"idle", "asking", "sweeping", "making", "open", "finished", "serving", "sending",
        "closing", "releasing", "clearing", "stuck", "refused", "closed", "retained", "dead"}

Running == {"renderer", "sender"}

\* What the steps of one preparation keep: who has no directory yet, or gives his up, has
\* no helper, what is served was finished, and a sender belongs to one that sends.
RowOK(r) ==
    /\ DOMAIN r = {"pc", "child", "dir", "stopped"}
    /\ r.pc \in Pcs /\ r.child \in {"none", "ok", "bad"} \cup Running
    /\ r.pc \in {"idle", "asking", "sweeping", "making", "refused", "closed"} => r.child = "none"
    /\ r.pc \in {"releasing", "clearing", "stuck"} => r.child \notin Running
    /\ r.pc \in {"finished", "serving"} => r.child = "ok"
    /\ r.child = "sender" => r.pc \in {"sending", "dead"}

OpsTypeOK == DOMAIN op = Op /\ \A o \in Op : RowOK(op[o])

\* A step between two releases of registry.lock.
Locking == {"sweeping", "making", "clearing", "stuck"}
RegistryHeld == \A o \in Op : op[o].pc \in Locking => registry = o

TheDeadDoNothing == \A o \in Op : HostOf[o] \notin up => op[o].pc \in {"dead", "refused", "closed"}

\* Who counts on his directory.
Uses(r) == r.pc \in OwnsGuard \cup {"making"} \/ r.child \in Running

UsersHaveDirs == \A o \in Op : Uses(op[o]) => op[o].dir \in dirs

NamesOfOne ==
    /\ dirs \subseteq used /\ used \subseteq Dir
    /\ \A o \in Op : op[o].dir \in used \cup {NoDir}
    /\ \A o, other \in Op : o # other /\ op[o].dir = op[other].dir => op[o].dir = NoDir

DirsBounded == IsFiniteSet(dirs) /\ Cardinality(dirs) <= MaxDirs

SpoolIInv ==
    /\ OpsTypeOK /\ RegistryHeld /\ TheDeadDoNothing /\ UsersHaveDirs /\ NamesOfOne /\ DirsBounded

LEMMA SpoolInitIInv == SpoolInit => SpoolIInv
<1> SUFFICES ASSUME SpoolInit PROVE SpoolIInv
  OBVIOUS
<1>1. OpsTypeOK
  BY DEF SpoolInit, OpsTypeOK, RowOK, Start, Pcs, Running
<1>2. RegistryHeld /\ UsersHaveDirs
  BY DEF SpoolInit, RegistryHeld, UsersHaveDirs, Start, Locking, Uses, OwnsGuard, Running
<1>3. TheDeadDoNothing
  BY SpoolAssumption DEF SpoolInit, TheDeadDoNothing
<1>4. NamesOfOne
  BY DEF SpoolInit, NamesOfOne, Start
<1>5. DirsBounded
  BY SpoolAssumption, FS_EmptySet DEF SpoolInit, DirsBounded
<1> QED BY <1>1, <1>2, <1>3, <1>4, <1>5 DEF SpoolIInv

LEMMA FewerDirs ==
    ASSUME DirsBounded, dirs' \subseteq dirs
    PROVE  DirsBounded'
<1>1. IsFiniteSet(dirs') /\ Cardinality(dirs') <= Cardinality(dirs)
  BY FS_Subset DEF DirsBounded
<1>2. Cardinality(dirs) \in Nat /\ Cardinality(dirs') \in Nat
  BY <1>1, FS_CardinalityType DEF DirsBounded
<1> QED BY <1>1, <1>2, SpoolAssumption DEF DirsBounded

\* A step of preparation o that leaves it as x.
LEMMA OneMoves ==
    ASSUME SpoolIInv, NEW o \in Op, NEW x, op' = [op EXCEPT ![o] = x],
           RowOK(x), up' = up,
           HostOf[o] \in up \/ x.pc \in {"dead", "refused", "closed"},
           registry' = registry \/ registry \in {NoOp, o},
           x.pc \in Locking => registry' = o,
           used \subseteq used', used' \subseteq Dir, dirs' \subseteq used', DirsBounded',
           x.dir \in {op[o].dir, NoDir} \cup (used' \ used),
           Uses(x) => x.dir \in dirs',
           \A q \in Op \ {o} : Uses(op[q]) => op[q].dir \in dirs'
    PROVE  SpoolIInv'
<1>1. \A q \in Op : op'[q] = IF q = o THEN x ELSE op[q]
  BY DEF SpoolIInv, OpsTypeOK
<1>2. OpsTypeOK'
  BY <1>1 DEF SpoolIInv, OpsTypeOK
<1>3. RegistryHeld'
  <2> SUFFICES ASSUME NEW q \in Op, op'[q].pc \in Locking PROVE registry' = q
    BY DEF RegistryHeld
  <2>1. CASE q = o
    BY <1>1, <2>1
  <2>2. CASE q # o
    BY <1>1, <2>2, SpoolAssumption DEF SpoolIInv, RegistryHeld
  <2> QED BY <2>1, <2>2
<1>4. TheDeadDoNothing'
  BY <1>1 DEF SpoolIInv, TheDeadDoNothing
<1>5. UsersHaveDirs'
  BY <1>1 DEF SpoolIInv, UsersHaveDirs
<1>6. NamesOfOne'
  BY <1>1, SpoolAssumption DEF SpoolIInv, NamesOfOne
<1> QED BY <1>2, <1>3, <1>4, <1>5, <1>6 DEF SpoolIInv

\* One that leaves the directories alone.
LEMMA OneMovesInPlace ==
    ASSUME SpoolIInv, NEW o \in Op, NEW x, op' = [op EXCEPT ![o] = x],
           RowOK(x), UNCHANGED <<dirs, used, up>>,
           HostOf[o] \in up \/ x.pc \in {"dead", "refused", "closed"},
           registry' = registry \/ registry \in {NoOp, o},
           x.pc \in Locking => registry' = o,
           x.dir \in {op[o].dir, NoDir},
           Uses(x) => x.dir = op[o].dir /\ Uses(op[o])
    PROVE  SpoolIInv'
<1>1. DirsBounded'
  BY DEF SpoolIInv, DirsBounded
<1>2. \A q \in Op : Uses(op[q]) => op[q].dir \in dirs
  BY DEF SpoolIInv, UsersHaveDirs
<1>3. used \subseteq used' /\ used' \subseteq Dir /\ dirs' \subseteq used'
  BY DEF SpoolIInv, NamesOfOne
<1> QED BY <1>1, <1>2, <1>3, OneMoves

\* One that changes the place in the program alone.
LEMMA GoesOn ==
    ASSUME SpoolIInv, NEW o \in Op, NEW pc, Go(o, pc), UNCHANGED <<dirs, used, up>>,
           op[o].pc \notin {"dead", "refused", "closed"},
           pc \in Pcs \ {"idle", "refused", "closed", "dead"},
           pc \in {"asking", "sweeping", "making"} => op[o].child = "none",
           pc \in {"releasing", "clearing", "stuck"} => op[o].child \notin Running,
           pc \in {"finished", "serving"} => op[o].child = "ok",
           op[o].child = "sender" => pc = "sending",
           registry' = registry \/ registry \in {NoOp, o},
           pc \in Locking => registry' = o,
           pc \in OwnsGuard \cup {"making"} => op[o].pc \in OwnsGuard \cup {"making"}
    PROVE  SpoolIInv'
<1> DEFINE x == [op[o] EXCEPT !.pc = pc]
<1>1. op' = [op EXCEPT ![o] = x]
  BY DEF Go
<1>2. RowOK(op[o]) /\ HostOf[o] \in up
  BY DEF SpoolIInv, OpsTypeOK, TheDeadDoNothing
<1>3. /\ DOMAIN x = DOMAIN op[o] /\ x.pc = pc /\ x.child = op[o].child /\ x.dir = op[o].dir
  BY <1>2 DEF RowOK
<1> HIDE DEF x
<1>4. RowOK(x)
  BY <1>2, <1>3 DEF RowOK
<1>5. Uses(x) => Uses(op[o])
  BY <1>3 DEF Uses
<1> QED BY <1>1, <1>2, <1>3, <1>4, <1>5, OneMovesInPlace

\* One that ends, or is given up, without a directory.
LEMMA Ends ==
    ASSUME SpoolIInv, NEW o \in Op, NEW pc \in {"refused", "closed"},
           op' = [op EXCEPT ![o] = [Start EXCEPT !.pc = pc]], up' = up,
           registry' = registry \/ registry \in {NoOp, o},
           used \subseteq used', used' \subseteq Dir, dirs' \subseteq used', DirsBounded',
           \A q \in Op \ {o} : Uses(op[q]) => op[q].dir \in dirs'
    PROVE  SpoolIInv'
<1> DEFINE x == [Start EXCEPT !.pc = pc]
<1>1. RowOK(x) /\ ~Uses(x) /\ x.pc = pc /\ x.dir = NoDir
  BY DEF RowOK, Uses, Start, Pcs, Running, OwnsGuard
<1> HIDE DEF x
<1>2. op' = [op EXCEPT ![o] = x]
  BY DEF x
<1> QED BY <1>1, <1>2, OneMoves DEF Locking

-----------------------------------------------------------------------------

LEMMA LiveAreKept ==
    ASSUME SpoolIInv, NEW o \in Op, op[o].pc = "sweeping",
           NEW live, live = {d \in dirs : Held(d)}
    PROVE  \A q \in Op \ {o} : Uses(op[q]) => op[q].dir \in live
<1> SUFFICES ASSUME NEW q \in Op \ {o}, Uses(op[q]) PROVE op[q].dir \in live
  OBVIOUS
<1>1. op[q].pc # "making"
  BY DEF SpoolIInv, RegistryHeld, Locking
<1>2. op[q].dir \in dirs
  BY DEF SpoolIInv, UsersHaveDirs
<1>3. Held(op[q].dir)
  BY <1>1 DEF Held, Uses, ChildRuns, Running
<1> QED BY <1>2, <1>3

LEMMA SweepIInv ==
    ASSUME SpoolIInv, NEW o \in Op, Sweep(o)
    PROVE  SpoolIInv'
<1> DEFINE live == {d \in dirs : Held(d)}
           space == failure = {} /\ Cardinality(live) < MaxDirs
           x == [op[o] EXCEPT !.pc = "making", !.dir = NewDir]
<1>1. op[o].pc = "sweeping" /\ up' = up /\ NewDir \in Dir /\ NewDir \notin used
  BY DEF Sweep, NewDir
<1>2. \A q \in Op \ {o} : Uses(op[q]) => op[q].dir \in live
  BY <1>1, LiveAreKept
<1>3. live \subseteq dirs /\ dirs \subseteq used /\ used \subseteq Dir
  BY DEF SpoolIInv, NamesOfOne
<1>4. IsFiniteSet(live) /\ Cardinality(live) \in Nat /\ Cardinality(live) <= MaxDirs
  <2>1. IsFiniteSet(live) /\ Cardinality(live) <= Cardinality(dirs)
    BY <1>3, FS_Subset DEF SpoolIInv, DirsBounded
  <2>2. Cardinality(live) \in Nat /\ Cardinality(dirs) \in Nat
    BY <2>1, FS_CardinalityType DEF SpoolIInv, DirsBounded
  <2> QED BY <2>1, <2>2, SpoolAssumption DEF SpoolIInv, DirsBounded
<1>5. HostOf[o] \in up /\ RowOK(op[o])
  BY <1>1 DEF SpoolIInv, TheDeadDoNothing, OpsTypeOK
<1>6. CASE space
  <2>1. /\ dirs' = live \cup {NewDir} /\ used' = used \cup (dirs' \ live) /\ registry' = registry
        /\ op' = [op EXCEPT ![o] = x]
    <3>1. /\ dirs' = IF failure # {} THEN dirs ELSE live \cup (IF space THEN {NewDir} ELSE {})
          /\ used' = used \cup (dirs' \ live)
          /\ IF space
             THEN op' = [op EXCEPT ![o].pc = "making", ![o].dir = NewDir] /\ UNCHANGED registry
             ELSE Refuse(o) /\ Unlock
      BY DEF Sweep
    <3>2. op' = [op EXCEPT ![o].pc = "making", ![o].dir = NewDir] /\ UNCHANGED registry
      BY <1>6, <3>1
    <3>3. op' = [op EXCEPT ![o] = x]
      BY <3>2 DEF SpoolIInv, OpsTypeOK
    <3>4. dirs' = live \cup {NewDir}
      BY <1>6, <3>1
    <3> HIDE DEF live, space, x
    <3> QED BY <3>1, <3>2, <3>3, <3>4
  <2>2. /\ DOMAIN x = DOMAIN op[o] /\ x.pc = "making" /\ x.child = op[o].child /\ x.dir = NewDir
    BY <1>5 DEF RowOK
  <2> HIDE DEF x
  <2>3. RowOK(x)
    BY <1>1, <1>5, <2>2 DEF RowOK, Pcs
  <2>4. used' = used \cup {NewDir}
    BY <1>1, <1>3, <2>1
  <2>5. registry = o
    BY <1>1 DEF SpoolIInv, RegistryHeld, Locking
  <2>6. DirsBounded'
    <3>1. IsFiniteSet(live \cup {NewDir}) /\ Cardinality(live \cup {NewDir}) = Cardinality(live) + 1
      BY <1>1, <1>3, <1>4, FS_AddElement
    <3>2. Cardinality(live) + 1 <= MaxDirs
      BY <1>4, <1>6, SpoolAssumption
    <3> HIDE DEF live
    <3> QED BY <2>1, <3>1, <3>2 DEF DirsBounded
  <2> HIDE DEF live, space
  <2> QED BY <1>1, <1>2, <1>3, <1>5, <2>1, <2>2, <2>3, <2>4, <2>5, <2>6, OneMoves
<1>7. CASE ~space
  <2>1. /\ dirs' \in {dirs, live} /\ used' = used \cup (dirs' \ live)
        /\ Refuse(o) /\ registry' = NoOp
    BY <1>7 DEF Sweep, Unlock
  <2> HIDE DEF live, space
  <2>2. used' = used /\ dirs' \subseteq dirs
    BY <1>3, <2>1
  <2>3. registry = o
    BY <1>1 DEF SpoolIInv, RegistryHeld, Locking
  <2>4. DirsBounded'
    BY <2>2, FewerDirs DEF SpoolIInv
  <2>5. \A q \in Op \ {o} : Uses(op[q]) => op[q].dir \in dirs'
    BY <1>2, <1>3, <2>1
  <2>6. op' = [op EXCEPT ![o] = [Start EXCEPT !.pc = "refused"]]
    BY <2>1 DEF Refuse
  <2>7. used \subseteq used' /\ used' \subseteq Dir /\ dirs' \subseteq used'
    BY <1>3, <2>2
  <2> QED BY <1>1, <2>3, <2>4, <2>5, <2>6, <2>7, Ends
<1> QED BY <1>6, <1>7

\* Steps that remove directories of nobody else.
LEMMA Removes ==
    ASSUME SpoolIInv, NEW o \in Op, NEW pc \in {"refused", "closed"},
           op' = [op EXCEPT ![o] = [Start EXCEPT !.pc = pc]],
           UNCHANGED <<used, up>>, registry' = NoOp, registry = o,
           dirs' \in {dirs, dirs \ {op[o].dir}}
    PROVE  SpoolIInv'
<1>1. dirs' \subseteq dirs
  OBVIOUS
<1>2. \A q \in Op \ {o} : Uses(op[q]) => op[q].dir \in dirs'
  BY SpoolAssumption DEF SpoolIInv, UsersHaveDirs, NamesOfOne
<1>3. DirsBounded'
  BY <1>1, FewerDirs DEF SpoolIInv
<1>4. used \subseteq used' /\ used' \subseteq Dir /\ dirs' \subseteq used'
  BY <1>1 DEF SpoolIInv, NamesOfOne
<1> QED BY <1>2, <1>3, <1>4, Ends

LEMMA SweepFailsIInv ==
    ASSUME SpoolIInv, NEW o \in Op, SweepFails(o)
    PROVE  SpoolIInv'
<1> DEFINE live == {d \in dirs : Held(d)}
<1>1. /\ op[o].pc = "sweeping" /\ UNCHANGED <<used, up>> /\ registry' = NoOp
      /\ op' = [op EXCEPT ![o] = [Start EXCEPT !.pc = "refused"]]
      /\ live \subseteq dirs' /\ dirs' \subseteq dirs
  BY DEF SweepFails, Unlock, Refuse
<1>2. \A q \in Op \ {o} : Uses(op[q]) => op[q].dir \in live
  BY <1>1, LiveAreKept
<1> HIDE DEF live
<1>3. registry = o
  BY <1>1 DEF SpoolIInv, RegistryHeld, Locking
<1>4. DirsBounded'
  BY <1>1, FewerDirs DEF SpoolIInv
<1>5. used \subseteq used' /\ used' \subseteq Dir /\ dirs' \subseteq used'
  BY <1>1 DEF SpoolIInv, NamesOfOne
<1> QED BY <1>1, <1>2, <1>3, <1>4, <1>5, Ends

LEMMA DieIInv ==
    ASSUME SpoolIInv, NEW p \in Process, Die(p)
    PROVE  SpoolIInv'
<1> DEFINE Hit(o) == HostOf[o] = p /\ op[o].pc \notin {"refused", "closed"}
           After(o) == [pc |-> "dead", stopped |-> FALSE,
                        child |-> IF ChildRuns(o) THEN op[o].child ELSE "none",
                        dir |-> IF ChildRuns(o) THEN op[o].dir ELSE NoDir]
<1>1. /\ up' = up \ {p} /\ UNCHANGED <<dirs, used>>
      /\ DOMAIN op' = Op
      /\ \A o \in Op : op'[o] = IF Hit(o) THEN After(o) ELSE op[o]
      /\ registry' = IF registry # NoOp /\ HostOf[registry] = p THEN NoOp ELSE registry
  BY DEF Die
<1>2. \A o \in Op :
        /\ After(o).pc = "dead" /\ DOMAIN After(o) = {"pc", "child", "dir", "stopped"}
        /\ After(o).child = IF op[o].child \in Running THEN op[o].child ELSE "none"
        /\ After(o).dir = IF op[o].child \in Running THEN op[o].dir ELSE NoDir
  BY DEF ChildRuns, Running
<1> HIDE DEF After
<1>3. OpsTypeOK'
  BY <1>1, <1>2 DEF SpoolIInv, OpsTypeOK, RowOK, Pcs, Running
<1>4. RegistryHeld'
  <2> SUFFICES ASSUME NEW o \in Op, op'[o].pc \in Locking PROVE registry' = o
    BY DEF RegistryHeld
  <2>1. op'[o] = op[o] /\ ~Hit(o)
    BY <1>1, <1>2 DEF Locking
  <2>2. registry = o /\ HostOf[o] # p
    BY <2>1 DEF SpoolIInv, RegistryHeld, Locking
  <2> QED BY <1>1, <2>2
<1>5. TheDeadDoNothing'
  BY <1>1, <1>2 DEF SpoolIInv, TheDeadDoNothing
<1>6. UsersHaveDirs'
  BY <1>1, <1>2 DEF SpoolIInv, UsersHaveDirs, Uses, OwnsGuard, Running
<1>7. NamesOfOne'
  BY <1>1, <1>2 DEF SpoolIInv, NamesOfOne
<1>8. DirsBounded'
  BY <1>1 DEF SpoolIInv, DirsBounded
<1> QED BY <1>3, <1>4, <1>5, <1>6, <1>7, <1>8 DEF SpoolIInv

\* A step that takes place inside the directories.
Inner(o) ==
    \/ Begin(o) \/ LockRegistry(o) \/ Make(o) \/ FinishPreparation(o) \/ Serve(o) \/ Delivered(o)
    \/ BackendLost(o) \/ Reap(o) \/ LockToRelease(o) \/ ReleaseFails(o) \/ FailureLockFreed(o)

LEMMA InnerIInv ==
    ASSUME SpoolIInv, NEW o \in Op, Inner(o)
    PROVE  SpoolIInv'
<1>1. RowOK(op[o]) /\ (op[o].pc \in Locking => registry = o)
  BY DEF SpoolIInv, OpsTypeOK, RegistryHeld
<1>2. CASE Begin(o) \/ LockRegistry(o) \/ Make(o)
  <2>1. \E pc \in {"asking", "sweeping", "closing", "open"} :
           /\ Go(o, pc) /\ UNCHANGED <<dirs, used, up>>
           /\ pc = "asking" => op[o].pc = "idle" /\ registry' = registry
           /\ pc = "sweeping" => op[o].pc = "asking" /\ registry = NoOp /\ registry' = o
           /\ pc \in {"closing", "open"} => op[o].pc = "making"
    BY <1>2 DEF Begin, LockRegistry, Make
  <2>2. op[o].child = "none"
    BY <1>1, <2>1 DEF RowOK
  <2> QED BY <1>1, <2>1, <2>2, GoesOn DEF Pcs, OwnsGuard, Locking, Running
<1>3. CASE FinishPreparation(o) \/ Serve(o) \/ Delivered(o)
  <2>1. \E pc \in {"finished", "closing", "serving"} :
           /\ Go(o, pc) /\ UNCHANGED <<dirs, used, up, registry>>
           /\ pc = "finished" => op[o].pc = "open" /\ op[o].child = "ok"
           /\ pc = "closing" => op[o].pc \in {"open", "serving", "sending"} /\ op[o].child \notin Running
           /\ pc = "serving" => op[o].pc = "finished"
    BY <1>1, <1>3 DEF FinishPreparation, Serve, Delivered, RowOK, ChildRuns, Running
  <2> QED BY <1>1, <2>1, GoesOn DEF Pcs, OwnsGuard, Locking, Running, RowOK
<1>4. CASE BackendLost(o) \/ Reap(o)
  <2>1. \E pc \in {"retained", "releasing"} :
           /\ Go(o, pc) /\ UNCHANGED <<dirs, used, up, registry>>
           /\ op[o].pc \in {"open", "sending", "closing"}
           /\ pc = "releasing" => op[o].child \notin Running
           /\ op[o].child # "sender"
    BY <1>1, <1>4 DEF BackendLost, Reap, RowOK, ChildRuns, Running
  <2> QED BY <1>1, <2>1, GoesOn DEF Pcs, OwnsGuard, Locking
<1>5. CASE LockToRelease(o) \/ ReleaseFails(o) \/ FailureLockFreed(o)
  <2>1. \E pc \in {"clearing", "retained", "stuck"} :
           /\ Go(o, pc) /\ UNCHANGED <<dirs, used, up>>
           /\ op[o].pc \in {"releasing", "clearing", "stuck"}
           /\ registry \in {NoOp, o} \/ registry' = registry
           /\ pc \in {"clearing", "stuck"} => registry' = o
    BY <1>1, <1>5 DEF LockToRelease, ReleaseFails, FailureLockFreed, Unlock, Locking
  <2> QED BY <1>1, <2>1, GoesOn DEF Pcs, OwnsGuard, Locking, RowOK, Running
<1> QED BY <1>2, <1>3, <1>4, <1>5 DEF Inner

LEMMA HelperIInv ==
    ASSUME SpoolIInv, NEW o \in Op,
           StartRenderer(o) \/ ChildExits(o) \/ Send(o) \/ StopWork(o)
    PROVE  SpoolIInv'
<1>1. RowOK(op[o]) /\ (op[o].pc \in Locking => registry = o)
  BY DEF SpoolIInv, OpsTypeOK, RegistryHeld
<1>2. PICK x :
        /\ op' = [op EXCEPT ![o] = x] /\ UNCHANGED <<dirs, used, registry, up>>
        /\ \/ op[o].pc = "open" /\ op[o].child = "none" /\ x = [op[o] EXCEPT !.child = "renderer"]
           \/ /\ ChildRuns(o)
              /\ \E end \in {"ok", "bad"} :
                    x = [op[o] EXCEPT !.child = IF HostOf[o] \in up THEN end ELSE "none",
                                      !.dir = IF HostOf[o] \in up THEN @ ELSE NoDir]
           \/ op[o].pc = "finished" /\ x = [op[o] EXCEPT !.pc = "sending", !.child = "sender"]
           \/ /\ op[o].pc \in {"asking", "sweeping", "making", "open", "finished", "serving", "sending"}
              /\ x = [op[o] EXCEPT !.stopped = TRUE,
                                   !.pc = IF @ \in {"open", "finished", "serving"} THEN "closing" ELSE @]
  <2>1. o \in DOMAIN op
    BY DEF SpoolIInv, OpsTypeOK
  <2>2. CASE StartRenderer(o)
    BY <2>1, <2>2 DEF StartRenderer
  <2>3. CASE ChildExits(o)
    <3>1. PICK end \in {"ok", "bad"} :
            op' = [op EXCEPT ![o].child = IF HostOf[o] \in up THEN end ELSE "none",
                             ![o].dir = IF HostOf[o] \in up THEN @ ELSE NoDir]
      BY <2>3 DEF ChildExits
    <3> DEFINE y == [op[o] EXCEPT !.child = IF HostOf[o] \in up THEN end ELSE "none",
                                  !.dir = IF HostOf[o] \in up THEN @ ELSE NoDir]
    <3>2. op' = [op EXCEPT ![o] = y]
      BY <2>1, <3>1
    <3> WITNESS y
    <3> QED BY <2>3, <3>2 DEF ChildExits
  <2>4. CASE Send(o)
    BY <2>1, <2>4 DEF Send
  <2>5. CASE StopWork(o)
    <3> DEFINE y == [op[o] EXCEPT !.stopped = TRUE,
                                  !.pc = IF @ \in {"open", "finished", "serving"} THEN "closing" ELSE @]
    <3>1. op' = [op EXCEPT ![o].stopped = TRUE,
                           ![o].pc = IF @ \in {"open", "finished", "serving"} THEN "closing" ELSE @]
      BY <2>5 DEF StopWork
    <3>2. op' = [op EXCEPT ![o] = y]
      BY <2>1, <3>1
    <3> WITNESS y
    <3> QED BY <2>5, <3>2 DEF StopWork
  <2> QED BY <2>2, <2>3, <2>4, <2>5
<1>3. /\ DOMAIN x = DOMAIN op[o]
      /\ \/ /\ op[o].pc = "open" /\ op[o].child = "none"
            /\ x.pc = "open" /\ x.child = "renderer" /\ x.dir = op[o].dir
         \/ /\ op[o].child \in Running /\ x.pc = op[o].pc
            /\ x.child \in {"ok", "bad", "none"}
            /\ x.dir = IF HostOf[o] \in up THEN op[o].dir ELSE NoDir
         \/ op[o].pc = "finished" /\ x.pc = "sending" /\ x.child = "sender" /\ x.dir = op[o].dir
         \/ /\ op[o].pc \in {"asking", "sweeping", "making", "open", "finished", "serving", "sending"}
            /\ x.pc = IF op[o].pc \in {"open", "finished", "serving"} THEN "closing" ELSE op[o].pc
            /\ x.child = op[o].child /\ x.dir = op[o].dir
  BY <1>1, <1>2 DEF RowOK, ChildRuns, Running
<1>4. HostOf[o] \in up \/ op[o].pc \in {"dead", "refused", "closed"}
  BY DEF SpoolIInv, TheDeadDoNothing
<1>5. RowOK(x)
  BY <1>1, <1>3 DEF RowOK, Pcs, Running
<1>6. x.dir \in {op[o].dir, NoDir} /\ (Uses(x) => x.dir = op[o].dir /\ Uses(op[o]))
  BY <1>1, <1>3, <1>4 DEF Uses, Running, OwnsGuard, RowOK
<1>7. (x.pc \in Locking => registry' = o) /\ (HostOf[o] \in up \/ x.pc \in {"dead", "refused", "closed"})
  BY <1>1, <1>2, <1>3, <1>4 DEF Locking
<1> QED BY <1>2, <1>5, <1>6, <1>7, OneMovesInPlace

LEMMA SpoolNextIInv == SpoolIInv /\ [SpoolNext]_spoolVars => SpoolIInv'
<1> SUFFICES ASSUME SpoolIInv, [SpoolNext]_spoolVars PROVE SpoolIInv'
  OBVIOUS
<1>1. CASE UNCHANGED spoolVars
  BY <1>1 DEF SpoolIInv, OpsTypeOK, RegistryHeld, TheDeadDoNothing, UsersHaveDirs, NamesOfOne,
     DirsBounded, spoolVars
<1>2. ASSUME NEW o \in Op, RegistryWaitExpires(o) PROVE SpoolIInv'
  <2>1. DirsBounded' /\ (\A q \in Op : Uses(op[q]) => op[q].dir \in dirs')
        /\ used' \subseteq Dir /\ dirs' \subseteq used'
    BY <1>2 DEF RegistryWaitExpires, SpoolIInv, DirsBounded, UsersHaveDirs, NamesOfOne
  <2> QED BY <1>2, <2>1, Ends DEF RegistryWaitExpires, Refuse
<1>3. ASSUME NEW o \in Op, Release(o) PROVE SpoolIInv'
  <2>1. registry = o
    BY <1>3 DEF Release, SpoolIInv, RegistryHeld, Locking
  <2> QED BY <1>3, <2>1, Removes DEF Release, Unlock
<1>4. ASSUME NEW o \in Op, MakeFails(o) PROVE SpoolIInv'
  <2>1. registry = o /\ op[o].pc = "making" /\ op[o].child = "none"
    BY <1>4 DEF MakeFails, SpoolIInv, RegistryHeld, Locking, OpsTypeOK, RowOK
  <2>2. CASE Refuse(o)
    BY <1>4, <2>1, <2>2, Removes DEF MakeFails, Unlock, Refuse
  <2>3. CASE Go(o, "retained") /\ UNCHANGED dirs
    BY <1>4, <2>1, <2>3, GoesOn DEF MakeFails, Unlock, Pcs, OwnsGuard, Locking
  <2> QED BY <1>4, <2>2, <2>3 DEF MakeFails
<1> QED
  BY <1>1, <1>2, <1>3, <1>4, InnerIInv, HelperIInv, SweepIInv, SweepFailsIInv, DieIInv
  DEF SpoolNext, Proceed, Disturb, Inner

\* The directories on disk never exceed the instance's allowance; nobody's directory is
\* cleared or given away while he or his helper uses it, and what is served or sent was
\* finished, however processes die and cleanups fail (SpoolReservation).
THEOREM UsersKeepFiles == SpoolSpec => []FilesOutliveTheirUsers
<1>1. SpoolSpec => []SpoolIInv
  BY SpoolInitIInv, SpoolNextIInv, PTL DEF SpoolSpec
<1>2. SpoolIInv => FilesOutliveTheirUsers
  <2> SUFFICES ASSUME SpoolIInv PROVE FilesOutliveTheirUsers
    OBVIOUS
  <2>1. WithinAllowance
    BY DEF SpoolIInv, DirsBounded, WithinAllowance
  <2>2. UsersKeepTheirFiles
    <3> SUFFICES ASSUME NEW o \in Op, Uses(op[o])
                 PROVE  op[o].dir \in dirs /\ \A other \in Op \ {o} : op[other].dir # op[o].dir
      BY DEF UsersKeepTheirFiles, Uses, ChildRuns, Running
    <3> QED BY SpoolAssumption DEF SpoolIInv, UsersHaveDirs, NamesOfOne
  <2>3. EndedWithoutHelpers /\ OnlyFinishedLeaves
    BY DEF SpoolIInv, OpsTypeOK, RowOK, Running, EndedWithoutHelpers, OnlyFinishedLeaves, ChildRuns
  <2> QED BY <2>1, <2>2, <2>3 DEF FilesOutliveTheirUsers
<1> QED BY <1>1, <1>2, PTL

-----------------------------------------------------------------------------
(* The digests.                                                            *)

\* The turns that are inside the transaction of the advisory lock.
Inside == {"locked"} \cup SharesPrefs

TurnsTypeOK ==
    /\ DOMAIN job = Replica
    /\ \A r \in Replica :
         job[r] = [pc |-> job[r].pc, kind |-> job[r].kind, period |-> job[r].period,
                   to |-> job[r].to, hour |-> job[r].hour, next |-> job[r].next]
    /\ \A r \in Replica : job[r].pc \in {"idle", "captured"} \cup Inside

MailsTypeOK ==
    /\ mails \in [Kind \X Period -> Nat] /\ unrecorded \in [Kind \X Period -> Nat]

\* Whoever is inside holds the lock, and nobody else does.
LockHeld == \A r \in Replica : job[r].pc \in Inside <=> holder = r

\* What is being made is not in the ledger.
NotEntered == \A r \in Replica : job[r].pc \in SharesPrefs => Digest(r) \notin ledger

\* A mail that the server took and whose entry is under way.
Underway(d) == \E r \in Replica : At(r, "accepted") /\ Digest(r) = d

DigestIInv ==
    /\ TurnsTypeOK /\ MailsTypeOK /\ LockHeld /\ NotEntered
    /\ OncePerPeriod /\ MadeFromCurrentSettings

LEMMA DigestInitIInv == DigestInit => DigestIInv
<1> SUFFICES ASSUME DigestInit PROVE DigestIInv
  OBVIOUS
<1>1. /\ job = [r \in Replica |-> NoJob] /\ ledger = {} /\ holder = NoReplica
      /\ mails = [d \in Kind \X Period |-> 0] /\ unrecorded = mails
  BY DEF DigestInit
<1>2. TurnsTypeOK
  BY <1>1 DEF TurnsTypeOK, NoJob
<1>3. MailsTypeOK
  BY <1>1 DEF MailsTypeOK
<1>4. LockHeld
  BY <1>1, DigestAssumption DEF LockHeld, Inside, SharesPrefs, NoJob
<1>5. NotEntered /\ MadeFromCurrentSettings
  BY <1>1 DEF NotEntered, MadeFromCurrentSettings, SharesPrefs, NoJob
<1>6. OncePerPeriod
  BY <1>1 DEF OncePerPeriod
<1> QED
  BY <1>2, <1>3, <1>4, <1>5, <1>6 DEF DigestIInv

\* Nobody but the holder of the lock is inside.
LEMMA OneInside ==
    ASSUME LockHeld, NEW r \in Replica, NEW q \in Replica,
           job[r].pc \in Inside, job[q].pc \in Inside
    PROVE  r = q
  BY DEF LockHeld

\* A turn that ends without a mail, or gives up one whose entry is lost.
LEMMA EndOfTurn ==
    ASSUME DigestIInv, NEW r \in Replica, job' = [job EXCEPT ![r] = NoJob],
           holder' = IF holder = r THEN NoReplica ELSE holder, prefs' = prefs,
           \/ /\ job[r].pc # "accepted" /\ UNCHANGED <<ledger, mails, unrecorded>>
           \/ /\ job[r].pc \in SharesPrefs /\ ledger' = ledger \cup {Digest(r)}
              /\ UNCHANGED <<mails, unrecorded>>
           \/ At(r, "sending") /\ Accept(r) /\ Lose(r) /\ UNCHANGED ledger
           \/ At(r, "accepted") /\ Lose(r) /\ UNCHANGED <<mails, ledger>>
    PROVE  DigestIInv'
<1> USE DEF At
<1>1. \A q \in Replica : job'[q] = IF q = r THEN NoJob ELSE job[q]
  BY DEF DigestIInv, TurnsTypeOK
<1>2. TurnsTypeOK'
  BY <1>1 DEF DigestIInv, TurnsTypeOK, NoJob
<1>3. MailsTypeOK'
  BY DEF DigestIInv, MailsTypeOK, Accept, Lose
<1>4. LockHeld'
  BY <1>1, DigestAssumption DEF DigestIInv, LockHeld, Inside, SharesPrefs, NoJob
<1>5. NotEntered'
  <2> SUFFICES ASSUME NEW q \in Replica, job'[q].pc \in SharesPrefs
               PROVE  <<job'[q].kind, job'[q].period>> \notin ledger'
    BY DEF NotEntered, Digest
  <2>1. q # r /\ job'[q] = job[q]
    BY <1>1 DEF NoJob, SharesPrefs
  <2>2. ledger' = ledger
    BY <2>1, OneInside DEF DigestIInv, Inside
  <2> QED BY <2>1, <2>2 DEF DigestIInv, NotEntered, Digest
<1>6. MadeFromCurrentSettings'
  <2> SUFFICES ASSUME NEW q \in Replica, job'[q].pc \in SharesPrefs
               PROVE  PrefsCurrent(q)' /\ holder' = q
    BY DEF MadeFromCurrentSettings
  <2>1. q # r /\ job'[q] = job[q]
    BY <1>1 DEF NoJob, SharesPrefs
  <2> QED BY <2>1 DEF DigestIInv, MadeFromCurrentSettings, PrefsCurrent
<1>7. OncePerPeriod'
  <2> SUFFICES ASSUME NEW d \in Kind \X Period
               PROVE  mails'[d] <= unrecorded'[d] + (IF d \in ledger' \/ Underway(d)' THEN 1 ELSE 0)
    BY DEF OncePerPeriod, Underway, At, Digest
  <2>1. /\ mails[d] \in Nat /\ unrecorded[d] \in Nat
        /\ mails[d] <= unrecorded[d] + (IF d \in ledger \/ Underway(d) THEN 1 ELSE 0)
    BY DEF DigestIInv, MailsTypeOK, OncePerPeriod, Underway
  <2>2. d # Digest(r) \/ ~At(r, "accepted") => (Underway(d)' <=> Underway(d))
    BY <1>1 DEF Underway, Digest, NoJob
  <2>3. At(r, "accepted") \/ At(r, "sending") => ~Underway(d)' /\ Digest(r) \notin ledger
    BY <1>1, OneInside DEF Underway, NoJob, Inside, SharesPrefs, DigestIInv, NotEntered
  <2>4. CASE d # Digest(r)
    BY <2>1, <2>2, <2>4 DEF DigestIInv, MailsTypeOK, Accept, Lose
  <2>5. CASE d = Digest(r)
    <3>1. CASE job[r].pc # "accepted" /\ UNCHANGED <<ledger, mails, unrecorded>>
      BY <2>1, <2>2, <3>1
    <3>2. CASE ledger' = ledger \cup {Digest(r)} /\ UNCHANGED <<mails, unrecorded>>
      BY <2>1, <2>5, <3>2
    <3>3. CASE At(r, "sending") /\ Accept(r) /\ Lose(r) /\ UNCHANGED ledger
      BY <2>1, <2>2, <2>3, <2>5, <3>3 DEF DigestIInv, MailsTypeOK, Accept, Lose
    <3>4. CASE At(r, "accepted") /\ Lose(r) /\ UNCHANGED <<mails, ledger>>
      BY <2>1, <2>3, <2>5, <3>4 DEF DigestIInv, MailsTypeOK, Lose
    <3> QED BY <3>1, <3>2, <3>3, <3>4
  <2> QED BY <2>4, <2>5
<1> QED
  BY <1>2, <1>3, <1>4, <1>5, <1>6, <1>7 DEF DigestIInv

\* A turn that goes on, without a mail.
LEMMA TurnGoesOn ==
    ASSUME DigestIInv, NEW r \in Replica, NEW j, job' = [job EXCEPT ![r] = j],
           j = [pc |-> j.pc, kind |-> j.kind, period |-> j.period,
                to |-> j.to, hour |-> j.hour, next |-> j.next],
           j.pc \in {"captured", "locked", "preparing", "sending", "empty"},
           ~At(r, "accepted"),
           holder' = IF j.pc = "captured" THEN holder ELSE r,
           j.pc = "captured" => job[r].pc \notin Inside,
           j.pc # "captured" => holder \in {NoReplica, r},
           j.pc \in SharesPrefs => <<j.kind, j.period>> \notin ledger /\ PrefsCurrent(r)',
           UNCHANGED <<prefs, ledger, mails, unrecorded>>
    PROVE  DigestIInv'
<1> USE DEF At
<1>1. \A q \in Replica : job'[q] = IF q = r THEN j ELSE job[q]
  BY DEF DigestIInv, TurnsTypeOK
<1>2. TurnsTypeOK'
  BY <1>1 DEF DigestIInv, TurnsTypeOK, Inside, SharesPrefs
<1>3. MailsTypeOK'
  BY DEF DigestIInv, MailsTypeOK
<1>4. LockHeld'
  BY <1>1, DigestAssumption DEF DigestIInv, LockHeld, Inside, SharesPrefs
<1>5. NotEntered'
  BY <1>1 DEF DigestIInv, NotEntered, Digest
<1>6. MadeFromCurrentSettings'
  BY <1>1, <1>4 DEF DigestIInv, MadeFromCurrentSettings, PrefsCurrent, LockHeld, Inside, SharesPrefs
<1>7. \A d : Underway(d)' <=> Underway(d)
  BY <1>1 DEF Underway, Digest
<1>8. OncePerPeriod'
  BY <1>7 DEF DigestIInv, OncePerPeriod, Underway
<1> QED
  BY <1>2, <1>3, <1>4, <1>5, <1>6, <1>8 DEF DigestIInv

\* A count for each member of a set, one of them raised.
LEMMA OneMore ==
    ASSUME NEW S, NEW f \in [S -> Nat], NEW x
    PROVE  [f EXCEPT ![x] = @ + 1] \in [S -> Nat]
<1> DEFINE g == [f EXCEPT ![x] = @ + 1]
<1>1. \A y \in S : g[y] = IF y = x THEN f[y] + 1 ELSE f[y]
  OBVIOUS
<1>2. \A y \in S : f[y] + 1 \in Nat /\ f[y] \in Nat
  OBVIOUS
<1>3. \A y \in S : g[y] \in Nat
  BY <1>1, <1>2, Zenon
<1>4. g = [y \in S |-> g[y]]
  OBVIOUS
<1> QED BY <1>3, <1>4

\* The server takes the mail.
LEMMA DeliverIInv ==
    ASSUME DigestIInv, NEW r \in Replica, Deliver(r)
    PROVE  DigestIInv'
<1> USE DEF At
<1> DEFINE j == [job[r] EXCEPT !.pc = "accepted"]
<1>1. /\ At(r, "sending") /\ Accept(r)
      /\ UNCHANGED <<prefs, ledger, unrecorded, holder>>
      /\ job' = [job EXCEPT ![r] = j]
  BY DEF Deliver, To
<1>2. j = [pc |-> "accepted", kind |-> job[r].kind, period |-> job[r].period,
           to |-> job[r].to, hour |-> job[r].hour, next |-> job[r].next]
  BY DEF DigestIInv, TurnsTypeOK
<1> HIDE DEF j
<1>3. \A q \in Replica : job'[q] = IF q = r THEN j ELSE job[q]
  BY <1>1 DEF DigestIInv, TurnsTypeOK
<1>4. TurnsTypeOK' /\ LockHeld' /\ NotEntered' /\ MadeFromCurrentSettings'
  BY <1>1, <1>2, <1>3 DEF DigestIInv, TurnsTypeOK, LockHeld, NotEntered, MadeFromCurrentSettings,
     PrefsCurrent, Digest, Inside, SharesPrefs
<1>5. MailsTypeOK'
  <2>1. mails \in [Kind \X Period -> Nat] /\ unrecorded' \in [Kind \X Period -> Nat]
    BY <1>1 DEF DigestIInv, MailsTypeOK
  <2>2. mails' \in [Kind \X Period -> Nat]
    BY <1>1, <2>1, OneMore DEF Accept
  <2> QED BY <2>1, <2>2 DEF MailsTypeOK
<1>6. OncePerPeriod'
  <2> SUFFICES ASSUME NEW d \in Kind \X Period
               PROVE  mails'[d] <= unrecorded'[d] + (IF d \in ledger' \/ Underway(d)' THEN 1 ELSE 0)
    BY DEF OncePerPeriod, Underway, Digest
  <2>1. /\ mails[d] \in Nat /\ unrecorded[d] \in Nat
        /\ mails[d] <= unrecorded[d] + (IF d \in ledger \/ Underway(d) THEN 1 ELSE 0)
    BY DEF DigestIInv, MailsTypeOK, OncePerPeriod, Underway
  <2>2. CASE d = Digest(r)
    <3>1. ~Underway(d) /\ d \notin ledger
      BY <1>1, <2>2, OneInside DEF Underway, Inside, SharesPrefs, DigestIInv, NotEntered
    <3>2. Underway(d)'
      BY <1>2, <1>3, <2>2 DEF Underway, Digest
    <3>3. mails'[d] = mails[d] + 1
      BY <1>1, <2>2 DEF Accept, DigestIInv, MailsTypeOK
    <3> QED BY <1>1, <2>1, <3>1, <3>2, <3>3
  <2>3. CASE d # Digest(r)
    <3>1. Underway(d)' <=> Underway(d)
      BY <1>1, <1>2, <1>3, <2>3 DEF Underway, Digest
    <3>2. mails'[d] = mails[d]
      BY <1>1, <2>3 DEF Accept, DigestIInv, MailsTypeOK
    <3> QED BY <1>1, <2>1, <3>1, <3>2
  <2> QED BY <2>2, <2>3
<1> QED
  BY <1>4, <1>5, <1>6 DEF DigestIInv

\* The settings are not changed under a digest that is made from them.
LEMMA SavePrefsIInv ==
    ASSUME DigestIInv, SavePrefs
    PROVE  DigestIInv'
<1>1. /\ \A r \in Replica : job[r].pc \notin SharesPrefs
      /\ UNCHANGED <<ledger, mails, unrecorded, job, holder>>
  BY DEF SavePrefs
<1> QED
  BY <1>1 DEF DigestIInv, TurnsTypeOK, MailsTypeOK, LockHeld, NotEntered, OncePerPeriod,
     MadeFromCurrentSettings, Digest, At

LEMMA DigestNextIInv == DigestIInv /\ [DigestNext]_digestVars => DigestIInv'
<1> SUFFICES ASSUME DigestIInv, [DigestNext]_digestVars PROVE DigestIInv'
  OBVIOUS
<1> USE DEF At
<1>1. ASSUME UNCHANGED <<prefs, ledger, mails, unrecorded, job, holder>> PROVE DigestIInv'
  BY <1>1 DEF DigestIInv, TurnsTypeOK, MailsTypeOK, LockHeld, NotEntered, OncePerPeriod,
     MadeFromCurrentSettings, Digest, PrefsCurrent
<1>2. ASSUME NEW r \in Replica, Capture(r) PROVE DigestIInv'
  <2> DEFINE owed == {k \in Wanted : k >= place[r]}
             k == CHOOSE x \in owed : \A y \in owed : x <= y
             j == [pc |-> "captured", kind |-> k, period |-> PeriodEnd(prefs.hour[k]),
                   to |-> prefs.to, hour |-> prefs.hour[k],
                   next |-> IF owed = {k} THEN 1 ELSE k + 1]
  <2>1. At(r, "idle") /\ UNCHANGED <<prefs, ledger, mails, unrecorded, holder>>
    BY <1>2 DEF Capture
  <2>2. UNCHANGED job \/ job' = [job EXCEPT ![r] = j]
    BY <1>2 DEF Capture
  <2>3. /\ j = [pc |-> j.pc, kind |-> j.kind, period |-> j.period,
                to |-> j.to, hour |-> j.hour, next |-> j.next]
        /\ j.pc = "captured"
    OBVIOUS
  <2> HIDE DEF j
  <2>4. j.pc \notin SharesPrefs
    BY <2>3 DEF SharesPrefs
  <2> QED BY <1>1, <2>1, <2>2, <2>3, <2>4, TurnGoesOn DEF Inside, SharesPrefs
<1>3. ASSUME NEW r \in Replica, NEW pc \in {"locked", "preparing", "sending", "empty"}, To(r, pc),
             ~At(r, "accepted"), holder' = r, holder \in {NoReplica, r},
             pc # "locked" => Digest(r) \notin ledger /\ PrefsCurrent(r),
             UNCHANGED <<prefs, ledger, mails, unrecorded>>
      PROVE  DigestIInv'
  <2> DEFINE j == [job[r] EXCEPT !.pc = pc]
  <2>1. job' = [job EXCEPT ![r] = j]
    BY <1>3 DEF To
  <2>2. j = [pc |-> pc, kind |-> job[r].kind, period |-> job[r].period,
             to |-> job[r].to, hour |-> job[r].hour, next |-> job[r].next]
    BY DEF DigestIInv, TurnsTypeOK
  <2> HIDE DEF j
  <2>3. job'[r] = j
    BY <2>1 DEF DigestIInv, TurnsTypeOK
  <2>4. pc # "locked" => <<j.kind, j.period>> \notin ledger /\ PrefsCurrent(r)'
    BY <1>3, <2>2, <2>3 DEF PrefsCurrent, Digest
  <2> QED BY <1>3, <2>1, <2>2, <2>4, TurnGoesOn DEF SharesPrefs
<1>4. ASSUME NEW r \in Replica, LockDigests(r) PROVE DigestIInv'
  BY <1>3, <1>4 DEF LockDigests
<1>5. ASSUME NEW r \in Replica, CheckAgain(r) PROVE DigestIInv'
  <2>1. At(r, "locked") /\ holder = r /\ UNCHANGED <<prefs, ledger, mails, unrecorded>>
    BY <1>5 DEF CheckAgain, DigestIInv, LockHeld, Inside
  <2>2. CASE EndTurn(r)
    BY <2>1, <2>2, EndOfTurn DEF EndTurn
  <2>3. CASE To(r, "preparing") /\ UNCHANGED holder /\ Digest(r) \notin ledger /\ PrefsCurrent(r)
    BY <1>3, <2>1, <2>3
  <2> QED BY <1>5, <2>2, <2>3 DEF CheckAgain
<1>6. ASSUME NEW r \in Replica, Prepare(r) PROVE DigestIInv'
  <2>1. At(r, "preparing") /\ UNCHANGED <<prefs, ledger, mails, unrecorded, holder>>
    BY <1>6 DEF Prepare
  <2>2. holder = r /\ Digest(r) \notin ledger /\ PrefsCurrent(r)
    BY <2>1 DEF DigestIInv, NotEntered, MadeFromCurrentSettings, SharesPrefs
  <2> QED BY <1>3, <1>6, <2>1, <2>2 DEF Prepare
<1>7. ASSUME NEW r \in Replica, Record(r) PROVE DigestIInv'
  BY <1>7, EndOfTurn DEF Record, EndTurn, SharesPrefs
<1>8. ASSUME NEW r \in Replica, FailTurn(r) PROVE DigestIInv'
  BY <1>8, EndOfTurn DEF FailTurn, EndTurn
<1>9. ASSUME NEW r \in Replica, AnswerLost(r) PROVE DigestIInv'
  BY <1>9, EndOfTurn DEF AnswerLost, EndTurn
<1>10. ASSUME NEW r \in Replica, Crash(r) PROVE DigestIInv'
  BY <1>10, EndOfTurn DEF Crash
<1>11. CASE HourPasses \/ UNCHANGED digestVars
  BY <1>1, <1>11 DEF HourPasses, digestVars
<1> QED
  BY <1>2, <1>4, <1>5, <1>6, <1>7, <1>8, <1>9, <1>10, <1>11, DeliverIInv, SavePrefsIInv
  DEF DigestNext, Work

\* A digest of a kind and period goes out once, and once more for each mail whose answer
\* or entry was lost, whatever replicas run; while one goes out, the settings are what it
\* was made from (email_digest.py, the advisory lock and the second look under it).
THEOREM DigestsGoOutOnce == DigestSpec => []DigestsOncePerPeriod
<1>1. DigestSpec => []DigestIInv
  BY DigestInitIInv, DigestNextIInv, PTL DEF DigestSpec
<1>2. DigestIInv => DigestsOncePerPeriod
  BY DEF DigestIInv, DigestsOncePerPeriod
<1> QED
  BY <1>1, <1>2, PTL

-----------------------------------------------------------------------------
(* Sequences of rows without repetition, for the addresses of trip ends.   *)

Differ(s) == \A i, j \in DOMAIN s : i # j => s[i] # s[j]

\* Rows that are not yet there join at the end.
LEMMA RowsJoin ==
    ASSUME NEW S, NEW s \in Seq(S), NEW t \in Seq(S), Differ(s), Differ(t),
           Range(s) \cap Range(t) = {}
    PROVE  s \o t \in Seq(S) /\ Differ(s \o t) /\ Range(s \o t) = Range(s) \cup Range(t)
<1> DEFINE u == s \o t
           m == Len(s)
           n == Len(t)
<1>1. m \in Nat /\ n \in Nat /\ DOMAIN s = 1 .. m /\ DOMAIN t = 1 .. n
  BY LenProperties
<1>2. u \in Seq(S) /\ Len(u) = m + n /\ \A i \in 1 .. m + n : u[i] = IF i <= m THEN s[i] ELSE t[i - m]
  BY ConcatProperties
<1>3. DOMAIN u = 1 .. m + n
  BY <1>2, LenProperties
<1>4. \A i \in 1 .. m : s[i] \in Range(s)
  BY <1>1 DEF Range
<1>5. \A i \in 1 .. n : t[i] \in Range(t)
  BY <1>1 DEF Range
<1> HIDE DEF u, m, n
<1>6. \A i \in 1 .. m : i \in 1 .. m + n /\ u[i] = s[i]
  BY <1>1, <1>2
<1>7. \A i \in 1 .. n : m + i \in 1 .. m + n /\ u[m + i] = t[i]
  BY <1>1, <1>2
<1>8. \A i \in 1 .. m + n : i \in 1 .. m \/ (i - m \in 1 .. n /\ i = m + (i - m))
  BY <1>1
<1>9. ASSUME NEW i \in 1 .. m + n, NEW j \in 1 .. m + n, i # j PROVE u[i] # u[j]
  <2>1. CASE i \in 1 .. m /\ j \in 1 .. m
    BY <2>1, <1>1, <1>6, <1>9 DEF Differ
  <2>2. CASE i \in 1 .. m /\ j \notin 1 .. m
    <3>1. u[i] \in Range(s) /\ u[j] \in Range(t)
      BY <2>2, <1>4, <1>5, <1>6, <1>7, <1>8
    <3> QED BY <3>1
  <2>3. CASE i \notin 1 .. m /\ j \in 1 .. m
    <3>1. u[j] \in Range(s) /\ u[i] \in Range(t)
      BY <2>3, <1>4, <1>5, <1>6, <1>7, <1>8
    <3> QED BY <3>1
  <2>4. CASE i \notin 1 .. m /\ j \notin 1 .. m
    <3>1. i - m \in 1 .. n /\ j - m \in 1 .. n /\ i - m # j - m
      BY <2>4, <1>1, <1>8, <1>9
    <3>2. u[i] = t[i - m] /\ u[j] = t[j - m]
      BY <2>4, <1>7, <1>8
    <3> QED BY <3>1, <3>2, <1>1 DEF Differ
  <2> QED BY <2>1, <2>2, <2>3, <2>4
<1>10. Range(u) = Range(s) \cup Range(t)
  <2>1. Range(u) \subseteq Range(s) \cup Range(t)
    <3>1. ASSUME NEW i \in 1 .. m + n PROVE u[i] \in Range(s) \cup Range(t)
      BY <1>4, <1>5, <1>6, <1>7, <1>8
    <3> QED BY <3>1, <1>3 DEF Range
  <2>2. Range(s) \subseteq Range(u)
    BY <1>1, <1>3, <1>6 DEF Range
  <2>3. Range(t) \subseteq Range(u)
    BY <1>1, <1>3, <1>7 DEF Range
  <2> QED BY <2>1, <2>2, <2>3
<1>11. Differ(u)
  BY <1>3, <1>9 DEF Differ
<1> QED
  BY <1>2, <1>10, <1>11 DEF u

LEMMA OneRow ==
    ASSUME NEW S, NEW c \in S
    PROVE  <<c>> \in Seq(S) /\ Differ(<<c>>) /\ Range(<<c>>) = {c}
<1>1. <<c>> \in Seq(S) /\ DOMAIN <<c>> = 1 .. 1 /\ <<c>>[1] = c
  OBVIOUS
<1> QED
  BY <1>1 DEF Differ, Range

\* A row that is deleted leaves the others.
LEMMA RowTakenOut ==
    ASSUME NEW S, NEW s \in Seq(S), Differ(s), NEW c
    PROVE  LET t == RemoveFirst(s, c)
           IN  t \in Seq(S) /\ Differ(t) /\ Range(t) = Range(s) \ {c}
<1> DEFINE n == Len(s)
           t == RemoveFirst(s, c)
<1>1. n \in Nat /\ DOMAIN s = 1 .. n /\ \A i \in 1 .. n : s[i] \in S
  BY LenProperties, ElementOfSeq
<1>2. CASE \A i \in 1 .. n : s[i] # c
  <2>1. t = s
    BY <1>2 DEF RemoveFirst
  <2>2. c \notin Range(s)
    BY <1>1, <1>2 DEF Range
  <2> QED BY <2>1, <2>2
<1>3. CASE \E i \in 1 .. n : s[i] = c
  <2>1. PICK k \in 1 .. n : s[k] = c
    BY <1>3
  <2> DEFINE p == SubSeq(s, 1, k - 1)
             q == SubSeq(s, k + 1, n)
  <2>2. {i \in 1 .. n : s[i] = c} = {k}
    BY <1>1, <2>1 DEF Differ
  <2>3. Min({k}) = k
    BY <1>1 DEF Min
  <2>4. t = p \o q
    BY <1>3, <2>2, <2>3 DEF RemoveFirst, RemoveAt, SelectInSeq
  <2>5. p \in Seq(S) /\ Len(p) = k - 1 /\ \A i \in 1 .. k - 1 : p[i] = s[i]
    BY <1>1, SubSeqProperties
  <2>6. q \in Seq(S) /\ Len(q) = n - k /\ \A i \in 1 .. n - k : q[i] = s[k + i]
    <3>1. k + 1 \in Int /\ n \in Int /\ \A i \in k + 1 .. n : s[i] \in S
      BY <1>1
    <3>2. /\ q \in Seq(S) /\ Len(q) = IF k + 1 <= n THEN n - (k + 1) + 1 ELSE 0
          /\ \A i \in 1 .. n - (k + 1) + 1 : q[i] = s[k + 1 + i - 1]
      BY <3>1, SubSeqProperties
    <3> HIDE DEF q, n
    <3>3. \A i \in 1 .. n - k : i \in 1 .. n - (k + 1) + 1 /\ k + 1 + i - 1 = k + i
      BY <1>1
    <3>4. Len(q) = n - k /\ \A i \in 1 .. n - k : q[i] = s[k + i]
      BY <3>2, <3>3, <1>1
    <3> QED BY <3>2, <3>4
  <2>7. DOMAIN p = 1 .. k - 1 /\ DOMAIN q = 1 .. n - k
    BY <2>5, <2>6, LenProperties
  <2> HIDE DEF p, q, n, t
  <2>8. k \in Nat /\ \A i \in 1 .. k - 1 : i \in 1 .. n /\ i < k
    BY <1>1
  <2>9. \A i \in 1 .. n - k : k + i \in 1 .. n /\ k + i > k
    BY <1>1
  <2>10. \A i \in 1 .. n : i # k => i \in 1 .. k - 1 \/ (i - k \in 1 .. n - k /\ i = k + (i - k))
    BY <1>1
  <2>11. Differ(p)
    BY <1>1, <2>5, <2>7, <2>8 DEF Differ
  <2>12. Differ(q)
    <3>1. ASSUME NEW i \in 1 .. n - k, NEW j \in 1 .. n - k, i # j PROVE q[i] # q[j]
      <4>1. k + i \in 1 .. n /\ k + j \in 1 .. n /\ k + i # k + j
        BY <1>1, <2>8, <2>9, <3>1
      <4> QED BY <4>1, <1>1, <2>6 DEF Differ
    <3> QED BY <3>1, <2>7 DEF Differ
  <2>13. Range(p) = {s[i] : i \in 1 .. k - 1}
    BY <2>5, <2>7 DEF Range
  <2>14. Range(q) = {s[k + i] : i \in 1 .. n - k}
    BY <2>6, <2>7 DEF Range
  <2>15. Range(p) \cap Range(q) = {}
    <3>1. ASSUME NEW i \in 1 .. k - 1, NEW j \in 1 .. n - k PROVE s[i] # s[k + j]
      <4>1. i \in 1 .. n /\ k + j \in 1 .. n /\ i # k + j
        BY <1>1, <2>8, <2>9
      <4> QED BY <4>1, <1>1 DEF Differ
    <3> QED BY <3>1, <2>13, <2>14
  <2>16. Range(p) \cup Range(q) = Range(s) \ {c}
    <3>1. ASSUME NEW i \in 1 .. n, s[i] # c PROVE s[i] \in Range(p) \cup Range(q)
      BY <3>1, <2>1, <2>10, <2>13, <2>14
    <3>2. \A i \in 1 .. k - 1 : s[i] \in Range(s) \ {c}
      BY <1>1, <2>1, <2>2, <2>8 DEF Range
    <3>3. \A i \in 1 .. n - k : s[k + i] \in Range(s) \ {c}
      BY <1>1, <2>1, <2>2, <2>8, <2>9 DEF Range
    <3>4. Range(s) \ {c} \subseteq Range(p) \cup Range(q)
      BY <1>1, <3>1 DEF Range
    <3>5. Range(p) \cup Range(q) \subseteq Range(s) \ {c}
      BY <3>2, <3>3, <2>13, <2>14
    <3> QED BY <3>4, <3>5
  <2>17. t \in Seq(S) /\ Differ(t) /\ Range(t) = Range(p) \cup Range(q)
    BY <2>4, <2>5, <2>6, <2>11, <2>12, <2>15, RowsJoin
  <2> QED BY <2>16, <2>17 DEF t
<1> QED
  BY <1>2, <1>3

\* A page's coordinates, in some order.
LEMMA InSomeOrder ==
    ASSUME NEW S, IsFiniteSet(S)
    PROVE  SetToSeq(S) \in Seq(S) /\ Differ(SetToSeq(S)) /\ Range(SetToSeq(S)) = S
<1> DEFINE n == Cardinality(S)
           s == SetToSeq(S)
<1>1. n \in Nat /\ ExistsBijection(1 .. n, S)
  BY FS_CardinalityType
<1>2. PICK f \in Bijection(1 .. n, S) : TRUE
  BY <1>1 DEF ExistsBijection
<1>3. f \in [1 .. n -> S] /\ IsInjective(f)
  BY <1>2 DEF Bijection, Injection, IsInjective
<1>4. s \in [1 .. n -> S] /\ IsInjective(s)
  BY <1>3 DEF SetToSeq
<1> HIDE DEF n, s
<1>5. s \in Injection(1 .. n, S)
  BY <1>4 DEF Injection
<1>6. s \in Surjection(1 .. n, S)
  <2>1. IsFiniteSet(1 .. n) /\ Cardinality(1 .. n) = n
    <3>1. 1 \in Int /\ n \in Int
      BY <1>1
    <3>2. IsFiniteSet(1 .. n) /\ Cardinality(1 .. n) = IF 1 > n THEN 0 ELSE n - 1 + 1
      BY <3>1, FS_Interval
    <3> QED BY <3>2, <1>1
  <2> QED BY <2>1, <1>5, FS_Injection DEF n
<1>7. s \in Seq(S) /\ DOMAIN s = 1 .. n
  BY <1>1, <1>4
<1>8. Range(s) = S
  BY <1>4, <1>6, <1>7 DEF Surjection, Range
<1> QED
  BY <1>4, <1>7, <1>8 DEF s, Differ, IsInjective

\* A finite set of numbers that is not empty has a least and a greatest one.
LEMMA Extremes ==
    ASSUME NEW S \in SUBSET Int, IsFiniteSet(S), S # {}
    PROVE  /\ \E x \in S : \A y \in S : x <= y
           /\ \E x \in S : \A y \in S : y <= x
<1> DEFINE below == {{y \in S : y <= x} : x \in S}
           above == {{y \in S : x <= y} : x \in S}
<1>1. IsWellFoundedOn(StrictSubsetOrdering(S), SUBSET S)
  BY FS_StrictSubsetOrderingWellFounded, FS_FiniteSubsetsOfFinite
<1>2. below \subseteq SUBSET S /\ below # {} /\ above \subseteq SUBSET S /\ above # {}
  OBVIOUS
<1>3. \E T \in below : \A U \in below : <<U, T>> \notin StrictSubsetOrdering(S)
  <2> HIDE DEF below
  <2> QED BY <1>1, <1>2, WFMin
<1>4. \E T \in above : \A U \in above : <<U, T>> \notin StrictSubsetOrdering(S)
  <2> HIDE DEF above
  <2> QED BY <1>1, <1>2, WFMin
<1>5. PICK x \in S : \A y \in S : <<{z \in S : z <= y}, {z \in S : z <= x}>> \notin StrictSubsetOrdering(S)
  BY <1>3
<1>6. PICK m \in S : \A y \in S : <<{z \in S : y <= z}, {z \in S : m <= z}>> \notin StrictSubsetOrdering(S)
  BY <1>4
<1>7. ASSUME NEW y \in S, y < x PROVE FALSE
  <2>1. {z \in S : z <= y} \subseteq {z \in S : z <= x}
    <3>1. \A z \in S : z \in Int /\ x \in Int /\ y \in Int
      OBVIOUS
    <3>2. \A z \in S : z <= y => z <= x
      BY <1>7, <3>1
    <3> QED BY <3>2, Zenon
  <2>2. x \in {z \in S : z <= x} /\ x \notin {z \in S : z <= y}
    BY <1>7
  <2> QED BY <1>5, <2>1, <2>2 DEF StrictSubsetOrdering
<1>8. ASSUME NEW y \in S, m < y PROVE FALSE
  <2>1. {z \in S : y <= z} \subseteq {z \in S : m <= z}
    <3>1. \A z \in S : z \in Int /\ m \in Int /\ y \in Int
      OBVIOUS
    <3>2. \A z \in S : y <= z => m <= z
      BY <1>8, <3>1
    <3> QED BY <3>2, Zenon
  <2>2. m \in {z \in S : m <= z} /\ m \notin {z \in S : y <= z}
    BY <1>8
  <2> QED BY <1>6, <2>1, <2>2 DEF StrictSubsetOrdering
<1> QED
  BY <1>7, <1>8

\* A page is the first of the ids that are left, and all of them if it is not full.
LEMMA PageIsFirst ==
    ASSUME NEW left \in SUBSET Int, IsFiniteSet(left), NEW n \in Nat \ {0}
    PROVE  LET page == {t \in left : Cardinality({s \in left : s <= t}) <= n}
           IN  /\ \A s \in page, t \in left \ page : s < t
               /\ Cardinality(page) < n => page = left
               /\ ~(Cardinality(page) < n) => page # {}
<1> DEFINE upTo(t) == {s \in left : s <= t}
           page == {t \in left : Cardinality(upTo(t)) <= n}
<1>1. \A t \in left : IsFiniteSet(upTo(t)) /\ Cardinality(upTo(t)) \in Nat
  BY FS_Subset, FS_CardinalityType
<1>2. ASSUME NEW s \in page, NEW t \in left \ page, t <= s PROVE FALSE
  <2>1. \A x \in left : x <= t => x <= s
    BY <1>2
  <2>2. upTo(t) \in SUBSET upTo(s)
    BY <2>1
  <2>3. Cardinality(upTo(t)) <= Cardinality(upTo(s))
    <3> HIDE DEF upTo
    <3> QED BY <1>1, <2>2, FS_Subset
  <2>4. Cardinality(upTo(s)) <= n /\ ~(Cardinality(upTo(t)) <= n) /\ s \in left /\ t \in left
    OBVIOUS
  <2> HIDE DEF upTo, page
  <2> QED BY <1>1, <2>3, <2>4
<1>3. \A s \in page, t \in left \ page : s < t
  BY <1>2
<1>4. IsFiniteSet(page) /\ IsFiniteSet(left \ page) /\ Cardinality(page) \in Nat
  BY FS_Subset, FS_CardinalityType
<1>5. ASSUME Cardinality(page) < n, page # left PROVE FALSE
  <2>1. PICK t \in left \ page : \A s \in left \ page : t <= s
    <3> DEFINE rest == left \ page
    <3>1. rest \in SUBSET Int /\ rest # {} /\ IsFiniteSet(rest)
      BY <1>4, <1>5
    <3>2. \E t \in rest : \A s \in rest : t <= s
      <4> HIDE DEF rest
      <4> QED BY <3>1, Extremes
    <3> QED BY <3>2
  <2>2. \A s \in left : s <= t => s \in page \/ s = t
    BY <2>1
  <2>3. upTo(t) \in SUBSET (page \cup {t})
    BY <2>2
  <2>4. t \in left /\ t \notin page /\ ~(Cardinality(upTo(t)) <= n)
    BY <2>1
  <2> HIDE DEF upTo, page
  <2>5. IsFiniteSet(page \cup {t}) /\ Cardinality(page \cup {t}) = Cardinality(page) + 1
    BY <1>4, <2>4, FS_AddElement
  <2>6. Cardinality(upTo(t)) <= Cardinality(page) + 1
    BY <2>3, <2>5, FS_Subset
  <2> QED BY <1>1, <1>4, <1>5, <2>4, <2>6
<1>6. ASSUME page = {} PROVE Cardinality(page) < n
  <2> HIDE DEF page
  <2>1. Cardinality(page) = 0
    BY <1>6, FS_EmptySet
  <2> QED BY <2>1
<1> QED
  BY <1>3, <1>5, <1>6

-----------------------------------------------------------------------------
(* The addresses of trip ends.                                             *)

TurnFields == {"pc", "coord", "source", "sourceHolds", "rowHolds", "cached", "big"}

AddressesTypeOK ==
    /\ trip \in [Trips -> Coord \cup {"placed", "unborn", "deleted"}]
    /\ due \in Seq(Coord)
    /\ DOMAIN disc = {"cursor", "pending", "changed", "unit"} /\ disc.cursor \in Nat
    /\ DOMAIN turn = Server /\ \A r \in Server : DOMAIN turn[r] = TurnFields

\* What a turn has read and still relies on.
TurnsRight ==
    \A r \in Server :
        /\ turn[r].pc = "settling" /\ turn[r].cached => turn[r].coord \in cache
        /\ turn[r].pc = "asking" => turn[r].coord \in Coord
        /\ turn[r].pc = "asking" /\ turn[r].sourceHolds => turn[r].source \in Sources(turn[r].coord)

AddressesIInv == AddressesTypeOK /\ TurnsRight /\ RowsDiffer /\ EndsAccountedFor

LEMMA AddressesInitIInv == GeocodeInit => AddressesIInv
<1> SUFFICES ASSUME GeocodeInit PROVE AddressesIInv
  OBVIOUS
<1> USE DEF GeocodeInit, GeocodeFrom
<1>1. AddressesTypeOK
  BY DEF AddressesTypeOK, NewDiscovery, NoTurn, TurnFields
<1>2. TurnsRight
  BY DEF TurnsRight, NoTurn
<1>3. RowsDiffer
  BY DEF RowsDiffer
<1>4. EndsAccountedFor
  BY DEF EndsAccountedFor, NewDiscovery
<1> QED
  BY <1>1, <1>2, <1>3, <1>4 DEF AddressesIInv

RowsRight == due \in Seq(Coord) /\ RowsDiffer

LEMMA RowsAreDistinct ==
    ASSUME due \in Seq(Coord)
    PROVE  RowsDiffer <=> Differ(due) /\ Range(due) \cap later = {}
BY DEF RowsDiffer, Differ, Range

LEMMA RowsAreDistinctThen ==
    ASSUME due' \in Seq(Coord)
    PROVE  RowsDiffer' <=> Differ(due') /\ Range(due') \cap later' = {}
BY DEF RowsDiffer, Differ, Range

\* geocode_endpoint_intents.
LEMMA EndIsQueued ==
    ASSUME RowsRight, NEW c, QueueEnd(c), later' = later
    PROVE  RowsRight'
<1>1. CASE due' = due
  BY <1>1 DEF RowsRight, RowsDiffer
<1>2. CASE due' # due
  <2>1. c \in Coord /\ c \notin Rows /\ due' = Append(due, c)
    BY <1>2 DEF QueueEnd
  <2>2. due \in Seq(Coord) /\ Differ(due) /\ Range(due) \cap later = {}
    BY RowsAreDistinct DEF RowsRight
  <2>3. due' = due \o <<c>>
    BY <2>1, <2>2
  <2>4. <<c>> \in Seq(Coord) /\ Differ(<<c>>) /\ Range(<<c>>) = {c}
    BY <2>1, OneRow
  <2>5. Range(due) \cap Range(<<c>>) = {}
    BY <2>1, <2>4 DEF Rows
  <2>6. /\ due \o <<c>> \in Seq(Coord) /\ Differ(due \o <<c>>)
        /\ Range(due \o <<c>>) = Range(due) \cup Range(<<c>>)
    BY <2>2, <2>4, <2>5, RowsJoin
  <2>7. Range(due') \cap later' = {}
    BY <2>1, <2>2, <2>3, <2>4, <2>6 DEF Rows
  <2> QED BY <2>3, <2>6, <2>7, RowsAreDistinctThen DEF RowsRight
<1> QED
  BY <1>1, <1>2

\* A row comes due.
LEMMA RowComesDue ==
    ASSUME RowsRight, NEW c \in Coord, TimeComes(c)
    PROVE  RowsRight' /\ Rows' = Rows
<1>1. c \in later /\ later' = later \ {c} /\ due' = Append(due, c)
  BY DEF TimeComes
<1>2. due \in Seq(Coord) /\ Differ(due) /\ Range(due) \cap later = {}
  BY RowsAreDistinct DEF RowsRight
<1>3. due' = due \o <<c>>
  BY <1>1, <1>2
<1>4. <<c>> \in Seq(Coord) /\ Differ(<<c>>) /\ Range(<<c>>) = {c}
  BY OneRow
<1>5. Range(due) \cap Range(<<c>>) = {}
  BY <1>1, <1>2, <1>4
<1>6. /\ due \o <<c>> \in Seq(Coord) /\ Differ(due \o <<c>>)
      /\ Range(due \o <<c>>) = Range(due) \cup Range(<<c>>)
  BY <1>2, <1>4, <1>5, RowsJoin
<1>7. Range(due') = Range(due) \cup {c}
  BY <1>3, <1>4, <1>6
<1>8. Range(due') \cap later' = {}
  BY <1>1, <1>2, <1>7
<1> QED
  BY <1>1, <1>3, <1>6, <1>7, <1>8, RowsAreDistinctThen DEF RowsRight, Rows

LEMMA RowDeleted ==
    ASSUME RowsRight, NEW r \in Server, DeleteRow(r)
    PROVE  RowsRight' /\ Rows' = Rows \ {turn[r].coord}
<1> DEFINE c == turn[r].coord
           t == RemoveFirst(due, c)
<1>1. due' = t /\ later' = later \ {c}
  BY DEF DeleteRow
<1>2. due \in Seq(Coord) /\ Differ(due) /\ Range(due) \cap later = {}
  BY RowsAreDistinct DEF RowsRight
<1>3. t \in Seq(Coord) /\ Differ(t) /\ Range(t) = Range(due) \ {c}
  BY <1>2, RowTakenOut
<1> HIDE DEF t, c
<1>4. due' \in Seq(Coord) /\ Differ(due') /\ Range(due') = Range(due) \ {c}
  BY <1>1, <1>3
<1>5. Range(due') \cap later' = {}
  BY <1>1, <1>2, <1>4
<1> QED
  BY <1>1, <1>4, <1>5, RowsAreDistinctThen DEF RowsRight, Rows, c

LEMMA RowPutOff ==
    ASSUME RowsRight, NEW r \in Server, NEW isBig, Retry(r, isBig)
    PROVE  RowsRight' /\ Rows' = Rows \cup {turn[r].coord}
<1> DEFINE c == turn[r].coord
           t == RemoveFirst(due, c)
<1>1. due' = t /\ later' = later \cup {c}
  BY DEF Retry
<1>2. due \in Seq(Coord) /\ Differ(due) /\ Range(due) \cap later = {}
  BY RowsAreDistinct DEF RowsRight
<1>3. t \in Seq(Coord) /\ Differ(t) /\ Range(t) = Range(due) \ {c}
  BY <1>2, RowTakenOut
<1> HIDE DEF t, c
<1>4. due' \in Seq(Coord) /\ Differ(due') /\ Range(due') = Range(due) \ {c}
  BY <1>1, <1>3
<1>5. Range(due') \cap later' = {}
  BY <1>1, <1>2, <1>4
<1> QED
  BY <1>1, <1>4, <1>5, RowsAreDistinctThen DEF RowsRight, Rows, c


\* A step of a turn: it gives up or pauses, or keeps what it has read, and whoever has
\* been told that his source changed stays told.
Lapses(q, p) ==
    \/ p.pc \in {"idle", "discovering", "pausing"}
    \/ /\ p.pc = q.pc /\ p.coord = q.coord /\ p.source = q.source /\ p.cached = q.cached
       /\ p.sourceHolds => q.sourceHolds

TurnsLapse ==
    /\ DOMAIN turn' = Server
    /\ \A r \in Server : DOMAIN turn'[r] = TurnFields /\ Lapses(turn[r], turn'[r])

LEMMA EndOfLapses ==
    ASSUME AddressesTypeOK, NEW r \in Server, EndOf(r) PROVE TurnsLapse
BY DEF AddressesTypeOK, EndOf, TurnsLapse, Lapses, NoTurn, TurnFields

LEMMA RowGoneLapses ==
    ASSUME AddressesTypeOK, NEW r \in Server, NEW c,
           turn' = [Rewritten(c, turn) EXCEPT ![r] = NoTurn]
    PROVE  TurnsLapse
<1>1. \A s \in Server \ {r} : turn'[s] = [turn[s] EXCEPT !.rowHolds = @ /\ turn[s].coord # c]
  BY DEF Rewritten
<1>2. DOMAIN turn' = Server /\ turn'[r] = NoTurn
  BY DEF Rewritten
<1>3. ASSUME NEW s \in Server PROVE DOMAIN turn'[s] = TurnFields /\ Lapses(turn[s], turn'[s])
  <2>1. CASE s = r
    BY <1>2, <2>1 DEF NoTurn, TurnFields, Lapses
  <2>2. CASE s # r
    <3>1. turn'[s] = [turn[s] EXCEPT !.rowHolds = @ /\ turn[s].coord # c]
      BY <1>1, <2>2
    <3>2. DOMAIN turn[s] = TurnFields
      BY DEF AddressesTypeOK
    <3>3. /\ DOMAIN turn'[s] = TurnFields
          /\ turn'[s].pc = turn[s].pc /\ turn'[s].coord = turn[s].coord
          /\ turn'[s].source = turn[s].source /\ turn'[s].cached = turn[s].cached
          /\ turn'[s].sourceHolds = turn[s].sourceHolds
      BY <3>1, <3>2 DEF TurnFields
    <3> QED BY <3>3 DEF Lapses
  <2> QED BY <2>1, <2>2
<1> QED
  BY <1>2, <1>3 DEF TurnsLapse

LEMMA DisownedLapses ==
    ASSUME AddressesTypeOK, NEW S, turn' = Disowned(S, turn)
    PROVE  /\ TurnsLapse
           /\ \A r \in Server : turn'[r].source = turn[r].source
           /\ \A r \in Server : turn'[r].sourceHolds => turn[r].source \notin S
<1>1. \A s \in Server : turn'[s] = [turn[s] EXCEPT !.sourceHolds = @ /\ turn[s].source \notin S]
  BY DEF Disowned
<1>2. DOMAIN turn' = Server
  BY DEF Disowned
<1>3. \A s \in Server : DOMAIN turn[s] = TurnFields
  BY DEF AddressesTypeOK
<1>4. ASSUME NEW s \in Server
      PROVE  /\ DOMAIN turn'[s] = TurnFields /\ turn'[s].pc = turn[s].pc
             /\ turn'[s].coord = turn[s].coord /\ turn'[s].source = turn[s].source
             /\ turn'[s].cached = turn[s].cached
             /\ turn'[s].sourceHolds = (turn[s].sourceHolds /\ turn[s].source \notin S)
  BY <1>1, <1>3 DEF TurnFields
<1> QED
  BY <1>2, <1>4 DEF TurnsLapse, Lapses

\* What a turn has read stays right if the source it asks for does, as far as it knows.
LEMMA SourcesStay ==
    ASSUME TurnsRight, TurnsLapse, cache \subseteq cache',
           \A r \in Server :
               turn[r].pc = "asking" /\ turn[r].source \in Sources(turn[r].coord) /\ turn'[r].sourceHolds =>
                   /\ trip'[turn[r].source] = trip[turn[r].source]
                   /\ turn[r].source \in Manual \/ on'
    PROVE  TurnsRight'
<1>2. ASSUME NEW r \in Server, turn'[r].pc \in {"settling", "asking"}
      PROVE  /\ turn'[r].pc = turn[r].pc /\ turn'[r].coord = turn[r].coord
             /\ turn'[r].source = turn[r].source /\ turn'[r].cached = turn[r].cached
             /\ turn'[r].sourceHolds => turn[r].sourceHolds
  BY <1>2 DEF TurnsLapse, Lapses
<1>3. ASSUME NEW r \in Server, turn'[r].pc = "settling", turn'[r].cached
      PROVE  turn'[r].coord \in cache'
  <2>1. turn[r].pc = "settling" /\ turn'[r].coord = turn[r].coord /\ turn'[r].cached = turn[r].cached
    BY <1>2, <1>3
  <2>2. turn[r].cached
    BY <2>1, <1>3
  <2> QED BY <2>1, <2>2 DEF TurnsRight
<1>4. ASSUME NEW r \in Server, turn'[r].pc = "asking"
      PROVE  turn'[r].coord \in Coord
  BY <1>2, <1>4 DEF TurnsRight
<1>5. ASSUME NEW r \in Server, turn'[r].pc = "asking", turn'[r].sourceHolds
      PROVE  turn'[r].source \in {t \in Trips : trip'[t] = turn'[r].coord /\ (t \in Manual \/ on')}
  <2>1. turn[r].pc = "asking" /\ turn[r].sourceHolds
    BY <1>2, <1>5
  <2>2. turn[r].source \in Sources(turn[r].coord)
    BY <2>1 DEF TurnsRight
  <2>3. /\ trip'[turn[r].source] = trip[turn[r].source]
        /\ turn[r].source \in Manual \/ on'
    BY <1>5, <2>1, <2>2
  <2> QED BY <1>2, <1>5, <2>2, <2>3 DEF Sources
<1> QED
  BY <1>3, <1>4, <1>5, Zenon DEF TurnsRight, Sources

LEMMA LapsingIsRight ==
    ASSUME TurnsRight, TurnsLapse, trip' = trip, on' = on, cache \subseteq cache'
    PROVE  TurnsRight'
BY SourcesStay DEF Sources

\* A row may go when nobody needs it or its address is stored.
LEMMA EndsStayAccounted ==
    ASSUME EndsAccountedFor, trip' = trip, on' = on,
           disc' = disc \/ \E u : disc' = [disc EXCEPT !.unit = u],
           AddressesTypeOK,
           \A c \in Coord : c \in cache \cup Rows => c \in cache' \cup Rows' \/ ~HasSource(c)
    PROVE  EndsAccountedFor'
<1>1. disc'.cursor = disc.cursor /\ disc'.pending = disc.pending /\ disc'.changed = disc.changed
  BY DEF AddressesTypeOK
<1>2. \A c : Sources(c)' = Sources(c)
  BY DEF Sources
<1>3. ASSUME NEW c \in Coord, NEW t \in Sources(c), c \notin cache' \cup Rows'
      PROVE  disc.pending /\ (disc.cursor = 0 \/ t > disc.cursor \/ disc.changed)
  BY <1>3 DEF EndsAccountedFor, HasSource
<1> QED
  BY <1>1, <1>2, <1>3 DEF EndsAccountedFor


-----------------------------------------------------------------------------
(* The steps of the account: trips, the device.                            *)

LEMMA ChangesAreNoticed ==
    ASSUME AddressesTypeOK, Changed
    PROVE  /\ EndsAccountedFor'
           /\ DOMAIN disc' = {"cursor", "pending", "changed", "unit"} /\ disc'.cursor \in Nat
<1>1. /\ disc'.pending = TRUE /\ disc'.changed = TRUE /\ disc'.cursor = disc.cursor
      /\ DOMAIN disc' = {"cursor", "pending", "changed", "unit"}
  BY DEF Changed, AddressesTypeOK
<1> QED
  BY <1>1 DEF EndsAccountedFor, AddressesTypeOK

LEMMA InsertTripIInv ==
    ASSUME AddressesIInv, NEW t \in Trips, InsertTrip(t)
    PROVE  AddressesIInv'
<1>1. /\ trip[t] = "unborn" /\ Changed /\ UNCHANGED <<cache, later, on, turn>>
      /\ trip' \in [Trips -> Coord \cup {"placed", "unborn", "deleted"}]
      /\ \A s \in Trips : s # t => trip'[s] = trip[s]
  BY DEF InsertTrip, Meanwhile, AddressesIInv, AddressesTypeOK
<1>2. PICK c : QueueEnd(c)
  BY DEF InsertTrip
<1>3. RowsRight'
  BY <1>1, <1>2, EndIsQueued DEF RowsRight, AddressesIInv, AddressesTypeOK
<1>4. TurnsRight'
  <2>1. TurnsRight /\ TurnsLapse
    BY <1>1 DEF AddressesIInv, AddressesTypeOK, TurnsLapse, Lapses
  <2>2. ASSUME NEW r \in Server, turn[r].pc = "asking", turn[r].source \in Sources(turn[r].coord)
        PROVE  /\ trip'[turn[r].source] = trip[turn[r].source]
               /\ turn[r].source \in Manual \/ on'
    <3>1. turn[r].coord \in Coord
      BY <2>1, <2>2 DEF TurnsRight
    <3>2. turn[r].source # t
      BY <3>1, <2>2, <1>1, GeocodeAssumption DEF Sources
    <3> QED BY <3>2, <2>2, <1>1 DEF Sources
  <2> QED BY <2>1, <2>2, <1>1, SourcesStay
<1>5. AddressesTypeOK /\ AddressesTypeOK'
  BY <1>1, <1>3, ChangesAreNoticed DEF AddressesIInv, AddressesTypeOK, RowsRight
<1> QED
  BY <1>1, <1>3, <1>4, <1>5, ChangesAreNoticed DEF AddressesIInv, RowsRight

\* An end that changes, whose turn is told.
LEMMA EndChangesIInv ==
    ASSUME AddressesIInv, NEW t \in Trips, Changed, UNCHANGED <<cache, later, on>>,
           turn' = Disowned({t}, turn), RowsRight',
           trip' \in [Trips -> Coord \cup {"placed", "unborn", "deleted"}],
           \A s \in Trips : s # t => trip'[s] = trip[s]
    PROVE  AddressesIInv'
<1> DEFINE S == {t}
<1>1. AddressesTypeOK /\ TurnsRight
  BY DEF AddressesIInv
<1>2. turn' = Disowned(S, turn) /\ t \in S
  OBVIOUS
<1> HIDE DEF S
<1>3. /\ TurnsLapse
      /\ \A r \in Server : turn'[r].source = turn[r].source
      /\ \A r \in Server : turn'[r].sourceHolds => turn[r].source \notin S
  BY <1>1, <1>2, DisownedLapses
<1>4. TurnsRight'
  <2>1. ASSUME NEW r \in Server, turn[r].source \in Sources(turn[r].coord), turn'[r].sourceHolds
        PROVE  /\ trip'[turn[r].source] = trip[turn[r].source]
               /\ turn[r].source \in Manual \/ on'
    <3>1. turn[r].source # t
      BY <2>1, <1>2, <1>3
    <3> QED BY <3>1, <2>1 DEF Sources
  <2> QED BY <2>1, <1>1, <1>3, SourcesStay
<1>5. AddressesTypeOK'
  BY <1>1, <1>3, ChangesAreNoticed DEF AddressesTypeOK, RowsRight, TurnsLapse
<1> QED
  BY <1>1, <1>4, <1>5, ChangesAreNoticed DEF AddressesIInv, RowsRight

LEMMA UpdateTripIInv ==
    ASSUME AddressesIInv, NEW t \in Trips, UpdateTrip(t)
    PROVE  AddressesIInv'
<1>1. /\ Changed /\ UNCHANGED <<cache, later, on>> /\ turn' = Disowned({t}, turn)
      /\ trip' \in [Trips -> Coord \cup {"placed", "unborn", "deleted"}]
      /\ \A s \in Trips : s # t => trip'[s] = trip[s]
  BY DEF UpdateTrip, Meanwhile, AddressesIInv, AddressesTypeOK
<1>2. PICK c : QueueEnd(c)
  BY DEF UpdateTrip
<1>3. RowsRight'
  BY <1>1, <1>2, EndIsQueued DEF RowsRight, AddressesIInv, AddressesTypeOK
<1> QED
  BY <1>1, <1>3, EndChangesIInv

LEMMA DeleteTripIInv ==
    ASSUME AddressesIInv, NEW t \in Trips, DeleteTrip(t)
    PROVE  AddressesIInv'
<1>1. /\ Changed /\ UNCHANGED <<cache, later, on, due>> /\ turn' = Disowned({t}, turn)
      /\ trip' \in [Trips -> Coord \cup {"placed", "unborn", "deleted"}]
      /\ \A s \in Trips : s # t => trip'[s] = trip[s]
  BY DEF DeleteTrip, Meanwhile, AddressesIInv, AddressesTypeOK
<1>2. RowsRight'
  BY <1>1 DEF RowsRight, RowsDiffer, AddressesIInv, AddressesTypeOK
<1> QED
  BY <1>1, <1>2, EndChangesIInv

LEMMA SwitchDeviceIInv ==
    ASSUME AddressesIInv, SwitchDevice
    PROVE  AddressesIInv'
<1> DEFINE S == Trips \ Manual
<1>1. /\ Changed /\ UNCHANGED <<cache, later, trip, due>> /\ turn' = Disowned(S, turn)
  BY DEF SwitchDevice, Meanwhile
<1>2. AddressesTypeOK /\ TurnsRight
  BY DEF AddressesIInv
<1>3. /\ TurnsLapse
      /\ \A r \in Server : turn'[r].source = turn[r].source
      /\ \A r \in Server : turn'[r].sourceHolds => turn[r].source \notin S
  <2> HIDE DEF S
  <2> QED BY <1>1, <1>2, DisownedLapses
<1>4. TurnsRight'
  <2>1. ASSUME NEW r \in Server, turn[r].source \in Sources(turn[r].coord), turn'[r].sourceHolds
        PROVE  /\ trip'[turn[r].source] = trip[turn[r].source]
               /\ turn[r].source \in Manual \/ on'
    BY <2>1, <1>1, <1>3 DEF Sources
  <2> QED BY <2>1, <1>1, <1>2, <1>3, SourcesStay
<1>5. AddressesTypeOK'
  BY <1>1, <1>2, <1>3, ChangesAreNoticed DEF AddressesTypeOK, TurnsLapse
<1>6. RowsDiffer'
  BY <1>1 DEF RowsDiffer, AddressesIInv
<1> QED
  BY <1>1, <1>2, <1>4, <1>5, <1>6, ChangesAreNoticed DEF AddressesIInv


-----------------------------------------------------------------------------
(* The steps of a turn.                                                    *)

\* A step that leaves the trips alone, and takes no row that is still wanted.
LEMMA QuietIInv ==
    ASSUME AddressesIInv, TurnsLapse, trip' = trip, on' = on, cache \subseteq cache', RowsRight',
           disc' = disc \/ \E u : disc' = [disc EXCEPT !.unit = u],
           \A c \in Coord : c \in cache \cup Rows => c \in cache' \cup Rows' \/ ~HasSource(c)
    PROVE  AddressesIInv'
<1>1. TurnsRight'
  BY LapsingIsRight DEF AddressesIInv
<1>2. EndsAccountedFor'
  BY EndsStayAccounted DEF AddressesIInv
<1>3. DOMAIN disc' = DOMAIN disc /\ disc'.cursor = disc.cursor
  BY DEF AddressesIInv, AddressesTypeOK
<1>4. AddressesTypeOK'
  BY <1>3 DEF AddressesIInv, AddressesTypeOK, TurnsLapse, RowsRight
<1> QED
  BY <1>1, <1>2, <1>4 DEF AddressesIInv, RowsRight

LEMMA RowsKept ==
    ASSUME AddressesIInv, due' = due, later' = later
    PROVE  RowsRight' /\ Rows' = Rows
BY DEF AddressesIInv, AddressesTypeOK, RowsRight, RowsDiffer, Rows

LEMMA UnitRecorded ==
    ASSUME RecordUnit
    PROVE  disc' = disc \/ \E u : disc' = [disc EXCEPT !.unit = u]
BY DEF RecordUnit

LEMMA KeepRowIInv ==
    ASSUME AddressesIInv, NEW r \in Server, KeepRow(r), RecordUnit \/ disc' = disc,
           UNCHANGED <<trip, on, cache>>
    PROVE  AddressesIInv'
<1>1. TurnsLapse
  BY EndOfLapses DEF KeepRow, AddressesIInv
<1>2. RowsRight' /\ Rows' = Rows
  BY RowsKept DEF KeepRow
<1> QED
  BY <1>1, <1>2, UnitRecorded, QuietIInv

LEMMA DeleteRowIInv ==
    ASSUME AddressesIInv, NEW r \in Server, DeleteRow(r), RecordUnit, UNCHANGED <<trip, on>>,
           cache \subseteq cache', turn[r].coord \in cache' \/ ~HasSource(turn[r].coord)
    PROVE  AddressesIInv'
<1>1. TurnsLapse
  BY RowGoneLapses DEF DeleteRow, AddressesIInv
<1>2. RowsRight' /\ Rows' = Rows \ {turn[r].coord}
  BY RowDeleted DEF RowsRight, AddressesIInv, AddressesTypeOK
<1>3. \A c \in Coord : c \in cache \cup Rows => c \in cache' \cup Rows' \/ ~HasSource(c)
  BY <1>2
<1> QED
  BY <1>1, <1>2, <1>3, UnitRecorded, QuietIInv

LEMMA RetryIInv ==
    ASSUME AddressesIInv, NEW r \in Server, NEW isBig, Retry(r, isBig), RecordUnit \/ disc' = disc,
           UNCHANGED <<trip, on, cache>>
    PROVE  AddressesIInv'
<1>1. TurnsLapse
  BY RowGoneLapses DEF Retry, AddressesIInv
<1>2. RowsRight' /\ Rows' = Rows \cup {turn[r].coord}
  BY RowPutOff DEF RowsRight, AddressesIInv, AddressesTypeOK
<1> QED
  BY <1>1, <1>2, UnitRecorded, QuietIInv

\* The turn waits for room.
LEMMA PausesIInv ==
    ASSUME AddressesIInv, NEW r \in Server, NEW isBig,
           turn' = [turn EXCEPT ![r].pc = "pausing", ![r].big = isBig],
           UNCHANGED <<trip, on, cache, disc, due, later>>
    PROVE  AddressesIInv'
<1>1. ASSUME NEW s \in Server PROVE DOMAIN turn'[s] = TurnFields /\ Lapses(turn[s], turn'[s])
  <2>1. DOMAIN turn = Server /\ DOMAIN turn[s] = TurnFields
    BY DEF AddressesIInv, AddressesTypeOK
  <2>2. CASE s = r
    BY <2>1, <2>2 DEF TurnFields, Lapses
  <2>3. CASE s # r
    BY <2>1, <2>3 DEF TurnFields, Lapses
  <2> QED BY <2>2, <2>3
<1>2. DOMAIN turn' = Server
  BY DEF AddressesIInv, AddressesTypeOK
<1>3. TurnsLapse
  BY <1>1, <1>2 DEF TurnsLapse
<1> QED
  BY <1>3, RowsKept, QuietIInv

LEMMA PutOffIInv ==
    ASSUME AddressesIInv, NEW r \in Server, NEW isBig, PutOff(r, isBig), UNCHANGED <<trip, on, cache>>
    PROVE  AddressesIInv'
<1>1. CASE Retry(r, FALSE) /\ RecordUnit
  BY <1>1, RetryIInv
<1>2. CASE ~(Retry(r, FALSE) /\ RecordUnit)
  BY <1>2, PausesIInv DEF PutOff
<1> QED
  BY <1>1, <1>2

LEMMA OvertakenIInv ==
    ASSUME AddressesIInv, NEW r \in Server, NEW isBig, Overtaken(r, isBig), UNCHANGED <<trip, on, cache>>
    PROVE  AddressesIInv'
<1>1. CASE KeepRow(r) /\ RecordUnit
  BY <1>1, KeepRowIInv
<1>2. CASE PutOff(r, isBig)
  BY <1>2, PutOffIInv
<1>3. CASE ~HasSource(turn[r].coord) /\ DeleteRow(r) /\ RecordUnit
  BY <1>3, DeleteRowIInv
<1> QED
  BY <1>1, <1>2, <1>3 DEF Overtaken

LEMMA SettleIInv ==
    ASSUME AddressesIInv, NEW r \in Server, Settle(r)
    PROVE  AddressesIInv'
<1>1. UNCHANGED <<trip, on, cache>> /\ RecordUnit /\ turn[r].pc = "settling"
  BY DEF Settle
<1>2. CASE KeepRow(r)
  BY <1>1, <1>2, KeepRowIInv
<1>3. CASE DeleteRow(r) /\ (turn[r].cached \/ ~HasSource(turn[r].coord))
  <2>1. turn[r].cached => turn[r].coord \in cache
    BY <1>1 DEF AddressesIInv, TurnsRight
  <2> QED BY <1>1, <1>3, <2>1, DeleteRowIInv
<1> QED
  BY <1>2, <1>3 DEF Settle

LEMMA FailedIInv ==
    ASSUME AddressesIInv, NEW r \in Server, Failed(r)
    PROVE  AddressesIInv'
BY PutOffIInv, OvertakenIInv DEF Failed

LEMMA StoreAddressIInv ==
    ASSUME AddressesIInv, NEW r \in Server, StoreAddress(r)
    PROVE  AddressesIInv' /\ \A c \in cache' \ cache : HasSource(c)
<1>1. UNCHANGED <<trip, on>> /\ turn[r].pc = "asking"
  BY DEF StoreAddress
<1>2. ASSUME NEW found \in BOOLEAN, Overtaken(r, found), cache' = cache
      PROVE  AddressesIInv'
  BY <1>1, <1>2, OvertakenIInv
<1>3. ASSUME ValidSource(r), cache' = cache \cup {turn[r].coord}, DeleteRow(r), RecordUnit
      PROVE  AddressesIInv' /\ HasSource(turn[r].coord)
  <2>1. turn[r].source \in Sources(turn[r].coord)
    BY <1>1, <1>3 DEF ValidSource, AddressesIInv, TurnsRight
  <2> QED BY <1>1, <1>3, <2>1, DeleteRowIInv DEF HasSource
<1>4. ASSUME NEW found \in BOOLEAN, turn' = [turn EXCEPT ![r].pc = "pausing", ![r].big = found],
             UNCHANGED <<cache, disc, due, later>>
      PROVE  AddressesIInv'
  BY <1>1, <1>4, PausesIInv
<1> QED
  BY <1>2, <1>3, <1>4 DEF StoreAddress

LEMMA PauseRowIInv ==
    ASSUME AddressesIInv, NEW r \in Server, PauseRow(r)
    PROVE  AddressesIInv'
<1>1. UNCHANGED <<trip, on, cache>> /\ disc' = disc
  BY DEF PauseRow
<1>2. CASE KeepRow(r)
  BY <1>1, <1>2, KeepRowIInv
<1>3. CASE Retry(r, turn[r].big)
  BY <1>1, <1>3, RetryIInv
<1> QED
  BY <1>2, <1>3 DEF PauseRow


LEMMA TripsAreNumbered ==
    /\ \A t \in Trips : t \in Nat /\ t > 0
    /\ \A S \in SUBSET Trips : S \in SUBSET Int /\ IsFiniteSet(S)
<1>1. IsFiniteSet(Trips) /\ Trips = 1 .. Cardinality(Trips)
  BY GeocodeAssumption
<1>2. Cardinality(Trips) \in Nat
  BY <1>1, FS_CardinalityType
<1>3. \A t \in Trips : t \in Nat /\ t \in Int /\ t > 0
  BY <1>1, <1>2
<1>4. ASSUME NEW S \in SUBSET Trips PROVE S \in SUBSET Int
  BY <1>3
<1>5. ASSUME NEW S \in SUBSET Trips PROVE IsFiniteSet(S)
  BY <1>1, FS_Subset
<1> QED
  BY <1>3, <1>4, <1>5

\* The source of a coordinate somebody needs is one of its ends.
LEMMA SourceIsAnEnd ==
    ASSUME NEW c, HasSource(c)
    PROVE  (CHOOSE t \in Sources(c) : \A s \in Sources(c) : t <= s) \in Sources(c)
<1>1. Sources(c) \in SUBSET Trips /\ Sources(c) # {}
  BY DEF Sources, HasSource
<1>2. Sources(c) \in SUBSET Int /\ IsFiniteSet(Sources(c))
  BY <1>1, TripsAreNumbered
<1>3. \E t \in Sources(c) : \A s \in Sources(c) : t <= s
  BY <1>1, <1>2, Extremes
<1> QED
  BY <1>3

LEMMA TakeIInv ==
    ASSUME AddressesIInv, NEW r \in Server, Take(r)
    PROVE  AddressesIInv'
<1> DEFINE c == Head(due)
           asks == Unanswered(c)
           q == turn'[r]
<1>1. /\ due # <<>> /\ UNCHANGED <<trip, on, cache, due, later, disc>>
      /\ DOMAIN turn = Server /\ \A s \in Server : DOMAIN turn[s] = TurnFields
  BY DEF Take, AddressesIInv, AddressesTypeOK
<1>2. c \in Coord
  BY <1>1, HeadTailProperties DEF AddressesIInv, AddressesTypeOK
<1>3. \A s \in Server \ {r} : turn'[s] = turn[s]
  BY <1>1 DEF Take
<1>4. /\ q.pc = (IF ~asks THEN "settling" ELSE IF Fits(c \in big) THEN "asking" ELSE "pausing")
      /\ q.coord = c /\ q.cached = (c \in cache) /\ DOMAIN q = TurnFields /\ DOMAIN turn' = Server
      /\ q.source = IF asks THEN CHOOSE t \in Sources(c) : \A s \in Sources(c) : t <= s ELSE 0
      /\ q.sourceHolds = asks
  BY <1>1 DEF Take, TurnFields
<1>5. asks => q.source \in Sources(c)
  BY <1>4, SourceIsAnEnd DEF Unanswered
<1>6. TurnsRight'
  <2>1. ASSUME NEW s \in Server, turn'[s].pc = "settling", turn'[s].cached
        PROVE  turn'[s].coord \in cache
    <3>1. CASE s = r
      BY <3>1, <2>1, <1>4
    <3>2. CASE s # r
      BY <3>2, <2>1, <1>3 DEF AddressesIInv, TurnsRight
    <3> QED BY <3>1, <3>2
  <2>2. ASSUME NEW s \in Server, turn'[s].pc = "asking"
        PROVE  turn'[s].coord \in Coord
    <3>1. CASE s = r
      BY <3>1, <1>2, <1>4
    <3>2. CASE s # r
      BY <3>2, <2>2, <1>3 DEF AddressesIInv, TurnsRight
    <3> QED BY <3>1, <3>2
  <2>3. ASSUME NEW s \in Server, turn'[s].pc = "asking", turn'[s].sourceHolds
        PROVE  turn'[s].source \in Sources(turn'[s].coord)
    <3>1. CASE s = r
      <4>1. q.sourceHolds
        BY <3>1, <2>3
      <4> QED BY <3>1, <4>1, <1>4, <1>5
    <3>2. CASE s # r
      BY <3>2, <2>3, <1>3 DEF AddressesIInv, TurnsRight
    <3> QED BY <3>1, <3>2
  <2> QED BY <2>1, <2>2, <2>3, <1>1, Zenon DEF TurnsRight, Sources
<1>7. EndsAccountedFor' /\ RowsDiffer'
  BY <1>1 DEF AddressesIInv, EndsAccountedFor, RowsDiffer, Sources, Rows
<1>8. \A s \in Server : DOMAIN turn'[s] = TurnFields
  BY <1>1, <1>3, <1>4
<1> QED
  BY <1>1, <1>4, <1>6, <1>7, <1>8 DEF AddressesIInv, AddressesTypeOK

\* A page queues what it finds and moves the cursor, or ends the round.
LEMMA DiscoverPageIInv ==
    ASSUME AddressesIInv, NEW r \in Server, DiscoverPage(r)
    PROVE  AddressesIInv'
<1> DEFINE left == {t \in Trips : Exists(t) /\ t > disc.cursor}
           page == {t \in left : Cardinality({s \in left : s <= t}) <= Page}
           new == {c \in Coord \ (cache \cup Rows) : Sources(c) \cap page # {}}
           changed == disc.changed /\ disc.cursor > 0
           last == Cardinality(page) < Page
           top == CHOOSE t \in page : \A s \in page : s <= t
<1>1. /\ UNCHANGED <<trip, on, cache, later>>
      /\ EndOf(r) /\ TurnsLapse /\ DOMAIN disc = {"cursor", "pending", "changed", "unit"}
      /\ disc.cursor \in Nat /\ AddressesTypeOK
  BY EndOfLapses DEF DiscoverPage, AddressesIInv, AddressesTypeOK
<1>2. CASE new # {} /\ room = 0
  <2>1. disc' = [disc EXCEPT !.unit = "discovery"] /\ due' = due
    BY <1>2 DEF DiscoverPage
  <2> QED BY <1>1, <2>1, RowsKept, QuietIInv
<1>3. CASE ~(new # {} /\ room = 0)
  <2>1. /\ due' = due \o SetToSeq(new)
        /\ disc'.cursor = (IF last THEN 0 ELSE top)
        /\ disc'.pending = (IF last THEN changed ELSE disc.pending)
        /\ disc'.changed = changed
        /\ DOMAIN disc' = {"cursor", "pending", "changed", "unit"}
    <3>1. /\ due' = due \o SetToSeq(new)
          /\ disc' = [cursor |-> IF last THEN 0 ELSE top,
                      pending |-> IF last THEN changed ELSE disc.pending,
                      changed |-> changed, unit |-> "discovery"]
      BY <1>3, Zenon DEF DiscoverPage
    <3> HIDE DEF left, page, new, changed, last, top
    <3> QED BY <3>1
  <2>2. left \in SUBSET Int /\ IsFiniteSet(left) /\ page \in SUBSET left
    <3>1. left \in SUBSET Trips /\ page \in SUBSET left
      OBVIOUS
    <3> HIDE DEF left, page
    <3> QED BY <3>1, TripsAreNumbered
  <2>3. /\ \A s \in page, t \in left \ page : s < t
        /\ last => page = left
        /\ ~last => page # {}
    <3>1. Page \in Nat \ {0}
      BY GeocodeAssumption
    <3> HIDE DEF left
    <3> QED BY <2>2, <3>1, PageIsFirst
  <2>4. IsFiniteSet(page) /\ page \in SUBSET Trips
    <3>1. page \in SUBSET Trips
      OBVIOUS
    <3> HIDE DEF page
    <3> QED BY <3>1, TripsAreNumbered
  <2>5. ~last => top \in page /\ \A s \in page : s <= top
    <3> HIDE DEF page, last
    <3>1. page \in SUBSET Int
      BY <2>4, TripsAreNumbered
    <3>2. page # {} => \E t \in page : \A s \in page : s <= t
      BY <2>4, <3>1, Extremes
    <3> QED BY <2>3, <3>2
  <2>6. IsFiniteSet(new)
    <3> DEFINE named == {t \in page : trip[t] \in new}
               f == [t \in named |-> trip[t]]
    <3>1. f \in Surjection(named, new)
      <4>1. \A c \in new : \E t \in named : trip[t] = c
        BY DEF Sources
      <4> QED BY <4>1 DEF Surjection
    <3>2. IsFiniteSet(named)
      <4>1. named \in SUBSET page
        OBVIOUS
      <4> HIDE DEF named
      <4> QED BY <4>1, <2>4, FS_Subset
    <3> HIDE DEF named, new, f
    <3> QED BY <3>1, <3>2, FS_Surjection
  <2>7. RowsRight' /\ Rows' = Rows \cup new
    <3>1. new \in SUBSET Coord /\ new \cap Rows = {}
      OBVIOUS
    <3>2. due \in Seq(Coord) /\ Differ(due) /\ Range(due) \cap later = {}
      BY <1>1, RowsAreDistinct DEF AddressesIInv, AddressesTypeOK
    <3> HIDE DEF new
    <3>3. SetToSeq(new) \in Seq(new) /\ Differ(SetToSeq(new)) /\ Range(SetToSeq(new)) = new
      BY <2>6, InSomeOrder
    <3>4. SetToSeq(new) \in Seq(Coord)
      BY <3>1, <3>3, SeqMonotonic
    <3>5. Range(due) \cap new = {} /\ later \cap new = {}
      BY <3>1 DEF Rows
    <3>6. due' \in Seq(Coord) /\ Differ(due') /\ Range(due') = Range(due) \cup new
      BY <2>1, <3>2, <3>3, <3>4, <3>5, RowsJoin
    <3>7. Range(due') \cap later' = {}
      BY <1>1, <3>2, <3>5, <3>6
    <3> QED BY <1>1, <3>6, <3>7, RowsAreDistinctThen DEF RowsRight, Rows
  <2>8. EndsAccountedFor'
    <3> SUFFICES ASSUME NEW c \in Coord, NEW t \in Sources(c), c \notin cache, c \notin Rows'
                 PROVE  disc'.pending /\ (disc'.cursor = 0 \/ t > disc'.cursor \/ disc'.changed)
      BY <1>1 DEF EndsAccountedFor, Sources
    <3>1. c \notin Rows /\ c \notin new
      BY <2>7
    <3>2. t \notin page
      BY <3>1
    <3>3. t \in Trips /\ t \in Nat /\ t > 0 /\ Exists(t)
      BY TripsAreNumbered, GeocodeAssumption DEF Sources, Exists
    <3>4. disc.pending /\ (disc.cursor = 0 \/ t > disc.cursor \/ disc.changed)
      BY <3>1 DEF AddressesIInv, EndsAccountedFor
    <3>5. CASE t > disc.cursor
      <4>1. t \in left \ page /\ ~last
        BY <2>3, <3>2, <3>3, <3>5
      <4>2. t > top
        <5>1. top \in Int /\ t \in Int /\ top < t
          BY <2>2, <2>3, <2>5, <4>1, <3>3
        <5> HIDE DEF top
        <5> QED BY <5>1
      <4> HIDE DEF last, top, changed
      <4> QED BY <2>1, <3>4, <4>1, <4>2
    <3>6. CASE ~(t > disc.cursor)
      <4>1. disc.cursor > 0 /\ disc.changed
        BY <1>1, <3>3, <3>4, <3>6
      <4>2. changed
        BY <4>1
      <4> HIDE DEF last, top, changed
      <4> QED BY <2>1, <3>4, <4>2
    <3> QED BY <3>5, <3>6
  <2>9. TurnsRight'
    BY <1>1, LapsingIsRight DEF AddressesIInv
  <2>10. disc'.cursor \in Nat
    <3>1. ~last => top \in Nat
      BY <2>4, <2>5, TripsAreNumbered
    <3> HIDE DEF last, top
    <3> QED BY <2>1, <3>1
  <2>11. AddressesTypeOK'
    BY <1>1, <2>1, <2>7, <2>10 DEF AddressesTypeOK, RowsRight, TurnsLapse
  <2> QED BY <2>7, <2>8, <2>9, <2>11 DEF AddressesIInv, RowsRight
<1> QED
  BY <1>2, <1>3

LEMMA AddressesNextIInv ==
    AddressesIInv /\ [GeocodeNext]_geoVars =>
        AddressesIInv' /\ \A c \in cache' \ cache : HasSource(c)
<1> SUFFICES ASSUME AddressesIInv, [GeocodeNext]_geoVars
             PROVE  AddressesIInv' /\ \A c \in cache' \ cache : HasSource(c)
  OBVIOUS
<1>1. ASSUME NEW t \in Trips, InsertTrip(t) \/ UpdateTrip(t) \/ DeleteTrip(t)
      PROVE  AddressesIInv' /\ cache' = cache
  <2>1. cache' = cache
    BY <1>1 DEF InsertTrip, UpdateTrip, DeleteTrip, Meanwhile
  <2> QED BY <1>1, <2>1, InsertTripIInv, UpdateTripIInv, DeleteTripIInv
<1>2. ASSUME SwitchDevice PROVE AddressesIInv' /\ cache' = cache
  BY <1>2, SwitchDeviceIInv DEF SwitchDevice, Meanwhile
<1>3. ASSUME UNCHANGED <<trip, on, cache, due, later, disc, turn>>
      PROVE  AddressesIInv' /\ cache' = cache
  BY <1>3 DEF AddressesIInv, AddressesTypeOK, TurnsRight, RowsDiffer, EndsAccountedFor, Rows, Sources
<1>4. ASSUME NEW r \in Server, BeginDiscovery(r) PROVE AddressesIInv' /\ cache' = cache
  <2>1. /\ UNCHANGED <<trip, on, cache, due, later, disc>>
        /\ turn' = [turn EXCEPT ![r].pc = "discovering"]
    BY <1>4 DEF BeginDiscovery
  <2>2. ASSUME NEW s \in Server PROVE DOMAIN turn'[s] = TurnFields /\ Lapses(turn[s], turn'[s])
    BY <2>1 DEF AddressesIInv, AddressesTypeOK, TurnFields, Lapses
  <2>3. TurnsLapse
    BY <2>1, <2>2 DEF TurnsLapse, AddressesIInv, AddressesTypeOK
  <2> QED BY <2>1, <2>3, RowsKept, QuietIInv
<1>5. ASSUME NEW r \in Server, ServerDies(r) PROVE AddressesIInv' /\ cache' = cache
  <2>1. UNCHANGED <<trip, on, cache, due, later, disc>> /\ TurnsLapse
    BY <1>5, EndOfLapses DEF ServerDies, AddressesIInv
  <2> QED BY <2>1, RowsKept, QuietIInv
<1>6. ASSUME NEW c \in Coord, TimeComes(c) PROVE AddressesIInv' /\ cache' = cache
  <2>1. UNCHANGED <<trip, on, cache, disc, turn>>
    BY <1>6 DEF TimeComes
  <2>2. RowsRight' /\ Rows' = Rows
    BY <1>6, RowComesDue DEF RowsRight, AddressesIInv, AddressesTypeOK
  <2>3. TurnsLapse
    BY <2>1 DEF AddressesIInv, AddressesTypeOK, TurnsLapse, Lapses
  <2> QED BY <2>1, <2>2, <2>3, QuietIInv
<1>7. ASSUME NEW r \in Server, RunTurn(r)
      PROVE  AddressesIInv' /\ \A c \in cache' \ cache : HasSource(c)
  <2>1. CASE BeginDiscovery(r)
    BY <2>1, <1>4
  <2>2. CASE DiscoverPage(r) \/ Take(r) \/ Settle(r) \/ Failed(r) \/ PauseRow(r)
    <3>1. cache' = cache
      BY <2>2 DEF DiscoverPage, Take, Settle, Failed, PauseRow
    <3> QED BY <2>2, <3>1, DiscoverPageIInv, TakeIInv, SettleIInv, FailedIInv, PauseRowIInv
  <2>3. CASE StoreAddress(r)
    BY <2>3, StoreAddressIInv
  <2> QED BY <1>7, <2>1, <2>2, <2>3 DEF RunTurn
<1>8. CASE ChangeRoom \/ UNCHANGED geoVars
  BY <1>3, <1>8 DEF ChangeRoom, Meanwhile, geoVars
<1> QED
  BY <1>1, <1>2, <1>4, <1>5, <1>6, <1>7, <1>8 DEF GeocodeNext

\* While an end needs its address, its coordinate is queued, once, or a discovery is on its
\* way to it; and an address is stored only for an end that may still be looked up (the
\* triggers of migrations 041 and 042, geocode_discover_page, _valid_source in geocode.py).
THEOREM AddressesAlwaysFollowTrips == GeocodeSpec => AddressesFollowTrips
<1>1. GeocodeSpec => []AddressesIInv
  BY AddressesInitIInv, AddressesNextIInv, PTL DEF GeocodeSpec
<1>2. AddressesIInv => EndsAccountedFor /\ RowsDiffer
  BY DEF AddressesIInv
<1>3. AddressesIInv /\ [GeocodeNext]_geoVars => [\A c \in cache' \ cache : HasSource(c)]_geoVars
  BY AddressesNextIInv
<1>4. GeocodeSpec => StoredForLiveEnds
  BY <1>1, <1>3, PTL DEF GeocodeSpec, StoredForLiveEnds
<1> QED
  BY <1>1, <1>2, <1>4, PTL DEF AddressesFollowTrips

-----------------------------------------------------------------------------
(* The queue for the address provider (ProviderPacer).                     *)

Queued(a) == {c \in Caller : a[c] \in {"asleep", "timed", "woken", "ready"}}

\* The tickets q of callers that are at a, when the interval has passed or not.
InLine(q, a, still) ==
    /\ q \in Seq(Caller) /\ Differ(q)
    /\ a \in [Caller -> {"out", "asleep", "timed", "woken", "ready", "calling"}]
    /\ Range(q) = Queued(a)
    /\ \A c \in Caller : a[c] = "ready" => Head(q) = c /\ still
    /\ q # <<>> => a[Head(q)] # "asleep"

PacerIInv == quiet \in BOOLEAN /\ InLine(tickets, at, quiet)

LEMMA HeadOfQueue ==
    ASSUME NEW S, NEW q \in Seq(S), NEW c \in Range(q)
    PROVE  q # <<>> /\ Head(q) \in Range(q) /\ Head(q) = q[1]
<1>1. PICK n \in Nat : n = Len(q) /\ DOMAIN q = 1 .. n
  BY LenProperties
<1>2. PICK k \in 1 .. n : c = q[k]
  BY <1>1 DEF Range
<1>3. 1 \in 1 .. n /\ n # 0
  BY <1>1, <1>2
<1>4. q # <<>>
  BY <1>1, <1>3
<1>5. Head(q) = q[1]
  BY <1>4
<1> QED BY <1>1, <1>3, <1>4, <1>5 DEF Range

\* The first leaves the queue.
LEMMA HeadTakenOff ==
    ASSUME NEW S, NEW q \in Seq(S), Differ(q), q # <<>>
    PROVE  Tail(q) \in Seq(S) /\ Differ(Tail(q)) /\ Range(Tail(q)) = Range(q) \ {Head(q)}
<1> DEFINE t == Tail(q)
<1>1. PICK n \in Nat : n = Len(q) /\ DOMAIN q = 1 .. n /\ n # 0
  BY LenProperties, EmptySeq
<1>2. t \in Seq(S) /\ Len(t) = n - 1 /\ \A i \in 1 .. n - 1 : t[i] = q[i + 1]
  BY <1>1, HeadTailProperties
<1>3. DOMAIN t = 1 .. n - 1
  BY <1>2, LenProperties
<1>4. Head(q) = q[1]
  OBVIOUS
<1> HIDE DEF t
<1>5. Differ(t)
  <2>1. ASSUME NEW i \in 1 .. n - 1, NEW j \in 1 .. n - 1, i # j PROVE t[i] # t[j]
    <3>1. i + 1 \in 1 .. n /\ j + 1 \in 1 .. n /\ i + 1 # j + 1
      BY <1>1, <2>1
    <3> QED BY <1>1, <1>2, <3>1 DEF Differ
  <2> QED BY <1>3, <2>1 DEF Differ
<1>6. Range(t) \subseteq Range(q) \ {q[1]}
  <2>1. ASSUME NEW i \in 1 .. n - 1 PROVE t[i] \in Range(q) \ {q[1]}
    <3>1. i + 1 \in 1 .. n /\ 1 \in 1 .. n /\ i + 1 # 1
      BY <1>1
    <3> QED BY <1>1, <1>2, <3>1 DEF Differ, Range
  <2> QED BY <1>3, <2>1 DEF Range
<1>7. Range(q) \ {q[1]} \subseteq Range(t)
  <2>1. ASSUME NEW i \in 1 .. n, q[i] # q[1] PROVE q[i] \in Range(t)
    <3>1. i - 1 \in 1 .. n - 1 /\ (i - 1) + 1 = i
      BY <1>1, <2>1
    <3>2. t[i - 1] = q[i]
      BY <1>2, <3>1
    <3> QED BY <1>3, <3>1, <3>2 DEF Range
  <2> QED BY <1>1, <2>1 DEF Range
<1> QED BY <1>2, <1>4, <1>5, <1>6, <1>7 DEF t

\* Whoever gives up behind the first leaves the first where it is.
LEMMA HeadStays ==
    ASSUME NEW S, NEW q \in Seq(S), Differ(q), q # <<>>, NEW c, Head(q) # c
    PROVE  Head(RemoveFirst(q, c)) = Head(q)
<1>1. PICK n \in Nat : n = Len(q) /\ DOMAIN q = 1 .. n /\ n # 0
  BY LenProperties, EmptySeq
<1>2. Head(q) = q[1]
  OBVIOUS
<1>3. CASE \A i \in 1 .. n : q[i] # c
  BY <1>1, <1>3 DEF RemoveFirst
<1>4. CASE \E i \in 1 .. n : q[i] = c
  <2>1. PICK k \in 1 .. n : q[k] = c
    BY <1>4
  <2> DEFINE p == SubSeq(q, 1, k - 1)
             r == SubSeq(q, k + 1, n)
  <2>2. {i \in 1 .. n : q[i] = c} = {k}
    BY <1>1, <2>1 DEF Differ
  <2>3. Min({k}) = k
    BY <1>1 DEF Min
  <2>4. RemoveFirst(q, c) = p \o r
    BY <1>1, <1>4, <2>2, <2>3 DEF RemoveFirst, RemoveAt, SelectInSeq
  <2>5. k # 1 /\ 1 \in 1 .. k - 1
    BY <1>1, <1>2, <2>1
  <2>6. \A i \in 1 .. n : q[i] \in S
    BY <1>1, ElementOfSeq
  <2>7. p \in Seq(S) /\ Len(p) = k - 1 /\ p[1] = q[1]
    BY <1>1, <2>5, <2>6, SubSeqProperties
  <2>8. r \in Seq(S)
    BY <1>1, <2>6, SubSeqProperties
  <2> HIDE DEF p, r
  <2>9. PICK u : u = p \o r
    OBVIOUS
  <2>10. u \in Seq(S) /\ Len(u) = Len(p) + Len(r) /\ u[1] = p[1]
    <3>1. Len(p) \in Nat /\ Len(r) \in Nat /\ 1 \in 1 .. Len(p) + Len(r) /\ 1 <= Len(p)
      BY <2>5, <2>7, <2>8, LenProperties
    <3> QED BY <2>7, <2>8, <2>9, <3>1, ConcatProperties
  <2>11. u # <<>>
    BY <2>5, <2>7, <2>8, <2>10, LenProperties
  <2> QED BY <1>2, <2>4, <2>7, <2>9, <2>10, <2>11
<1> QED BY <1>3, <1>4

LEMMA WokenAt ==
    ASSUME NEW a \in [Caller -> {"out", "asleep", "timed", "woken", "ready", "calling"}]
    PROVE  /\ Woken(a) \in [Caller -> {"out", "asleep", "timed", "woken", "ready", "calling"}]
           /\ Queued(Woken(a)) = Queued(a)
           /\ \A c \in Caller : /\ Woken(a)[c] # "asleep"
                                /\ Woken(a)[c] = "ready" <=> a[c] = "ready"
                                /\ Woken(a)[c] = "out" <=> a[c] = "out"
  BY DEF Woken, Queued

\* The loop of wait_ready, from a queue that holds its caller.
LEMMA LooksInLine ==
    ASSUME quiet \in BOOLEAN, NEW c \in Caller, NEW q \in Seq(Caller), Differ(q),
           NEW a \in [Caller -> {"out", "asleep", "timed", "woken", "ready", "calling"}],
           Range(q) = Queued(a) \cup {c}, a[c] \in {"out", "woken"},
           \A d \in Caller : a[d] = "ready" => Head(q) = d /\ quiet,
           Head(q) # c => a[Head(q)] # "asleep",
           LooksFrom(c, q, a)
    PROVE  PacerIInv'
<1>1. q # <<>> /\ Head(q) \in Range(q) /\ Range(q) \subseteq Caller
  <2>1. c \in Range(q)
    OBVIOUS
  <2> QED BY <2>1, HeadOfQueue DEF Queued
<1>2. CASE Head(q) # c /\ at' = [a EXCEPT ![c] = "asleep"] /\ tickets' = q /\ quiet' = quiet
  <2>1. Range(tickets') = Queued(at')
    BY <1>2 DEF Queued
  <2>2. \A d \in Caller : at'[d] = "ready" => Head(tickets') = d /\ quiet'
    BY <1>2
  <2>3. at'[Head(tickets')] # "asleep"
    BY <1>1, <1>2
  <2> QED BY <1>2, <2>1, <2>2, <2>3 DEF PacerIInv, InLine
<1>3. ASSUME NEW x \in {"timed", "ready"}, x = "ready" => quiet,
             Head(q) = c, at' = [a EXCEPT ![c] = x], tickets' = q, quiet' = quiet
      PROVE  PacerIInv'
  <2>1. Range(tickets') = Queued(at')
    BY <1>3 DEF Queued
  <2>2. \A d \in Caller : at'[d] = "ready" => Head(tickets') = d /\ quiet'
    BY <1>3
  <2>3. at'[Head(tickets')] # "asleep"
    BY <1>3
  <2> QED BY <1>3, <2>1, <2>2, <2>3 DEF PacerIInv, InLine
<1>4. CASE Head(q) = c /\ at' = [Woken(a) EXCEPT ![c] = "calling"] /\ tickets' = Tail(q) /\ quiet' = FALSE
  <2>1. tickets' \in Seq(Caller) /\ Differ(tickets') /\ Range(tickets') = Range(q) \ {c}
    BY <1>1, <1>4, HeadTakenOff
  <2>2. PICK w : w = Woken(a)
    OBVIOUS
  <2>3. /\ w \in [Caller -> {"out", "asleep", "timed", "woken", "ready", "calling"}]
        /\ Queued(w) = Queued(a)
        /\ \A d \in Caller : w[d] # "asleep" /\ (w[d] = "ready" <=> a[d] = "ready")
    BY <2>2, WokenAt
  <2>4. at' = [w EXCEPT ![c] = "calling"]
    BY <1>4, <2>2
  <2>5. Range(tickets') = Queued(at')
    <3>1. Queued(at') = Queued(w) \ {c}
      BY <2>3, <2>4 DEF Queued
    <3> QED BY <2>1, <2>3, <3>1
  <2>6. \A d \in Caller : at'[d] # "ready"
    BY <1>4, <2>3, <2>4
  <2>7. \A d \in Caller : at'[d] # "asleep"
    BY <2>3, <2>4
  <2>8. tickets' # <<>> => at'[Head(tickets')] # "asleep"
    <3> SUFFICES ASSUME tickets' # <<>> PROVE Head(tickets') \in Caller
      BY <2>7
    <3> QED BY <2>1, HeadTailProperties
  <2>9. at' \in [Caller -> {"out", "asleep", "timed", "woken", "ready", "calling"}]
    BY <2>3, <2>4
  <2> QED BY <1>4, <2>1, <2>5, <2>6, <2>8, <2>9 DEF PacerIInv, InLine
<1> QED BY <1>2, <1>3, <1>4 DEF LooksFrom

LEMMA WaitReadyInLine == ASSUME PacerIInv, NEW c \in Caller, WaitReady(c) PROVE PacerIInv'
<1> DEFINE q == Append(tickets, c)
<1>1. /\ tickets \in Seq(Caller) /\ Differ(tickets) /\ Range(tickets) = Queued(at)
      /\ at \in [Caller -> {"out", "asleep", "timed", "woken", "ready", "calling"}]
      /\ at[c] = "out" /\ quiet \in BOOLEAN
  BY DEF PacerIInv, InLine, WaitReady
<1>2. c \notin Range(tickets)
  BY <1>1 DEF Queued
<1>3. q \in Seq(Caller) /\ Differ(q) /\ Range(q) = Range(tickets) \cup {c}
  <2>1. q = tickets \o <<c>>
    BY <1>1, AppendIsConcat
  <2>2. <<c>> \in Seq(Caller) /\ Differ(<<c>>) /\ Range(<<c>>) = {c}
    BY OneRow
  <2>3. Range(tickets) \cap Range(<<c>>) = {}
    BY <1>2, <2>2
  <2>4. PICK one : one = <<c>>
    OBVIOUS
  <2>5. one \in Seq(Caller) /\ Differ(one) /\ Range(one) = {c} /\ Range(tickets) \cap Range(one) = {}
    BY <2>2, <2>3, <2>4
  <2>6. /\ tickets \o one \in Seq(Caller) /\ Differ(tickets \o one)
        /\ Range(tickets \o one) = Range(tickets) \cup Range(one)
    BY <1>1, <2>5, RowsJoin
  <2>7. q = tickets \o one
    BY <2>1, <2>4
  <2> HIDE DEF q
  <2> QED BY <2>5, <2>6, <2>7
<1>4. Head(q) = IF tickets = <<>> THEN c ELSE Head(tickets)
  BY <1>1, HeadTailAppend
<1>5. PICK w : w = Woken(at)
  OBVIOUS
<1>6. /\ w \in [Caller -> {"out", "asleep", "timed", "woken", "ready", "calling"}]
      /\ Queued(w) = Queued(at)
      /\ \A d \in Caller : /\ w[d] # "asleep" /\ (w[d] = "ready" <=> at[d] = "ready")
                           /\ (w[d] = "out" <=> at[d] = "out")
  BY <1>1, <1>5, WokenAt
<1>7. LooksFrom(c, q, w)
  BY <1>5 DEF WaitReady
<1> HIDE DEF q
<1>8. \A d \in Caller : w[d] = "ready" => Head(q) = d /\ quiet
  <2> SUFFICES ASSUME NEW d \in Caller, w[d] = "ready" PROVE Head(q) = d /\ quiet
    OBVIOUS
  <2>1. at[d] = "ready"
    BY <1>6
  <2>2. d \in Range(tickets)
    BY <1>1, <2>1 DEF Queued
  <2>3. tickets # <<>>
    BY <1>1, <2>2, HeadOfQueue
  <2> QED BY <1>4, <2>1, <2>3 DEF PacerIInv, InLine
<1>9. Head(q) # c => w[Head(q)] # "asleep"
  <2>1. Head(q) \in Caller
    <3>1. c \in Range(q)
      BY <1>3
    <3>2. q # <<>>
      BY <1>3, <3>1, HeadOfQueue
    <3> QED BY <1>3, <3>2, HeadTailProperties
  <2> QED BY <1>6, <2>1
<1>10. w[c] = "out"
  BY <1>1, <1>6
<1> QED BY <1>1, <1>3, <1>6, <1>7, <1>8, <1>9, <1>10, LooksInLine

LEMMA LooksAgainInLine == ASSUME PacerIInv, NEW c \in Caller, LooksAgain(c) PROVE PacerIInv'
<1>1. /\ tickets \in Seq(Caller) /\ Differ(tickets) /\ Range(tickets) = Queued(at)
      /\ at \in [Caller -> {"out", "asleep", "timed", "woken", "ready", "calling"}]
      /\ at[c] = "woken" /\ quiet \in BOOLEAN /\ LooksFrom(c, tickets, at)
      /\ \A d \in Caller : at[d] = "ready" => Head(tickets) = d /\ quiet
      /\ tickets # <<>> => at[Head(tickets)] # "asleep"
  BY DEF PacerIInv, InLine, LooksAgain
<1>2. c \in Range(tickets)
  BY <1>1 DEF Queued
<1>3. tickets # <<>>
  BY <1>1, <1>2, HeadOfQueue
<1>4. Range(tickets) = Queued(at) \cup {c}
  BY <1>1, <1>2
<1> QED BY <1>1, <1>3, <1>4, LooksInLine

\* Who leaves the queue wakes the others, and leaves a prepared turn its place.
LEMMA CloseInLine ==
    ASSUME PacerIInv, NEW c \in Caller, Close(c), quiet' = quiet,
           at[c] = "ready" \/ Waiting(c)
    PROVE  PacerIInv'
<1>1. /\ tickets \in Seq(Caller) /\ Differ(tickets) /\ Range(tickets) = Queued(at)
      /\ at \in [Caller -> {"out", "asleep", "timed", "woken", "ready", "calling"}]
      /\ \A d \in Caller : at[d] = "ready" => Head(tickets) = d /\ quiet
      /\ quiet \in BOOLEAN
  BY DEF PacerIInv, InLine
<1>2. tickets' \in Seq(Caller) /\ Differ(tickets') /\ Range(tickets') = Range(tickets) \ {c}
  BY <1>1, RowTakenOut DEF Close
<1>3. PICK w : w = Woken(at)
  OBVIOUS
<1>4. /\ w \in [Caller -> {"out", "asleep", "timed", "woken", "ready", "calling"}]
      /\ Queued(w) = Queued(at)
      /\ \A d \in Caller : w[d] # "asleep" /\ (w[d] = "ready" <=> at[d] = "ready")
  BY <1>1, <1>3, WokenAt
<1>5. at' = [w EXCEPT ![c] = "out"]
  BY <1>3 DEF Close
<1>6. at' \in [Caller -> {"out", "asleep", "timed", "woken", "ready", "calling"}]
  BY <1>4, <1>5
<1>7. Range(tickets') = Queued(at')
  <2>1. Queued(at') = Queued(w) \ {c}
    BY <1>4, <1>5 DEF Queued
  <2> QED BY <1>1, <1>2, <1>4, <2>1
<1>8. ASSUME NEW d \in Caller, at'[d] = "ready" PROVE Head(tickets') = d /\ quiet'
  <2>1. d # c /\ at[d] = "ready"
    BY <1>4, <1>5, <1>8
  <2>2. Head(tickets) = d /\ quiet
    BY <1>1, <2>1
  <2>3. tickets # <<>>
    <3>1. d \in Range(tickets)
      BY <1>1, <2>1 DEF Queued
    <3> QED BY <1>1, <3>1, HeadOfQueue
  <2>4. Head(tickets') = Head(tickets)
    BY <1>1, <2>1, <2>2, <2>3, HeadStays DEF Close
  <2> QED BY <2>2, <2>4
<1>9. tickets' # <<>> => at'[Head(tickets')] # "asleep"
  <2> SUFFICES ASSUME tickets' # <<>> PROVE Head(tickets') \in Caller
    BY <1>4, <1>5
  <2> QED BY <1>2, HeadTailProperties
<1> QED BY <1>1, <1>2, <1>6, <1>7, <1>8, <1>9 DEF PacerIInv, InLine

LEMMA TryStartInLine == ASSUME PacerIInv, NEW c \in Caller, TryStart(c) PROVE PacerIInv'
<1>1. /\ tickets \in Seq(Caller) /\ Differ(tickets) /\ Range(tickets) = Queued(at)
      /\ at \in [Caller -> {"out", "asleep", "timed", "woken", "ready", "calling"}]
      /\ \A d \in Caller : at[d] = "ready" => Head(tickets) = d
      /\ at[c] = "ready" /\ Head(tickets) = c /\ tickets' = Tail(tickets) /\ quiet' = FALSE
  BY DEF PacerIInv, InLine, TryStart
<1>2. tickets # <<>>
  <2>1. c \in Range(tickets)
    BY <1>1 DEF Queued
  <2> QED BY <1>1, <2>1, HeadOfQueue
<1>3. tickets' \in Seq(Caller) /\ Differ(tickets') /\ Range(tickets') = Range(tickets) \ {c}
  BY <1>1, <1>2, HeadTakenOff
<1>4. PICK w : w = Woken(at)
  OBVIOUS
<1>5. /\ w \in [Caller -> {"out", "asleep", "timed", "woken", "ready", "calling"}]
      /\ Queued(w) = Queued(at)
      /\ \A d \in Caller : w[d] # "asleep" /\ (w[d] = "ready" <=> at[d] = "ready")
  BY <1>1, <1>4, WokenAt
<1>6. at' = [w EXCEPT ![c] = "calling"]
  BY <1>4 DEF TryStart
<1>7. Range(tickets') = Queued(at')
  <2>1. Queued(at') = Queued(w) \ {c}
    BY <1>5, <1>6 DEF Queued
  <2> QED BY <1>1, <1>3, <1>5, <2>1
<1>8. \A d \in Caller : at'[d] # "ready" /\ at'[d] # "asleep"
  BY <1>1, <1>5, <1>6
<1>9. tickets' # <<>> => at'[Head(tickets')] # "asleep"
  <2> SUFFICES ASSUME tickets' # <<>> PROVE Head(tickets') \in Caller
    BY <1>8
  <2> QED BY <1>3, HeadTailProperties
<1>10. at' \in [Caller -> {"out", "asleep", "timed", "woken", "ready", "calling"}]
  BY <1>5, <1>6
<1> QED BY <1>1, <1>3, <1>7, <1>8, <1>9, <1>10 DEF PacerIInv, InLine

LEMMA PacerNextIInv == PacerIInv /\ [PacerNext]_pacerVars => PacerIInv'
<1> SUFFICES ASSUME PacerIInv, [PacerNext]_pacerVars PROVE PacerIInv'
  OBVIOUS
<1>0. PICK q, a : q = tickets /\ a = at
  OBVIOUS
<1>1. /\ q \in Seq(Caller) /\ Differ(q) /\ Range(q) = Queued(a)
      /\ a \in [Caller -> {"out", "asleep", "timed", "woken", "ready", "calling"}]
      /\ \A d \in Caller : a[d] = "ready" => Head(q) = d /\ quiet
      /\ q # <<>> => a[Head(q)] # "asleep"
      /\ quiet \in BOOLEAN
  BY <1>0 DEF PacerIInv, InLine
<1>2. CASE \E c \in Caller : WaitReady(c)
  BY <1>2, WaitReadyInLine
<1>3. CASE \E c \in Caller : LooksAgain(c)
  BY <1>3, LooksAgainInLine
<1>4. CASE \E c \in Caller : TimerFires(c) \/ EndCall(c)
  <2>1. PICK c \in Caller, x \in {"woken", "out"} :
           /\ \/ a[c] = "timed" /\ x = "woken"
              \/ a[c] = "calling" /\ x = "out"
           /\ at' = [a EXCEPT ![c] = x] /\ tickets' = q /\ quiet' = quiet
    BY <1>0, <1>4 DEF TimerFires, EndCall
  <2>2. Queued(at') = Queued(a)
    BY <1>1, <2>1 DEF Queued
  <2>3. at' \in [Caller -> {"out", "asleep", "timed", "woken", "ready", "calling"}]
    BY <1>1, <2>1
  <2>4. \A d \in Caller : at'[d] = "ready" => Head(tickets') = d /\ quiet'
    BY <1>1, <2>1
  <2>5. tickets' # <<>> => at'[Head(tickets')] # "asleep"
    <3> SUFFICES ASSUME q # <<>> PROVE Head(q) \in Caller
      BY <1>1, <2>1
    <3> QED BY <1>1, HeadTailProperties
  <2> QED BY <1>1, <2>1, <2>2, <2>3, <2>4, <2>5 DEF PacerIInv, InLine
<1>5. CASE \E c \in Caller : Cancelled(c) \/ EndUnused(c)
  BY <1>5, CloseInLine DEF Cancelled, EndUnused
<1>6. CASE \E c \in Caller : TryStart(c)
  BY <1>6, TryStartInLine
<1>7. CASE IntervalPasses \/ UNCHANGED pacerVars
  BY <1>7 DEF IntervalPasses, pacerVars, PacerIInv, InLine
<1> QED BY <1>2, <1>3, <1>4, <1>5, <1>6, <1>7 DEF PacerNext

\* Of any callers of the address provider, however they come, give up and are cancelled, a
\* prepared turn keeps its place at the head until it starts or ends, and the head of the
\* queue is never left asleep (ProviderPacer.wait_ready, PacingTicket.close, try_start).
THEOREM TicketsAlwaysKeepOrder == PacerSpec => []TicketsKeepOrder
<1>1. PacerInit => PacerIInv
  <2> SUFFICES ASSUME PacerInit PROVE PacerIInv
    OBVIOUS
  <2>1. tickets = <<>> /\ tickets \in Seq(Caller) /\ Differ(tickets) /\ Range(tickets) = {}
    BY DEF PacerInit, Differ, Range
  <2> QED BY <2>1 DEF PacerInit, PacerIInv, InLine, Queued
<1>2. PacerSpec => []PacerIInv
  BY <1>1, PacerNextIInv, PTL DEF PacerSpec
<1>3. PacerIInv => TicketsKeepOrder
  <2> SUFFICES ASSUME PacerIInv PROVE TicketsKeepOrder
    OBVIOUS
  <2>1. ReadyKeepsItsPlace /\ (tickets # <<>> => at[Head(tickets)] # "asleep")
    BY DEF PacerIInv, InLine, ReadyKeepsItsPlace
  <2>2. Range(tickets) = {c \in Caller : Waiting(c) \/ at[c] = "ready"}
    BY DEF PacerIInv, InLine, Queued, Waiting
  <2>3. IsInjective(tickets)
    BY DEF PacerIInv, InLine, Differ, IsInjective
  <2> QED BY <2>1, <2>2, <2>3 DEF TicketsKeepOrder, QueueMatches
<1> QED BY <1>2, <1>3, PTL
================================================================================

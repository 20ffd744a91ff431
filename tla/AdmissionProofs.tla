--------------------------- MODULE AdmissionProofs ---------------------------
(***************************************************************************)
(* Proofs about Admission for every set of operations, accounts and lanes  *)
(* and every table of limits.                                              *)
(***************************************************************************)
EXTENDS Admission, TLAPS, SequenceTheorems, FunctionTheorems, FiniteSetTheorems

-----------------------------------------------------------------------------
(* Sequences without repetition.                                           *)

Distinct(s) == \A i, j \in 1 .. Len(s) : s[i] = s[j] => i = j

SuffixOf(S, s, n, t) ==
    /\ t \in Seq(S) /\ Len(t) = Len(s) - n
    /\ \A i \in 1 .. Len(t) : t[i] = s[n + i]
    /\ Distinct(t)

\* A suffix keeps its elements, in their order.
LEMMA Suffix ==
    ASSUME NEW S, NEW s \in Seq(S), NEW n \in 0 .. Len(s), Distinct(s)
    PROVE  SuffixOf(S, s, n, SubSeq(s, n + 1, Len(s)))
<1> DEFINE t == SubSeq(s, n + 1, Len(s))
<1>1. Len(s) \in Nat /\ \A i \in n + 1 .. Len(s) : s[i] \in S
  BY LenProperties, ElementOfSeq
<1>2. /\ t \in Seq(S) /\ Len(t) = Len(s) - n
      /\ \A i \in 1 .. Len(s) - n : t[i] = s[n + i]
  BY <1>1, SubSeqProperties
<1>3. Distinct(t)
  BY <1>1, <1>2 DEF Distinct
<1> QED
  BY <1>2, <1>3 DEF SuffixOf

RemovalOf(S, s, k, t) ==
    /\ t \in Seq(S) /\ Len(t) = Len(s) - 1
    /\ \A i \in 1 .. Len(t) : t[i] = IF i < k THEN s[i] ELSE s[i + 1]
    /\ Distinct(t)

\* RemoveFirst takes one element out and keeps the rest in order.
LEMMA Removal ==
    ASSUME NEW S, NEW s \in Seq(S), NEW k \in 1 .. Len(s), Distinct(s)
    PROVE  RemovalOf(S, s, k, RemoveFirst(s, s[k]))
<1> DEFINE t == RemoveFirst(s, s[k])
           p == SubSeq(s, 1, k - 1)
           q == SubSeq(s, k + 1, Len(s))
<1>1. Len(s) \in Nat /\ \A i \in 1 .. Len(s) : s[i] \in S
  BY LenProperties, ElementOfSeq
<1>2. {i \in 1 .. Len(s) : s[i] = s[k]} = {k}
  BY DEF Distinct
<1>3. Min({k}) = k
  BY <1>1 DEF Min
<1>4. t = p \o q
  BY <1>2, <1>3 DEF RemoveFirst, RemoveAt, SelectInSeq
<1>5. p \in Seq(S) /\ Len(p) = k - 1 /\ \A i \in 1 .. k - 1 : p[i] = s[i]
  BY <1>1, SubSeqProperties
<1>6. q \in Seq(S) /\ Len(q) = Len(s) - k /\ \A i \in 1 .. Len(s) - k : q[i] = s[k + i]
  BY <1>1, SubSeqProperties
<1>7. /\ t \in Seq(S) /\ Len(t) = Len(p) + Len(q)
      /\ \A i \in 1 .. Len(p) + Len(q) : t[i] = IF i <= Len(p) THEN p[i] ELSE q[i - Len(p)]
  <2>1. p \in Seq(S) /\ q \in Seq(S) /\ t = p \o q
    BY <1>4, <1>5, <1>6
  <2> HIDE DEF t, p, q
  <2>2. /\ p \o q \in Seq(S)
        /\ Len(p \o q) = Len(p) + Len(q)
        /\ \A i \in 1 .. Len(p) + Len(q) : (p \o q)[i] = IF i <= Len(p) THEN p[i] ELSE q[i - Len(p)]
    BY <2>1, ConcatProperties, Zenon
  <2> QED BY <2>1, <2>2, Zenon
<1> HIDE DEF t, p, q
<1>8. ASSUME NEW i \in 1 .. Len(t) PROVE t[i] = IF i < k THEN s[i] ELSE s[i + 1]
  <2>1. i \in Nat /\ i \in 1 .. Len(p) + Len(q) /\ Len(p) = k - 1 /\ Len(q) = Len(s) - k
    BY <1>1, <1>5, <1>6, <1>7
  <2>2. CASE i < k
    <3>1. t[i] = p[i] /\ i \in 1 .. k - 1
      BY <1>1, <2>1, <2>2, <1>7
    <3> QED BY <3>1, <2>2, <1>5
  <2>3. CASE ~(i < k)
    <3>1. t[i] = q[i - (k - 1)] /\ i - (k - 1) \in 1 .. Len(s) - k
      BY <1>1, <2>1, <2>3, <1>7
    <3> QED BY <3>1, <2>1, <2>3, <1>6
  <2> QED BY <2>2, <2>3
<1>9. Len(t) = Len(s) - 1
  BY <1>1, <1>5, <1>6, <1>7
<1>10. Distinct(t)
  <2> DEFINE m(i) == IF i < k THEN i ELSE i + 1
  <2>1. \A i \in 1 .. Len(t) : m(i) \in 1 .. Len(s) /\ t[i] = s[m(i)]
    BY <1>1, <1>8, <1>9
  <2>2. \A i, j \in 1 .. Len(t) : m(i) = m(j) => i = j
    BY <1>1, <1>9
  <2> HIDE DEF m
  <2> QED BY <2>1, <2>2 DEF Distinct
<1> QED
  BY <1>7, <1>8, <1>9, <1>10 DEF RemovalOf, t

\* As many different elements as positions.
LEMMA Distinguished ==
    ASSUME NEW S, NEW s \in Seq(S), NEW n \in Nat, NEW T,
           Distinct(s), n <= Len(s), \A x : x \in T <=> \E i \in 1 .. n : x = s[i]
    PROVE  IsFiniteSet(T) /\ Cardinality(T) = n
<1> DEFINE f == [i \in 1 .. n |-> s[i]]
<1>1. Len(s) \in Nat
  BY LenProperties
<1>2. IsFiniteSet(1 .. n) /\ Cardinality(1 .. n) = n
  BY FS_Interval
<1>3. f \in Bijection(1 .. n, T)
  BY <1>1 DEF Distinct, Bijection, Injection, Surjection, IsInjective
<1> QED
  BY <1>2, <1>3, FS_Bijection DEF ExistsBijection

-----------------------------------------------------------------------------
(* What the manager's queues are, for any queues: those of a state, and     *)
(* those a handler has in hand between two calls of _promote.               *)

LaneOk(l, act, pend, st) ==
    /\ act[l] \in SUBSET Op
    /\ Cardinality(act[l]) <= Limit[l]
    /\ pend[l] \in Seq(Op) /\ Distinct(pend[l])
    /\ Len(pend[l]) <= MaxPending[l]
    /\ st[l] \in 0 .. Len(pend[l])

Typed(act, pend, st, pcs, ln) ==
    /\ act \in [Lane -> SUBSET Op]
    /\ pend \in [Lane -> Seq(Op)]
    /\ st \in [Lane -> Nat]
    /\ pcs \in [Op -> Holding \cup {"idle", "waiting", "failed"}]
    /\ ln \in [Op -> Lane \cup {NoLane}]

\* The queue of a lane holds the operations that wait for it, and no other.
Queued(pend, pcs, ln) ==
    /\ \A l \in Lane : \A i \in 1 .. Len(pend[l]) :
          pcs[pend[l][i]] = "waiting" /\ ln[pend[l][i]] = l
    /\ \A o \in Op : pcs[o] = "waiting" =>
          \E i \in 1 .. Len(pend[ln[o]]) : pend[ln[o]][i] = o

\* The slots of a lane belong to the operations that were granted one.
Owned(act, pcs, ln) ==
    /\ \A o \in Op : pcs[o] # "idle" => ln[o] \in Lane
    /\ \A l \in Lane : act[l] = {o \in Op : ln[o] = l /\ pcs[o] \in Holding}

Consistent(act, pend, st, pcs, ln) ==
    /\ Typed(act, pend, st, pcs, ln)
    /\ \A l \in Lane : LaneOk(l, act, pend, st)
    /\ Queued(pend, pcs, ln)
    /\ Owned(act, pcs, ln)

\* What _promote makes of one lane: n tickets win a slot, the rest stays queued.
LanePromoted(l, act, pend, st, n, won, rest) ==
    /\ n \in Nat /\ st[l] \in Nat /\ Len(pend[l]) \in Nat
    /\ st[l] + n <= Len(pend[l])
    /\ won \in SUBSET Op /\ won \cap act[l] = {}
    /\ \A o : o \in won <=> \E i \in 1 .. Len(pend[l]) : o = pend[l][i] /\ st[l] < i /\ i <= st[l] + n
    /\ \A o : o \in TimedOut(l, pend, st) <=> \E i \in 1 .. Len(pend[l]) : o = pend[l][i] /\ i <= st[l]
    /\ Cardinality(act[l] \cup won) <= Limit[l]
    /\ rest \in Seq(Op) /\ Distinct(rest) /\ Len(rest) = Len(pend[l]) - (st[l] + n)
    /\ \A i \in 1 .. Len(rest) : rest[i] = pend[l][st[l] + n + i]
    /\ rest # <<>> => Cardinality(act[l] \cup won) >= Limit[l]

\* The live tickets are the queue behind its stale prefix.
LEMMA LiveTickets ==
    ASSUME NEW act, NEW pend, NEW st, NEW l \in Lane, LaneOk(l, act, pend, st)
    PROVE  /\ Live(l, pend, st) \in Seq(Op) /\ Distinct(Live(l, pend, st))
           /\ st[l] \in Nat /\ Len(pend[l]) \in Nat /\ st[l] <= Len(pend[l])
           /\ Len(Live(l, pend, st)) = Len(pend[l]) - st[l]
           /\ \A i \in 1 .. Len(Live(l, pend, st)) : Live(l, pend, st)[i] = pend[l][st[l] + i]
<1>1. pend[l] \in Seq(Op) /\ st[l] \in 0 .. Len(pend[l]) /\ Distinct(pend[l])
  BY DEF LaneOk
<1>2. Len(pend[l]) \in Nat /\ st[l] \in Nat /\ st[l] <= Len(pend[l])
  BY <1>1, LenProperties
<1>3. SuffixOf(Op, pend[l], st[l], Live(l, pend, st))
  BY <1>1, Suffix DEF Live
<1> QED
  BY <1>2, <1>3 DEF SuffixOf

\* _promote on one lane: it never exceeds the limit, and it leaves a ticket in the
\* queue only when every slot is taken.
LEMMA PromoteLane ==
    ASSUME NEW act, NEW pend, NEW st, NEW l \in Lane, LaneOk(l, act, pend, st),
           \A i \in 1 .. Len(pend[l]) : pend[l][i] \notin act[l]
    PROVE  LanePromoted(l, act, pend, st, Taken(l, act, pend, st), Granted(l, act, pend, st),
               SubSeq(Live(l, pend, st), Taken(l, act, pend, st) + 1, Len(Live(l, pend, st))))
<1> DEFINE n == Taken(l, act, pend, st)
           g == Granted(l, act, pend, st)
           live == Live(l, pend, st)
           rest == SubSeq(live, n + 1, Len(live))
<1>1. /\ live \in Seq(Op) /\ Distinct(live) /\ Len(live) = Len(pend[l]) - st[l]
      /\ \A i \in 1 .. Len(live) : live[i] = pend[l][st[l] + i]
      /\ st[l] \in Nat /\ Len(pend[l]) \in Nat /\ Len(live) \in Nat /\ Limit[l] \in Nat
  BY LiveTickets, LimitAssumption
<1>2. IsFiniteSet(act[l]) /\ Cardinality(act[l]) \in Nat /\ Cardinality(act[l]) <= Limit[l]
  BY OpAssumption, FS_Subset, FS_CardinalityType DEF LaneOk
<1>3. n = IF Limit[l] - Cardinality(act[l]) < Len(live)
          THEN Limit[l] - Cardinality(act[l]) ELSE Len(live)
  BY DEF Taken
<1>4. \A x : x \in g <=> \E i \in 1 .. n : x = live[i]
  BY DEF Granted
<1> HIDE DEF n, g, live
<1>5. n \in Nat /\ n <= Len(live)
  BY <1>1, <1>2, <1>3
<1>6. IsFiniteSet(g) /\ Cardinality(g) = n
  BY <1>1, <1>4, <1>5, Distinguished
<1>7. \A i \in 1 .. Len(live) : live[i] \in Op /\ live[i] \notin act[l]
  <2> TAKE i \in 1 .. Len(live)
  <2>1. live[i] \in Op
    BY <1>1, ElementOfSeq
  <2>2. st[l] + i \in 1 .. Len(pend[l]) /\ live[i] = pend[l][st[l] + i]
    BY <1>1
  <2> QED BY <2>1, <2>2
<1>8. g \subseteq Op /\ g \cap act[l] = {}
  <2>1. ASSUME NEW x \in g PROVE x \in Op /\ x \notin act[l]
    <3>1. PICK i \in 1 .. n : x = live[i]
      BY <1>4
    <3>2. i \in 1 .. Len(live)
      BY <1>1, <1>5
    <3> QED BY <3>1, <3>2, <1>7
  <2> QED BY <2>1
<1>9. Cardinality(act[l] \cup g) = Cardinality(act[l]) + n
  <2>1. Cardinality(act[l] \cup g) = Cardinality(act[l]) + Cardinality(g) - Cardinality({})
    BY <1>2, <1>6, <1>8, FS_Union
  <2> QED BY <2>1, <1>2, <1>5, <1>6, FS_EmptySet
<1>10. /\ rest \in Seq(Op) /\ Len(rest) = Len(live) - n /\ Distinct(rest)
       /\ \A i \in 1 .. Len(rest) : rest[i] = live[n + i]
  <2>1. live \in Seq(Op) /\ Distinct(live) /\ n \in 0 .. Len(live)
    BY <1>1, <1>5
  <2>2. SuffixOf(Op, live, n, rest)
    BY <2>1, Suffix
  <2> QED BY <2>2 DEF SuffixOf
<1> HIDE DEF rest
<1>11. ASSUME NEW i \in 1 .. Len(rest) PROVE rest[i] = pend[l][st[l] + n + i]
  <2>1. n + i \in 1 .. Len(live) /\ st[l] + (n + i) = st[l] + n + i
    BY <1>1, <1>5, <1>10
  <2> QED BY <2>1, <1>1, <1>10
<1>12. rest # <<>> => Cardinality(act[l] \cup g) >= Limit[l]
  <2>1. rest # <<>> => Len(rest) \in Nat \ {0}
    BY <1>10, EmptySeq
  <2> QED BY <2>1, <1>1, <1>2, <1>3, <1>5, <1>9, <1>10
<1>13. Cardinality(act[l] \cup g) <= Limit[l]
  BY <1>1, <1>2, <1>3, <1>5, <1>9
<1>14. \A o : o \in g <=> \E i \in 1 .. Len(pend[l]) : o = pend[l][i] /\ st[l] < i /\ i <= st[l] + n
  <2> TAKE o
  <2>1. ASSUME o \in g PROVE \E i \in 1 .. Len(pend[l]) : o = pend[l][i] /\ st[l] < i /\ i <= st[l] + n
    <3>1. PICK i \in 1 .. n : o = live[i]
      BY <2>1, <1>4
    <3>2. o = pend[l][st[l] + i]
      BY <3>1, <1>1, <1>5
    <3>3. st[l] + i \in 1 .. Len(pend[l]) /\ st[l] < st[l] + i /\ st[l] + i <= st[l] + n
      BY <1>1, <1>5
    <3> QED BY <3>2, <3>3
  <2>2. ASSUME NEW i \in 1 .. Len(pend[l]), o = pend[l][i], st[l] < i, i <= st[l] + n PROVE o \in g
    <3>1. i - st[l] \in 1 .. n /\ i - st[l] \in 1 .. Len(live) /\ st[l] + (i - st[l]) = i
      BY <2>2, <1>1, <1>5
    <3> QED BY <2>2, <3>1, <1>1, <1>4
  <2> QED BY <2>1, <2>2
<1>15. \A o : o \in TimedOut(l, pend, st) <=> \E i \in 1 .. Len(pend[l]) : o = pend[l][i] /\ i <= st[l]
  <2> TAKE o
  <2>1. o \in TimedOut(l, pend, st) <=> \E i \in 1 .. st[l] : o = pend[l][i]
    BY DEF TimedOut
  <2>2. \A i : i \in 1 .. st[l] <=> i \in 1 .. Len(pend[l]) /\ i <= st[l]
    BY LiveTickets
  <2> QED BY <2>1, <2>2
<1>16. LanePromoted(l, act, pend, st, n, g, rest)
  <2>1. st[l] + n <= Len(pend[l]) /\ Len(rest) = Len(pend[l]) - (st[l] + n)
    BY <1>1, <1>5, <1>10
  <2> QED BY <2>1, <1>1, <1>5, <1>8, <1>10, <1>11, <1>12, <1>13, <1>14, <1>15 DEF LanePromoted
<1> QED
  BY <1>16 DEF n, g, rest, live

\* What _promote on the lanes L makes of consistent queues.
Promoted(L, act, pend, pcs, ln, act2, pend2, st2, pcs2) ==
    /\ Consistent(act2, pend2, st2, pcs2, ln)
    /\ \A l \in L : pend2[l] # <<>> => Cardinality(act2[l]) >= Limit[l]
    /\ \A l \in Lane \ L : act2[l] = act[l] /\ pend2[l] = pend[l]
    /\ \A o \in Op : \/ pcs2[o] = pcs[o]
                     \/ pcs[o] = "waiting" /\ pcs2[o] \in {"granted", "failed"}
    /\ Empty(act, pend) => Empty(act2, pend2)

\* _promote on some lanes: the queues stay consistent, whoever is promoted waited,
\* and nothing comes out of empty lanes.
LEMMA Promotion ==
    ASSUME NEW act, NEW pend, NEW st, NEW pcs, NEW ln, NEW L \in SUBSET Lane,
           Consistent(act, pend, st, pcs, ln)
    PROVE  Promoted(L, act, pend, pcs, ln, PromotedActive(L, act, pend, st),
               PromotedPending(L, act, pend, st), PromotedStale(L, st),
               PromotedPc(L, act, pend, st, pcs))
<1> DEFINE act2 == PromotedActive(L, act, pend, st)
           pend2 == PromotedPending(L, act, pend, st)
           st2 == PromotedStale(L, st)
           pcs2 == PromotedPc(L, act, pend, st, pcs)
           n(l) == Taken(l, act, pend, st)
           won(l) == Granted(l, act, pend, st)
           lost(l) == TimedOut(l, pend, st)
<1>1. /\ \A l, m \in Lane : \A i \in 1 .. Len(pend[l]), j \in 1 .. Len(pend[m]) :
            pend[l][i] = pend[m][j] => l = m /\ i = j
      /\ \A l \in Lane : \A i \in 1 .. Len(pend[l]) :
            pcs[pend[l][i]] = "waiting" /\ ln[pend[l][i]] = l
      /\ \A o \in Op : pcs[o] = "waiting" =>
            ln[o] \in Lane /\ \E i \in 1 .. Len(pend[ln[o]]) : o = pend[ln[o]][i]
      /\ \A l \in Lane : act[l] = {o \in Op : ln[o] = l /\ pcs[o] \in Holding}
  BY DEF Consistent, LaneOk, Distinct, Queued, Owned
<1>2. \A l \in Lane : \A i \in 1 .. Len(pend[l]) : pend[l][i] \in Op /\ pend[l][i] \notin act[l]
  <2> TAKE l \in Lane
  <2> TAKE i \in 1 .. Len(pend[l])
  <2>1. pend[l] \in Seq(Op)
    BY DEF Consistent, LaneOk
  <2>2. pend[l][i] \in Op
    BY <2>1, ElementOfSeq
  <2> QED BY <2>2, <1>1 DEF Holding
<1>3. \A l \in L :
         /\ act2[l] = act[l] \cup won(l)
         /\ pend2[l] = SubSeq(Live(l, pend, st), n(l) + 1, Len(Live(l, pend, st)))
         /\ st2[l] = 0
  BY DEF PromotedActive, PromotedPending, PromotedStale
<1>4. \A l \in Lane \ L : act2[l] = act[l] /\ pend2[l] = pend[l] /\ st2[l] = st[l]
  BY DEF PromotedActive, PromotedPending, PromotedStale
<1>5. \A o \in Op : pcs2[o] = IF \E l \in L : o \in won(l) THEN "granted"
                              ELSE IF \E l \in L : o \in lost(l) THEN "failed"
                              ELSE pcs[o]
  BY DEF PromotedPc
<1> HIDE DEF act2, pend2, st2, pcs2
<1>6. \A l \in L : LanePromoted(l, act, pend, st, n(l), won(l), pend2[l])
  <2> TAKE l \in L
  <2>1. l \in Lane /\ LaneOk(l, act, pend, st) /\ \A i \in 1 .. Len(pend[l]) : pend[l][i] \notin act[l]
    BY <1>2 DEF Consistent
  <2>2. LanePromoted(l, act, pend, st, n(l), won(l),
            SubSeq(Live(l, pend, st), n(l) + 1, Len(Live(l, pend, st))))
    BY <2>1, PromoteLane
  <2> QED BY <2>2, <1>3
<1> HIDE DEF n, won, lost
<1>7. \A l \in L : \A i \in 1 .. Len(pend[l]) :
         /\ pend[l][i] \in won(l) <=> st[l] < i /\ i <= st[l] + n(l)
         /\ pend[l][i] \in lost(l) <=> i <= st[l]
  <2> TAKE l \in L
  <2> TAKE i \in 1 .. Len(pend[l])
  <2>1. l \in Lane /\ \A j \in 1 .. Len(pend[l]) : pend[l][i] = pend[l][j] => i = j
    BY <1>1
  <2>2. pend[l][i] \in won(l) <=>
           \E j \in 1 .. Len(pend[l]) : pend[l][i] = pend[l][j] /\ st[l] < j /\ j <= st[l] + n(l)
    BY <1>6 DEF LanePromoted
  <2>3. pend[l][i] \in lost(l) <=> \E j \in 1 .. Len(pend[l]) : pend[l][i] = pend[l][j] /\ j <= st[l]
    BY <1>6 DEF LanePromoted, lost
  <2> QED BY <2>1, <2>2, <2>3
<1>8. \A l \in L : \A o : o \in won(l) \/ o \in lost(l) =>
         o \in Op /\ pcs[o] = "waiting" /\ ln[o] = l /\ \E i \in 1 .. Len(pend[l]) : o = pend[l][i]
  <2> TAKE l \in L
  <2> TAKE o
  <2>1. o \in won(l) <=> \E i \in 1 .. Len(pend[l]) : o = pend[l][i] /\ st[l] < i /\ i <= st[l] + n(l)
    BY <1>6 DEF LanePromoted
  <2>2. o \in lost(l) <=> \E i \in 1 .. Len(pend[l]) : o = pend[l][i] /\ i <= st[l]
    BY <1>6 DEF LanePromoted, lost
  <2>3. l \in Lane
    OBVIOUS
  <2> QED BY <2>1, <2>2, <2>3, <1>1, <1>2
<1>9. \A o \in Op : pcs[o] # "waiting" \/ ln[o] \notin L => pcs2[o] = pcs[o]
  BY <1>5, <1>8
<1>10. \A l \in L, o \in Op : ln[o] = l /\ pcs[o] = "waiting" =>
          pcs2[o] = IF o \in won(l) THEN "granted" ELSE IF o \in lost(l) THEN "failed" ELSE "waiting"
  BY <1>5, <1>8
<1>11. \A o \in Op : \/ pcs2[o] = pcs[o]
                     \/ pcs[o] = "waiting" /\ pcs2[o] \in {"granted", "failed"}
  BY <1>5, <1>9
<1>12. \A l \in L : \A i \in 1 .. Len(pend2[l]) :
          /\ st[l] + n(l) + i \in 1 .. Len(pend[l])
          /\ pend2[l][i] = pend[l][st[l] + n(l) + i]
          /\ pend2[l][i] \notin won(l) /\ pend2[l][i] \notin lost(l)
  <2> TAKE l \in L
  <2> TAKE i \in 1 .. Len(pend2[l])
  <2>1. /\ n(l) \in Nat /\ st[l] \in Nat /\ Len(pend[l]) \in Nat /\ st[l] + n(l) <= Len(pend[l])
        /\ Len(pend2[l]) = Len(pend[l]) - (st[l] + n(l))
        /\ pend2[l][i] = pend[l][st[l] + n(l) + i]
    BY <1>6 DEF LanePromoted
  <2>2. st[l] + n(l) + i \in 1 .. Len(pend[l])
    BY <2>1
  <2> QED BY <2>1, <2>2, <1>7
<1>13. ASSUME NEW l \in Lane PROVE LaneOk(l, act2, pend2, st2)
  <2>1. LaneOk(l, act, pend, st)
    BY DEF Consistent
  <2>2. CASE l \in L
    <3>1. act2[l] \in SUBSET Op /\ Cardinality(act2[l]) <= Limit[l]
      BY <2>1, <2>2, <1>3, <1>6 DEF LanePromoted, LaneOk
    <3>2. pend2[l] \in Seq(Op) /\ Distinct(pend2[l]) /\ Len(pend2[l]) \in Nat
      BY <2>2, <1>6, LenProperties DEF LanePromoted
    <3>3. Len(pend2[l]) <= MaxPending[l]
      <4>1. /\ n(l) \in Nat /\ st[l] \in Nat /\ Len(pend[l]) \in Nat
            /\ Len(pend2[l]) = Len(pend[l]) - (st[l] + n(l))
        BY <2>2, <1>6 DEF LanePromoted
      <4>2. Len(pend[l]) <= MaxPending[l] /\ MaxPending[l] \in Nat
        BY <2>1, LimitAssumption DEF LaneOk
      <4> QED BY <4>1, <4>2
    <3> QED BY <2>2, <3>1, <3>2, <3>3, <1>3 DEF LaneOk
  <2>3. CASE l \notin L
    BY <2>1, <2>3, <1>4 DEF LaneOk
  <2> QED BY <2>2, <2>3
<1>14. Typed(act2, pend2, st2, pcs2, ln)
  <2>1. pcs2 \in [Op -> Holding \cup {"idle", "waiting", "failed"}]
    BY <1>11 DEF pcs2, PromotedPc, Consistent, Typed, Holding
  <2>2. act2 \in [Lane -> SUBSET Op]
    BY <1>13 DEF act2, PromotedActive, LaneOk
  <2>3. pend2 \in [Lane -> Seq(Op)]
    BY <1>13 DEF pend2, PromotedPending, LaneOk
  <2>4. st2 \in [Lane -> Nat]
    BY DEF st2, PromotedStale, Consistent, Typed
  <2> QED BY <2>1, <2>2, <2>3, <2>4 DEF Typed, Consistent
<1>15. Queued(pend2, pcs2, ln)
  <2>1. ASSUME NEW l \in Lane, NEW i \in 1 .. Len(pend2[l])
        PROVE  pcs2[pend2[l][i]] = "waiting" /\ ln[pend2[l][i]] = l
    <3>1. CASE l \in L
      <4>1. /\ pend2[l][i] \notin won(l) /\ pend2[l][i] \notin lost(l)
            /\ pend2[l][i] \in Op /\ pcs[pend2[l][i]] = "waiting" /\ ln[pend2[l][i]] = l
        BY <3>1, <1>1, <1>2, <1>12
      <4> QED BY <3>1, <4>1, <1>10
    <3>2. CASE l \notin L
      BY <3>2, <2>1, <1>1, <1>2, <1>4, <1>9
    <3> QED BY <3>1, <3>2
  <2>2. ASSUME NEW o \in Op, pcs2[o] = "waiting"
        PROVE  \E i \in 1 .. Len(pend2[ln[o]]) : pend2[ln[o]][i] = o
    <3> DEFINE l == ln[o]
    <3>1. pcs[o] = "waiting" /\ l \in Lane
      BY <2>2, <1>1, <1>11
    <3>2. PICK j \in 1 .. Len(pend[l]) : o = pend[l][j]
      BY <3>1, <1>1
    <3>3. CASE l \in L
      <4>1. o \notin won(l) /\ o \notin lost(l)
        BY <2>2, <3>1, <3>3, <1>10
      <4>2. ~(j <= st[l]) /\ ~(st[l] < j /\ j <= st[l] + n(l))
        BY <3>2, <3>3, <4>1, <1>7
      <4>3. /\ n(l) \in Nat /\ st[l] \in Nat /\ Len(pend[l]) \in Nat
            /\ Len(pend2[l]) = Len(pend[l]) - (st[l] + n(l))
            /\ \A i \in 1 .. Len(pend2[l]) : pend2[l][i] = pend[l][st[l] + n(l) + i]
        BY <3>3, <1>6 DEF LanePromoted
      <4> DEFINE i == j - (st[l] + n(l))
      <4>4. i \in 1 .. Len(pend2[l]) /\ st[l] + n(l) + i = j
        BY <4>2, <4>3
      <4> QED BY <4>3, <4>4, <3>2
    <3>4. CASE l \notin L
      BY <3>1, <3>2, <3>4, <1>4
    <3> QED BY <3>3, <3>4
  <2> QED BY <2>1, <2>2 DEF Queued
<1>16. Owned(act2, pcs2, ln)
  <2>1. \A o \in Op : pcs2[o] # "idle" => ln[o] \in Lane
    BY <1>11 DEF Consistent, Owned
  <2>2. ASSUME NEW l \in L PROVE act2[l] = {o \in Op : ln[o] = l /\ pcs2[o] \in Holding}
    <3>1. act2[l] = act[l] \cup won(l) /\ act[l] = {o \in Op : ln[o] = l /\ pcs[o] \in Holding}
      BY <1>1, <1>3 DEF won
    <3>2. \A o \in Op : pcs[o] \in Holding => pcs2[o] = pcs[o]
      BY <1>9 DEF Holding
    <3>3. \A o \in won(l) : o \in Op /\ ln[o] = l /\ pcs2[o] = "granted"
      BY <1>8, <1>10
    <3>4. \A o \in Op : ln[o] = l /\ pcs2[o] \in Holding /\ pcs[o] \notin Holding => o \in won(l)
      <4> TAKE o \in Op
      <4>1. CASE pcs[o] = "waiting"
        BY <4>1, <1>10 DEF Holding
      <4>2. CASE pcs[o] # "waiting"
        BY <4>2, <1>9
      <4> QED BY <4>1, <4>2
    <3> QED BY <3>1, <3>2, <3>3, <3>4 DEF Holding
  <2>3. ASSUME NEW l \in Lane \ L PROVE act2[l] = {o \in Op : ln[o] = l /\ pcs2[o] \in Holding}
    <3>1. \A o \in Op : ln[o] = l => pcs2[o] = pcs[o]
      BY <1>9
    <3> QED BY <3>1, <1>1, <1>4
  <2> QED BY <2>1, <2>2, <2>3 DEF Owned
<1>17. Empty(act, pend) => Empty(act2, pend2)
  <2> SUFFICES ASSUME Empty(act, pend), NEW l \in L PROVE act2[l] = {} /\ pend2[l] = <<>>
    BY <1>4 DEF Empty
  <2>1. act[l] = {} /\ pend[l] = <<>>
    BY DEF Empty
  <2>2. Len(pend[l]) = 0
    BY <2>1, EmptySeq
  <2>3. won(l) = {}
    BY <2>2, <1>8
  <2>4. Len(pend2[l]) = 0 /\ pend2[l] \in Seq(Op)
    <3>1. /\ n(l) \in Nat /\ st[l] \in Nat /\ st[l] + n(l) <= Len(pend[l])
          /\ Len(pend2[l]) = Len(pend[l]) - (st[l] + n(l)) /\ pend2[l] \in Seq(Op)
      BY <1>6 DEF LanePromoted
    <3> QED BY <3>1, <2>2
  <2>5. pend2[l] = <<>>
    BY <2>4, EmptySeq
  <2> QED BY <2>1, <2>3, <2>5, <1>3 DEF won
<1>18. \A l \in L : pend2[l] # <<>> => Cardinality(act2[l]) >= Limit[l]
  BY <1>3, <1>6 DEF LanePromoted, won
<1>19. Consistent(act2, pend2, st2, pcs2, ln)
  BY <1>13, <1>14, <1>15, <1>16 DEF Consistent
<1>20. \A l \in Lane \ L : act2[l] = act[l] /\ pend2[l] = pend[l]
  BY <1>4
<1> QED
  BY <1>11, <1>17, <1>18, <1>19, <1>20 DEF Promoted, act2, pend2, st2, pcs2

-----------------------------------------------------------------------------
(* Single changes that keep the queues consistent.                         *)

\* The lane of an operation that asks for nothing is of no account.
LEMMA Relabel ==
    ASSUME NEW act, NEW pend, NEW st, NEW pcs, NEW ln, NEW o \in Op, NEW x \in Lane \cup {NoLane},
           Consistent(act, pend, st, pcs, ln), pcs[o] = "idle"
    PROVE  Consistent(act, pend, st, pcs, [ln EXCEPT ![o] = x])
<1> DEFINE ln2 == [ln EXCEPT ![o] = x]
<1>1. ln \in [Op -> Lane \cup {NoLane}] /\ \A q \in Op : q # o => ln2[q] = ln[q]
  BY DEF Consistent, Typed
<1>2. Typed(act, pend, st, pcs, ln2)
  BY <1>1 DEF Consistent, Typed
<1>3. Queued(pend, pcs, ln2)
  <2>1. ASSUME NEW l \in Lane, NEW i \in 1 .. Len(pend[l])
        PROVE  pcs[pend[l][i]] = "waiting" /\ ln2[pend[l][i]] = l
    <3>1. pend[l] \in Seq(Op) /\ pcs[pend[l][i]] = "waiting" /\ ln[pend[l][i]] = l
      BY DEF Consistent, Queued, LaneOk
    <3>2. pend[l][i] \in Op
      BY <3>1, ElementOfSeq
    <3> QED BY <3>1, <3>2, <1>1
  <2>2. ASSUME NEW q \in Op, pcs[q] = "waiting"
        PROVE  \E i \in 1 .. Len(pend[ln2[q]]) : pend[ln2[q]][i] = q
    BY <2>2, <1>1 DEF Consistent, Queued
  <2> QED BY <2>1, <2>2 DEF Queued
<1>4. Owned(act, pcs, ln2)
  BY <1>1 DEF Consistent, Owned, Holding
<1> QED
  BY <1>2, <1>3, <1>4 DEF Consistent

\* An owner that goes on remains an owner.
LEMMA OwnerMoves ==
    ASSUME NEW act, NEW pend, NEW st, NEW pcs, NEW ln, NEW o \in Op, NEW x \in Holding,
           Consistent(act, pend, st, pcs, ln), pcs[o] \in Holding
    PROVE  Consistent(act, pend, st, [pcs EXCEPT ![o] = x], ln)
<1> DEFINE pcs2 == [pcs EXCEPT ![o] = x]
<1>1. Typed(act, pend, st, pcs2, ln) /\ \A q \in Op : pcs2[q] = IF q = o THEN x ELSE pcs[q]
  BY DEF Consistent, Typed
<1> HIDE DEF pcs2
<1>2. Queued(pend, pcs2, ln)
  <2>1. ASSUME NEW l \in Lane, NEW i \in 1 .. Len(pend[l])
        PROVE  pcs2[pend[l][i]] = "waiting" /\ ln[pend[l][i]] = l
    <3>1. pend[l] \in Seq(Op) /\ pcs[pend[l][i]] = "waiting" /\ ln[pend[l][i]] = l
      BY DEF Consistent, Queued, LaneOk
    <3>2. pend[l][i] \in Op
      BY <3>1, ElementOfSeq
    <3> QED BY <3>1, <3>2, <1>1 DEF Holding
  <2>2. \A q \in Op : pcs2[q] = "waiting" => pcs[q] = "waiting"
    BY <1>1 DEF Holding
  <2> QED BY <2>1, <2>2 DEF Consistent, Queued
<1>3. Owned(act, pcs2, ln)
  BY <1>1 DEF Consistent, Owned, Holding
<1> QED
  BY <1>1, <1>2, <1>3 DEF Consistent, pcs2

\* A free slot is taken.
LEMMA SlotTaken ==
    ASSUME NEW act, NEW pend, NEW st, NEW pcs, NEW ln, NEW o \in Op, NEW l \in Lane,
           Consistent(act, pend, st, pcs, ln), pcs[o] = "idle", ln[o] = l,
           Cardinality(act[l]) < Limit[l]
    PROVE  Consistent([act EXCEPT ![l] = @ \cup {o}], pend, st, [pcs EXCEPT ![o] = "running"], ln)
<1> DEFINE act2 == [act EXCEPT ![l] = @ \cup {o}]
           pcs2 == [pcs EXCEPT ![o] = "running"]
<1>1. /\ Typed(act2, pend, st, pcs2, ln)
      /\ \A q \in Op : pcs2[q] = IF q = o THEN "running" ELSE pcs[q]
      /\ \A m \in Lane : act2[m] = IF m = l THEN act[m] \cup {o} ELSE act[m]
  BY DEF Consistent, Typed, Holding
<1> HIDE DEF act2, pcs2
<1>2. ASSUME NEW m \in Lane PROVE LaneOk(m, act2, pend, st)
  <2>1. LaneOk(m, act, pend, st)
    BY DEF Consistent
  <2>2. CASE m = l
    <3>1. IsFiniteSet(act[l]) /\ Cardinality(act[l]) \in Nat /\ Limit[l] \in Nat
      BY <2>1, <2>2, OpAssumption, LimitAssumption, FS_Subset, FS_CardinalityType DEF LaneOk
    <3>2. Cardinality(act[l] \cup {o}) = IF o \in act[l] THEN Cardinality(act[l]) ELSE Cardinality(act[l]) + 1
      BY <3>1, FS_AddElement
    <3>3. Cardinality(act2[l]) <= Limit[l]
      <4>1. Cardinality(act[l] \cup {o}) \in Nat
        BY <3>1, FS_AddElement, FS_CardinalityType
      <4> QED BY <3>1, <3>2, <4>1, <1>1
    <3>4. act2[l] \in SUBSET Op
      BY <1>1 DEF Typed
    <3>5. /\ pend[l] \in Seq(Op) /\ Distinct(pend[l])
          /\ Len(pend[l]) <= MaxPending[l] /\ st[l] \in 0 .. Len(pend[l])
      BY <2>1, <2>2 DEF LaneOk
    <3> QED BY <2>2, <3>3, <3>4, <3>5 DEF LaneOk
  <2>3. CASE m # l
    BY <2>1, <2>3, <1>1 DEF LaneOk
  <2> QED BY <2>2, <2>3
<1>3. Queued(pend, pcs2, ln)
  <2>1. ASSUME NEW m \in Lane, NEW i \in 1 .. Len(pend[m])
        PROVE  pcs2[pend[m][i]] = "waiting" /\ ln[pend[m][i]] = m
    <3>1. pend[m] \in Seq(Op) /\ pcs[pend[m][i]] = "waiting" /\ ln[pend[m][i]] = m
      BY DEF Consistent, Queued, LaneOk
    <3>2. pend[m][i] \in Op
      BY <3>1, ElementOfSeq
    <3> QED BY <3>1, <3>2, <1>1
  <2>2. \A q \in Op : pcs2[q] = "waiting" => pcs[q] = "waiting"
    BY <1>1
  <2> QED BY <2>1, <2>2 DEF Consistent, Queued
<1>4. Owned(act2, pcs2, ln)
  <2>1. \A q \in Op : pcs2[q] # "idle" => ln[q] \in Lane
    BY <1>1 DEF Consistent, Owned
  <2>2. ASSUME NEW m \in Lane PROVE act2[m] = {q \in Op : ln[q] = m /\ pcs2[q] \in Holding}
    <3>1. act[m] = {q \in Op : ln[q] = m /\ pcs[q] \in Holding} /\ "running" \in Holding
      BY DEF Consistent, Owned, Holding
    <3>2. \A q \in Op : q # o => pcs2[q] = pcs[q]
      BY <1>1
    <3>3. pcs2[o] = "running" /\ act2[m] = IF m = l THEN act[m] \cup {o} ELSE act[m]
      BY <1>1
    <3> QED BY <3>1, <3>2, <3>3
  <2> QED BY <2>1, <2>2 DEF Owned
<1> QED
  BY <1>1, <1>2, <1>3, <1>4 DEF Consistent, act2, pcs2

\* A ticket is queued where there is room for it.
LEMMA TicketQueued ==
    ASSUME NEW act, NEW pend, NEW st, NEW pcs, NEW ln, NEW o \in Op, NEW l \in Lane,
           Consistent(act, pend, st, pcs, ln), pcs[o] = "idle", ln[o] = l,
           Len(pend[l]) < MaxPending[l]
    PROVE  Consistent(act, [pend EXCEPT ![l] = Append(@, o)], st, [pcs EXCEPT ![o] = "waiting"], ln)
<1> DEFINE pend2 == [pend EXCEPT ![l] = Append(@, o)]
           pcs2 == [pcs EXCEPT ![o] = "waiting"]
<1>1. /\ pend \in [Lane -> Seq(Op)] /\ pcs \in [Op -> Holding \cup {"idle", "waiting", "failed"}]
      /\ \A m \in Lane : LaneOk(m, act, pend, st)
      /\ \A m \in Lane : \A i \in 1 .. Len(pend[m]) :
            pcs[pend[m][i]] = "waiting" /\ ln[pend[m][i]] = m
      /\ \A q \in Op : pcs[q] = "waiting" => \E i \in 1 .. Len(pend[ln[q]]) : pend[ln[q]][i] = q
      /\ \A q \in Op : pcs[q] # "idle" => ln[q] \in Lane
  BY DEF Consistent, Typed, Queued, Owned
<1>2. /\ \A q \in Op : pcs2[q] = IF q = o THEN "waiting" ELSE pcs[q]
      /\ \A m \in Lane : pend2[m] = IF m = l THEN Append(pend[l], o) ELSE pend[m]
      /\ pcs2 \in [Op -> Holding \cup {"idle", "waiting", "failed"}]
  BY <1>1
<1>3. /\ pend2[l] \in Seq(Op) /\ Len(pend2[l]) = Len(pend[l]) + 1 /\ Len(pend[l]) \in Nat
      /\ \A i \in 1 .. Len(pend[l]) : pend2[l][i] = pend[l][i]
      /\ pend2[l][Len(pend[l]) + 1] = o
  <2>1. pend[l] \in Seq(Op) /\ pend2[l] = Append(pend[l], o)
    BY <1>1, <1>2
  <2> HIDE DEF pend2
  <2> QED BY <2>1, AppendProperties, LenProperties
<1>4. pend2 \in [Lane -> Seq(Op)]
  BY <1>1, <1>3
<1> HIDE DEF pend2, pcs2
<1>5. \A i \in 1 .. Len(pend2[l]) : i \in 1 .. Len(pend[l]) \/ i = Len(pend[l]) + 1
  BY <1>3
<1>6. \A m \in Lane : \A i \in 1 .. Len(pend[m]) : pend[m][i] \in Op /\ pend[m][i] # o
  <2> TAKE m \in Lane
  <2> TAKE i \in 1 .. Len(pend[m])
  <2>1. pend[m] \in Seq(Op) /\ pcs[pend[m][i]] = "waiting"
    BY <1>1
  <2> QED BY <2>1, ElementOfSeq
<1>7. Distinct(pend2[l])
  <2> SUFFICES ASSUME NEW i \in 1 .. Len(pend2[l]), NEW j \in 1 .. Len(pend2[l]),
                      pend2[l][i] = pend2[l][j]
               PROVE  i = j
    BY DEF Distinct
  <2>1. \A x, y \in 1 .. Len(pend[l]) : pend[l][x] = pend[l][y] => x = y
    BY <1>1 DEF LaneOk, Distinct
  <2>2. \A x \in 1 .. Len(pend[l]) : pend2[l][x] = pend[l][x] /\ pend2[l][x] # o
    BY <1>3, <1>6
  <2>3. CASE i \in 1 .. Len(pend[l]) /\ j \in 1 .. Len(pend[l])
    BY <2>1, <2>2, <2>3
  <2>4. CASE i = Len(pend[l]) + 1 \/ j = Len(pend[l]) + 1
    <3>1. \A x \in 1 .. Len(pend2[l]) : pend2[l][x] = o => x = Len(pend[l]) + 1
      BY <1>5, <2>2
    <3>2. pend2[l][i] = o /\ pend2[l][j] = o
      BY <1>3, <2>4
    <3> QED BY <3>1, <3>2
  <2> QED BY <2>3, <2>4, <1>5
<1>8. ASSUME NEW m \in Lane PROVE LaneOk(m, act, pend2, st)
  <2>1. LaneOk(m, act, pend, st)
    BY <1>1
  <2>2. CASE m = l
    <3>1. st[l] \in 0 .. Len(pend2[l]) /\ Len(pend2[l]) <= MaxPending[l]
      BY <2>1, <2>2, <1>3, LimitAssumption DEF LaneOk
    <3> QED BY <2>1, <2>2, <3>1, <1>3, <1>7 DEF LaneOk
  <2>3. CASE m # l
    BY <2>1, <2>3, <1>2 DEF LaneOk
  <2> QED BY <2>2, <2>3
<1>9. Queued(pend2, pcs2, ln)
  <2>1. ASSUME NEW m \in Lane, NEW i \in 1 .. Len(pend2[m])
        PROVE  pcs2[pend2[m][i]] = "waiting" /\ ln[pend2[m][i]] = m
    <3>1. CASE m # l
      <4>1. pend2[m] = pend[m]
        BY <3>1, <1>2
      <4>2. pend[m][i] \in Op /\ pend[m][i] # o /\ pcs[pend[m][i]] = "waiting" /\ ln[pend[m][i]] = m
        BY <4>1, <1>1, <1>6
      <4> QED BY <4>1, <4>2, <1>2
    <3>2. CASE m = l /\ i \in 1 .. Len(pend[l])
      BY <3>2, <1>1, <1>2, <1>3, <1>6
    <3>3. CASE m = l /\ i = Len(pend[l]) + 1
      BY <3>3, <1>2, <1>3
    <3> QED BY <3>1, <3>2, <3>3, <1>5
  <2>2. ASSUME NEW q \in Op, pcs2[q] = "waiting"
        PROVE  \E i \in 1 .. Len(pend2[ln[q]]) : pend2[ln[q]][i] = q
    <3>1. CASE q = o
      <4>1. Len(pend[l]) + 1 \in 1 .. Len(pend2[l])
        BY <1>3
      <4> QED BY <3>1, <4>1, <1>3
    <3>2. CASE q # o
      <4>1. PICK i \in 1 .. Len(pend[ln[q]]) : pend[ln[q]][i] = q
        BY <2>2, <3>2, <1>1, <1>2
      <4>2. ln[q] \in Lane
        BY <2>2, <3>2, <1>1, <1>2
      <4>3. CASE ln[q] = l
        <5>1. i \in 1 .. Len(pend2[l])
          BY <4>1, <4>3, <1>3
        <5> QED BY <5>1, <4>1, <4>3, <1>3
      <4>4. CASE ln[q] # l
        BY <4>1, <4>2, <4>4, <1>2
      <4> QED BY <4>3, <4>4
    <3> QED BY <3>1, <3>2
  <2> QED BY <2>1, <2>2 DEF Queued
<1>10. Owned(act, pcs2, ln)
  BY <1>2 DEF Consistent, Owned, Holding
<1> QED
  BY <1>2, <1>4, <1>8, <1>9, <1>10 DEF Consistent, Typed, pend2, pcs2

\* An operation leaves its lane, wherever it is in it.
LEMMA Departure ==
    ASSUME NEW act, NEW pend, NEW st, NEW pcs, NEW ln, NEW o \in Op,
           Consistent(act, pend, st, pcs, ln), pcs[o] # "idle"
    PROVE  Consistent([act EXCEPT ![ln[o]] = @ \ {o}],
                      [pend EXCEPT ![ln[o]] = Without(@, o)],
                      [st EXCEPT ![ln[o]] = IF o \in TimedOut(ln[o], pend, st) THEN @ - 1 ELSE @],
                      [pcs EXCEPT ![o] = "idle"], ln)
<1> DEFINE l == ln[o]
           act2 == [act EXCEPT ![l] = @ \ {o}]
           pend2 == [pend EXCEPT ![l] = Without(@, o)]
           st2 == [st EXCEPT ![l] = IF o \in TimedOut(l, pend, st) THEN @ - 1 ELSE @]
           pcs2 == [pcs EXCEPT ![o] = "idle"]
<1>1. /\ act \in [Lane -> SUBSET Op] /\ pend \in [Lane -> Seq(Op)] /\ st \in [Lane -> Nat]
      /\ pcs \in [Op -> Holding \cup {"idle", "waiting", "failed"}]
      /\ ln \in [Op -> Lane \cup {NoLane}]
      /\ \A m \in Lane : LaneOk(m, act, pend, st)
      /\ \A m \in Lane : \A i \in 1 .. Len(pend[m]) :
            pcs[pend[m][i]] = "waiting" /\ ln[pend[m][i]] = m
      /\ \A q \in Op : pcs[q] = "waiting" => \E i \in 1 .. Len(pend[ln[q]]) : pend[ln[q]][i] = q
      /\ \A q \in Op : pcs[q] # "idle" => ln[q] \in Lane
      /\ \A m \in Lane : act[m] = {q \in Op : ln[q] = m /\ pcs[q] \in Holding}
  BY DEF Consistent, Typed, Queued, Owned
<1>2. l \in Lane
  BY <1>1
<1>3. /\ \A q \in Op : pcs2[q] = IF q = o THEN "idle" ELSE pcs[q]
      /\ pcs2 \in [Op -> Holding \cup {"idle", "waiting", "failed"}]
      /\ \A m \in Lane : act2[m] = IF m = l THEN act[l] \ {o} ELSE act[m]
      /\ act2 \in [Lane -> SUBSET Op]
  BY <1>1, <1>2
<1>4. /\ \A m \in Lane : pend2[m] = IF m = l THEN Without(pend[l], o) ELSE pend[m]
      /\ \A m \in Lane : st2[m] = IF m = l /\ o \in TimedOut(l, pend, st) THEN st[l] - 1 ELSE st[m]
  BY <1>1, <1>2
<1>5. /\ pend[l] \in Seq(Op) /\ Len(pend[l]) \in Nat /\ Distinct(pend[l])
      /\ st[l] \in Nat /\ st[l] <= Len(pend[l]) /\ Len(pend[l]) <= MaxPending[l]
      /\ MaxPending[l] \in Nat
  BY <1>1, <1>2, LenProperties, LimitAssumption DEF LaneOk
<1>6. \A m \in Lane : \A i \in 1 .. Len(pend[m]) : pend[m][i] \in Op
  BY <1>1, ElementOfSeq
\* What becomes of the queue, whether o was in it or not.
<1>7. /\ pend2[l] \in Seq(Op) /\ Distinct(pend2[l])
      /\ Len(pend2[l]) \in Nat /\ Len(pend2[l]) <= Len(pend[l])
      /\ st2[l] \in Nat /\ st2[l] <= Len(pend2[l])
      /\ \A i \in 1 .. Len(pend2[l]) :
            pend2[l][i] # o /\ \E j \in 1 .. Len(pend[l]) : pend2[l][i] = pend[l][j]
      /\ \A j \in 1 .. Len(pend[l]) :
            pend[l][j] # o => \E i \in 1 .. Len(pend2[l]) : pend2[l][i] = pend[l][j]
  <2>1. ToSet(pend[l]) = {pend[l][i] : i \in 1 .. Len(pend[l])}
    BY <1>5, LenProperties DEF ToSet
  <2>2. o \in TimedOut(l, pend, st) <=> \E i \in 1 .. st[l] : pend[l][i] = o
    BY DEF TimedOut
  <2>3. CASE \A i \in 1 .. Len(pend[l]) : pend[l][i] # o
    <3>1. pend2[l] = pend[l]
      BY <1>2, <1>4, <2>1, <2>3 DEF Without
    <3>2. o \notin TimedOut(l, pend, st)
      BY <1>5, <2>2, <2>3
    <3>3. st2[l] = st[l]
      BY <1>2, <1>4, <3>2
    <3> HIDE DEF pend2, st2
    <3> QED BY <1>5, <2>3, <3>1, <3>3
  <2>4. CASE \E i \in 1 .. Len(pend[l]) : pend[l][i] = o
    <3>1. PICK k \in 1 .. Len(pend[l]) : pend[l][k] = o
      BY <2>4
    <3>2. pend2[l] = RemoveFirst(pend[l], pend[l][k])
      BY <1>2, <1>4, <2>1, <3>1 DEF Without
    <3>3. st2[l] = IF k <= st[l] THEN st[l] - 1 ELSE st[l]
      <4>1. o \in TimedOut(l, pend, st) <=> k <= st[l]
        BY <1>5, <2>2, <3>1 DEF Distinct
      <4> QED BY <1>2, <1>4, <4>1
    <3> HIDE DEF pend2, st2
    <3>4. /\ pend2[l] \in Seq(Op) /\ Len(pend2[l]) = Len(pend[l]) - 1 /\ Distinct(pend2[l])
          /\ \A i \in 1 .. Len(pend2[l]) : pend2[l][i] = IF i < k THEN pend[l][i] ELSE pend[l][i + 1]
      <4>1. RemovalOf(Op, pend[l], k, pend2[l])
        BY <1>5, <3>2, Removal
      <4> QED BY <4>1 DEF RemovalOf
    <3>5. /\ Len(pend2[l]) \in Nat /\ Len(pend2[l]) <= Len(pend[l])
          /\ st2[l] \in Nat /\ st2[l] <= Len(pend2[l])
      BY <1>5, <3>3, <3>4
    <3>6. ASSUME NEW i \in 1 .. Len(pend2[l])
          PROVE  pend2[l][i] # o /\ \E j \in 1 .. Len(pend[l]) : pend2[l][i] = pend[l][j]
      <4> DEFINE j == IF i < k THEN i ELSE i + 1
      <4>1. j \in 1 .. Len(pend[l]) /\ j # k /\ pend2[l][i] = pend[l][j]
        BY <1>5, <3>4
      <4> QED BY <4>1, <1>5, <3>1 DEF Distinct
    <3>7. ASSUME NEW j \in 1 .. Len(pend[l]), pend[l][j] # o
          PROVE  \E i \in 1 .. Len(pend2[l]) : pend2[l][i] = pend[l][j]
      <4>1. j # k
        BY <3>1, <3>7
      <4>2. CASE j < k
        <5>1. j \in 1 .. Len(pend2[l]) /\ pend2[l][j] = pend[l][j]
          BY <1>5, <3>4, <4>2
        <5> QED BY <5>1
      <4>3. CASE j > k
        <5>1. j - 1 \in 1 .. Len(pend2[l]) /\ ~(j - 1 < k) /\ (j - 1) + 1 = j
          BY <1>5, <3>4, <4>3
        <5>2. pend2[l][j - 1] = pend[l][j]
          BY <3>4, <5>1
        <5> QED BY <5>1, <5>2
      <4> QED BY <1>5, <4>1, <4>2, <4>3
    <3> QED BY <3>4, <3>5, <3>6, <3>7
  <2> QED BY <2>3, <2>4
<1> HIDE DEF act2, pend2, st2, pcs2
<1>8. \A m \in Lane : m # l => pend2[m] = pend[m] /\ st2[m] = st[m]
  BY <1>4
<1>9. ASSUME NEW m \in Lane PROVE LaneOk(m, act2, pend2, st2)
  <2>1. LaneOk(m, act, pend, st)
    BY <1>1
  <2>2. act2[m] \in SUBSET Op /\ Cardinality(act2[m]) <= Limit[m]
    <3>1. IsFiniteSet(act[m]) /\ act[m] \in SUBSET Op /\ Cardinality(act[m]) \in Nat
          /\ Cardinality(act[m]) <= Limit[m] /\ Limit[m] \in Nat
      BY <2>1, OpAssumption, LimitAssumption, FS_Subset, FS_CardinalityType DEF LaneOk
    <3>2. act2[m] \in SUBSET act[m]
      BY <1>3
    <3>3. IsFiniteSet(act2[m]) /\ Cardinality(act2[m]) <= Cardinality(act[m])
      BY <3>1, <3>2, FS_Subset
    <3>4. Cardinality(act2[m]) \in Nat
      BY <3>3, FS_CardinalityType
    <3> QED BY <3>1, <3>2, <3>3, <3>4
  <2>3. CASE m = l
    BY <2>2, <2>3, <1>5, <1>7 DEF LaneOk
  <2>4. CASE m # l
    BY <2>1, <2>2, <2>4, <1>8 DEF LaneOk
  <2> QED BY <2>3, <2>4
<1>10. Typed(act2, pend2, st2, pcs2, ln)
  <2>1. \A m \in Lane : pend2[m] \in Seq(Op) /\ st2[m] \in Nat
    BY <1>1, <1>7, <1>8
  <2>2. pend2 \in [Lane -> Seq(Op)]
    BY <1>1, <2>1 DEF pend2
  <2>3. st2 \in [Lane -> Nat]
    BY <1>1, <2>1 DEF st2
  <2> QED BY <1>1, <1>3, <2>2, <2>3 DEF Typed
<1>11. Queued(pend2, pcs2, ln)
  <2>1. ASSUME NEW m \in Lane, NEW i \in 1 .. Len(pend2[m])
        PROVE  pcs2[pend2[m][i]] = "waiting" /\ ln[pend2[m][i]] = m
    <3>1. CASE m = l
      <4>1. PICK j \in 1 .. Len(pend[l]) : pend2[l][i] = pend[l][j]
        BY <3>1, <1>7
      <4>2. pend2[l][i] # o
        BY <3>1, <1>7
      <4> QED BY <3>1, <4>1, <4>2, <1>1, <1>3, <1>6
    <3>2. CASE m # l
      <4>1. pend2[m][i] = pend[m][i] /\ i \in 1 .. Len(pend[m])
        BY <3>2, <1>8
      <4>2. pend[m][i] # o
        BY <3>2, <4>1, <1>1
      <4> QED BY <4>1, <4>2, <1>1, <1>3, <1>6
    <3> QED BY <3>1, <3>2
  <2>2. ASSUME NEW q \in Op, pcs2[q] = "waiting"
        PROVE  \E i \in 1 .. Len(pend2[ln[q]]) : pend2[ln[q]][i] = q
    <3>1. q # o /\ pcs[q] = "waiting" /\ ln[q] \in Lane
      BY <2>2, <1>1, <1>3
    <3>2. PICK j \in 1 .. Len(pend[ln[q]]) : pend[ln[q]][j] = q
      BY <3>1, <1>1
    <3>3. CASE ln[q] = l
      BY <3>1, <3>2, <3>3, <1>7
    <3>4. CASE ln[q] # l
      BY <3>1, <3>2, <3>4, <1>8
    <3> QED BY <3>3, <3>4
  <2> QED BY <2>1, <2>2 DEF Queued
<1>12. Owned(act2, pcs2, ln)
  <2>1. \A q \in Op : pcs2[q] # "idle" => ln[q] \in Lane
    BY <1>1, <1>3
  <2>2. ASSUME NEW m \in Lane PROVE act2[m] = {q \in Op : ln[q] = m /\ pcs2[q] \in Holding}
    <3>1. "idle" \notin Holding /\ act[m] = {q \in Op : ln[q] = m /\ pcs[q] \in Holding}
      BY <1>1 DEF Holding
    <3>2. pcs2[o] = "idle" /\ \A q \in Op : q # o => pcs2[q] = pcs[q]
      BY <1>3
    <3>3. CASE m = l
      BY <3>1, <3>2, <3>3, <1>3
    <3>4. CASE m # l
      BY <3>1, <3>2, <3>4, <1>3
    <3> QED BY <3>3, <3>4
  <2> QED BY <2>1, <2>2 DEF Owned
<1> QED
  BY <1>9, <1>10, <1>11, <1>12 DEF Consistent, act2, pend2, st2, pcs2

-----------------------------------------------------------------------------
(* The inductive invariant.                                                *)

Shape ==
    /\ key \in [Op -> Account \cup {NoAccount}]
    /\ parent \in [Op -> Op \cup {NoOp}]
    /\ interrupted \in SUBSET Op
    /\ borrow \in [Op -> {"none", "runtime", "control"}]
    /\ lease \in SUBSET Op
    /\ thread \in SUBSET Op
    /\ drained \in BOOLEAN
    /\ stop \in {"serving", "draining", "stopped"}

\* Connections, leases and threads are those of operations inside their body or
\* on their way out of it.
HeldByOwners ==
    \A o \in Op : borrow[o] # "none" \/ o \in lease \/ o \in thread =>
        pc[o] \in {"running", "draining", "stranded"}

StoppedMeansEmpty == stop = "stopped" => Empty(active, pending)

\* None of the properties is inductive by itself: promotion needs to know who is
\* in the queues, and shutdown who holds what.
IInv ==
    /\ Shape
    /\ Consistent(active, pending, stale, pc, lane)
    /\ OneOperationPerAccount
    /\ NoIdleSlotWhileWaiting
    /\ DrainedMeansEmpty
    /\ StoppedMeansEmpty
    /\ HeldByOwners

\* Idle operations and empty lanes satisfy it.
LEMMA InitIInv == Init => IInv
<1> SUFFICES ASSUME Init PROVE IInv
  OBVIOUS
<1> USE DEF Init
<1>1. Shape /\ DrainedMeansEmpty /\ StoppedMeansEmpty /\ HeldByOwners /\ NoIdleSlotWhileWaiting
      /\ OneOperationPerAccount
  BY DEF Shape, DrainedMeansEmpty, StoppedMeansEmpty, HeldByOwners, NoIdleSlotWhileWaiting,
     OneOperationPerAccount, Empty, Holding
<1>2. <<>> \in Seq(Op) /\ Len(<<>>) = 0
  BY EmptySeq
<1>3. Typed(active, pending, stale, pc, lane)
  BY <1>2 DEF Typed
<1>4. ASSUME NEW l \in Lane PROVE LaneOk(l, active, pending, stale)
  <2>1. Cardinality({}) = 0 /\ Limit[l] \in Nat /\ MaxPending[l] \in Nat
    BY FS_EmptySet, LimitAssumption
  <2> QED BY <1>2, <2>1 DEF LaneOk, Distinct
<1>5. Queued(pending, pc, lane)
  BY <1>2 DEF Queued
<1>6. Owned(active, pc, lane)
  BY DEF Owned, Holding
<1> QED
  BY <1>1, <1>3, <1>4, <1>5, <1>6 DEF IInv, Consistent

\* Leaving a lane, with what the owner held given back.
LEMMA LeaveIInv ==
    ASSUME NEW o \in Op, IInv, Leave(o), pc[o] # "idle",
           borrow[o] = "none", o \notin lease, o \notin thread
    PROVE  IInv'
<1> DEFINE l == lane[o]
           act == Vacated(o)
           pend == [pending EXCEPT ![l] = Without(@, o)]
           st == [stale EXCEPT ![l] = IF o \in TimedOut(l, pending, stale) THEN @ - 1 ELSE @]
           pcs == [pc EXCEPT ![o] = "idle"]
           L == {l}
<1>1. l \in Lane
  BY DEF IInv, Consistent, Owned
<1>2. Consistent(act, pend, st, pcs, lane)
  BY Departure DEF IInv, Vacated
<1>3. Promoted(L, act, pend, pcs, lane, PromotedActive(L, act, pend, st),
          PromotedPending(L, act, pend, st), PromotedStale(L, st), PromotedPc(L, act, pend, st, pcs))
  <2> HIDE DEF act, pend, st, pcs
  <2> QED BY <1>1, <1>2, Promotion
<1>4. /\ active' = PromotedActive(L, act, pend, st)
      /\ pending' = PromotedPending(L, act, pend, st)
      /\ stale' = PromotedStale(L, st)
      /\ pc' = PromotedPc(L, act, pend, st, pcs)
      /\ lane' = [lane EXCEPT ![o] = NoLane]
      /\ key' = [key EXCEPT ![o] = NoAccount]
      /\ parent' = [parent EXCEPT ![o] = NoOp]
      /\ interrupted' = interrupted \ {o}
      /\ drained' = (drained \/ Empty(active', pending'))
      /\ UNCHANGED <<borrow, lease, thread, stop>>
  BY DEF Leave, PromotedOnLeaving, DrainedOnLeaving, resources
<1>5. pcs[o] = "idle" /\ \A q \in Op : q # o => pcs[q] = pc[q]
  BY DEF IInv, Consistent, Typed
<1>6. Empty(active, pending) => Empty(act, pend)
  <2> SUFFICES ASSUME Empty(active, pending) PROVE Empty(act, pend)
    OBVIOUS
  <2>1. ToSet(<<>>) = {}
    BY DEF ToSet
  <2> QED BY <2>1 DEF Empty, Vacated, Without, IInv, Consistent, Typed
<1>7. \A m \in Lane : m # l => act[m] = active[m] /\ pend[m] = pending[m]
  BY DEF Vacated, IInv, Consistent, Typed
<1> HIDE DEF act, pend, st, pcs
<1>8. Promoted(L, act, pend, pcs, lane, active', pending', stale', pc')
  BY <1>3, <1>4
<1>9. /\ pc'[o] = "idle"
      /\ \A q \in Op : q # o => \/ pc'[q] = pc[q]
                                \/ pc[q] = "waiting" /\ pc'[q] \in {"granted", "failed"}
  <2>1. \A q \in Op : \/ pc'[q] = pcs[q]
                      \/ pcs[q] = "waiting" /\ pc'[q] \in {"granted", "failed"}
    BY <1>8 DEF Promoted
  <2>2. pc'[o] = "idle"
    BY <2>1, <1>5
  <2> QED BY <1>5, <2>1, <2>2
<1>10. Consistent(active', pending', stale', pc', lane')
  <2>1. Consistent(active', pending', stale', pc', lane)
    BY <1>8 DEF Promoted
  <2> QED BY <2>1, <1>4, <1>9, Relabel
<1>11. Shape'
  <2>1. lane' \in [Op -> Lane \cup {NoLane}]
    BY <1>10 DEF Consistent, Typed
  <2> QED BY <1>4 DEF IInv, Shape
<1>12. OneOperationPerAccount'
  <2> SUFFICES ASSUME NEW p \in Op, NEW q \in Op,
                      p # q /\ key'[p] # NoAccount /\ key'[p] = key'[q],
                      pc'[p] \in Holding \cup {"waiting"} /\ pc'[q] \in Holding \cup {"waiting"}
               PROVE  lane'[p] # lane'[q] /\ ~({lane'[p], lane'[q]} \subseteq SharedLanes)
    BY DEF OneOperationPerAccount
  <2>1. p # o /\ q # o
    BY <1>9 DEF Holding
  <2>2. key[p] = key'[p] /\ key[q] = key'[q] /\ lane[p] = lane'[p] /\ lane[q] = lane'[q]
    BY <2>1, <1>4 DEF IInv, Shape, Consistent, Typed
  <2>3. pc[p] \in Holding \cup {"waiting"} /\ pc[q] \in Holding \cup {"waiting"}
    BY <2>1, <1>9
  <2> QED BY <2>2, <2>3 DEF IInv, OneOperationPerAccount
<1>13. NoIdleSlotWhileWaiting'
  <2> SUFFICES ASSUME NEW m \in Lane, pending'[m] # <<>> PROVE Cardinality(active'[m]) >= Limit[m]
    BY DEF NoIdleSlotWhileWaiting
  <2>1. CASE m = l
    BY <2>1, <1>8 DEF Promoted
  <2>2. CASE m # l
    BY <2>2, <1>7, <1>8 DEF Promoted, IInv, NoIdleSlotWhileWaiting
  <2> QED BY <2>1, <2>2
<1>14. DrainedMeansEmpty' /\ StoppedMeansEmpty'
  <2>1. Empty(active, pending) => Empty(active', pending')
    BY <1>6, <1>8 DEF Promoted
  <2> QED BY <2>1, <1>4 DEF IInv, DrainedMeansEmpty, StoppedMeansEmpty
<1>15. HeldByOwners'
  BY <1>4, <1>9 DEF IInv, HeldByOwners
<1> QED
  BY <1>10, <1>11, <1>12, <1>13, <1>14, <1>15 DEF IInv

\* Asking for a slot: whoever enters or queues finds no other operation of its
\* account in the lanes that exclude each other.
LEMMA AcquireIInv ==
    ASSUME NEW o \in Op, NEW l \in Lane, NEW a \in Account \cup {NoAccount},
           NEW p \in Op \cup {NoOp}, IInv, Acquire(o, l, a, p)
    PROVE  IInv'
<1> DEFINE L == ExclusionLanes(l)
           act == PromotedActive(L, active, pending, stale)
           pend == PromotedPending(L, active, pending, stale)
           st == PromotedStale(L, stale)
           pcs == PromotedPc(L, active, pending, stale, pc)
           busy == AccountOccupied(l, a, act, pend)
           ln == [lane EXCEPT ![o] = l]
           enters ==
              /\ ~busy /\ CanEnter(l, act, pend)
              /\ active' = [act EXCEPT ![l] = @ \cup {o}]
              /\ pending' = pend
              /\ pc' = [pcs EXCEPT ![o] = "running"]
              /\ drained' = FALSE /\ Start(o, l, a, p)
           queues_up ==
              /\ ~busy /\ ~CanEnter(l, act, pend) /\ Len(pend[l]) < MaxPending[l]
              /\ active' = act
              /\ pending' = [pend EXCEPT ![l] = Append(@, o)]
              /\ pc' = [pcs EXCEPT ![o] = "waiting"]
              /\ drained' = FALSE /\ Start(o, l, a, p)
           refused ==
              /\ active' = act /\ pending' = pend /\ pc' = pcs
              /\ UNCHANGED <<drained, lane, key, parent>>
<1>1. L \in SUBSET Lane /\ l \in L /\ (L = {l} \/ (l \in SharedLanes /\ L = SharedLanes))
      /\ (l \in SharedLanes => L = SharedLanes)
  BY SharedAssumption DEF ExclusionLanes
<1>2. /\ pc[o] = "idle" /\ stop = "serving" /\ stale' = st
      /\ UNCHANGED <<interrupted, borrow, lease, thread, stop>>
      /\ enters \/ queues_up \/ refused
  BY DEF Acquire, DrainedOnEntry, identity, resources
<1>3. Promoted(L, active, pending, pc, lane, act, pend, st, pcs)
  BY <1>1, Promotion DEF IInv
<1> HIDE DEF L, act, pend, st, pcs
<1>4. /\ Consistent(act, pend, st, pcs, lane)
      /\ \A q \in Op : \/ pcs[q] = pc[q]
                       \/ pc[q] = "waiting" /\ pcs[q] \in {"granted", "failed"}
      /\ Empty(active, pending) => Empty(act, pend)
  BY <1>3 DEF Promoted
<1>5. pcs[o] = "idle"
  BY <1>2, <1>4
<1>6. ASSUME NEW m \in Lane, pend[m] # <<>> PROVE Cardinality(act[m]) >= Limit[m]
  BY <1>3, <1>6 DEF Promoted, IInv, NoIdleSlotWhileWaiting
<1>7. ASSUME NEW q \in Op, pcs[q] \in Holding \cup {"waiting"}
      PROVE  pc[q] \in Holding \cup {"waiting"}
  BY <1>4, <1>7
<1>8. ASSUME NEW q \in Op, borrow[q] # "none" \/ q \in lease \/ q \in thread
      PROVE  q # o /\ pcs[q] \in {"running", "draining", "stranded"}
  <2>1. pc[q] \in {"running", "draining", "stranded"}
    BY <1>8 DEF IInv, HeldByOwners
  <2> QED BY <2>1, <1>2, <1>4
<1>9. StoppedMeansEmpty'
  BY <1>2 DEF StoppedMeansEmpty
\* The others of the account are in lanes that do not exclude l.
<1>10. ASSUME NEW q \in Op, ~busy, a # NoAccount, key[q] = a,
              pcs[q] \in Holding \cup {"waiting"}
       PROVE  lane[q] # l /\ ~({l, lane[q]} \subseteq SharedLanes)
  <2>1. lane[q] \in Lane
    BY <1>4, <1>10 DEF Consistent, Owned, Holding
  <2>2. q \in act[lane[q]] \cup ToSet(pend[lane[q]])
    <3>1. CASE pcs[q] \in Holding
      BY <3>1, <2>1, <1>4 DEF Consistent, Owned
    <3>2. CASE pcs[q] = "waiting"
      <4>1. PICK i \in 1 .. Len(pend[lane[q]]) : pend[lane[q]][i] = q
        BY <3>2, <1>4 DEF Consistent, Queued
      <4>2. pend[lane[q]] \in Seq(Op)
        BY <2>1, <1>4 DEF Consistent, LaneOk
      <4>3. DOMAIN pend[lane[q]] = 1 .. Len(pend[lane[q]])
        BY <4>2, LenProperties
      <4> QED BY <4>1, <4>3 DEF ToSet
    <3> QED BY <3>1, <3>2, <1>10
  <2>3. lane[q] \notin L
    BY <2>2, <1>10 DEF AccountOccupied, L
  <2> QED BY <2>3, <1>1
<1>11. ASSUME Start(o, l, a, p)
       PROVE  /\ lane' = ln /\ key' = [key EXCEPT ![o] = a] /\ parent' = [parent EXCEPT ![o] = p]
              /\ lane'[o] = l /\ key'[o] = a
              /\ \A q \in Op : q # o => lane'[q] = lane[q] /\ key'[q] = key[q]
              /\ Consistent(act, pend, st, pcs, lane') /\ Shape'
  <2>1. lane' = ln /\ key' = [key EXCEPT ![o] = a] /\ parent' = [parent EXCEPT ![o] = p]
    BY <1>11 DEF Start
  <2>2. lane \in [Op -> Lane \cup {NoLane}]
    BY <1>4 DEF Consistent, Typed
  <2>3. Consistent(act, pend, st, pcs, ln)
    BY <1>4, <1>5, Relabel
  <2>4. drained' \in BOOLEAN
    BY <1>2 DEF IInv, Shape
  <2>5. Shape'
    BY <1>2, <2>1, <2>4 DEF IInv, Shape
  <2> QED BY <2>1, <2>2, <2>3, <2>5 DEF IInv, Shape
<1>12. ASSUME Start(o, l, a, p), ~busy,
              \A q \in Op : q # o => pc'[q] = pcs[q]
       PROVE  OneOperationPerAccount'
  <2> SUFFICES ASSUME NEW q \in Op, NEW r \in Op,
                      q # r /\ key'[q] # NoAccount /\ key'[q] = key'[r],
                      pc'[q] \in Holding \cup {"waiting"} /\ pc'[r] \in Holding \cup {"waiting"}
               PROVE  lane'[q] # lane'[r] /\ ~({lane'[q], lane'[r]} \subseteq SharedLanes)
    BY DEF OneOperationPerAccount
  <2>1. CASE q = o
    BY <2>1, <1>10, <1>11, <1>12
  <2>2. CASE r = o
    BY <2>2, <1>10, <1>11, <1>12
  <2>3. CASE q # o /\ r # o
    BY <2>3, <1>7, <1>11, <1>12 DEF IInv, OneOperationPerAccount
  <2> QED BY <2>1, <2>2, <2>3
<1>13. CASE enters
  <2>1. pend[l] = <<>> /\ Cardinality(act[l]) < Limit[l]
    BY <1>13 DEF CanEnter
  <2>2. Consistent(active', pending', stale', pc', lane')
    BY <1>2, <1>5, <1>11, <1>13, <2>1, SlotTaken
  <2>3. pc'[o] = "running" /\ \A q \in Op : q # o => pc'[q] = pcs[q]
    BY <1>4, <1>13 DEF Consistent, Typed
  <2>4. OneOperationPerAccount' /\ Shape'
    BY <1>11, <1>12, <1>13, <2>3
  <2>5. NoIdleSlotWhileWaiting'
    BY <1>4, <1>6, <1>13, <2>1 DEF NoIdleSlotWhileWaiting, Consistent, Typed
  <2>6. HeldByOwners'
    BY <1>2, <1>8, <2>3 DEF HeldByOwners
  <2> QED BY <1>9, <1>13, <2>2, <2>4, <2>5, <2>6 DEF IInv, DrainedMeansEmpty
<1>14. CASE queues_up
  <2>1. Cardinality(act[l]) >= Limit[l]
    <3>1. Cardinality(act[l]) \in Nat /\ Limit[l] \in Nat
      BY <1>4, OpAssumption, LimitAssumption, FS_Subset, FS_CardinalityType
         DEF Consistent, LaneOk
    <3> QED BY <1>6, <1>14, <3>1 DEF CanEnter
  <2>2. Consistent(active', pending', stale', pc', lane')
    BY <1>2, <1>5, <1>11, <1>14, TicketQueued
  <2>3. pc'[o] = "waiting" /\ \A q \in Op : q # o => pc'[q] = pcs[q]
    BY <1>4, <1>14 DEF Consistent, Typed
  <2>4. OneOperationPerAccount' /\ Shape'
    BY <1>11, <1>12, <1>14, <2>3
  <2>5. NoIdleSlotWhileWaiting'
    BY <1>4, <1>6, <1>14, <2>1 DEF NoIdleSlotWhileWaiting, Consistent, Typed
  <2>6. HeldByOwners'
    BY <1>2, <1>8, <2>3 DEF HeldByOwners
  <2> QED BY <1>9, <1>14, <2>2, <2>4, <2>5, <2>6 DEF IInv, DrainedMeansEmpty
<1>15. CASE refused
  <2>1. Consistent(active', pending', stale', pc', lane')
    BY <1>2, <1>4, <1>15
  <2>2. OneOperationPerAccount'
    BY <1>7, <1>15 DEF IInv, OneOperationPerAccount
  <2>3. NoIdleSlotWhileWaiting'
    BY <1>6, <1>15 DEF NoIdleSlotWhileWaiting
  <2>4. HeldByOwners' /\ Shape' /\ DrainedMeansEmpty'
    BY <1>2, <1>4, <1>8, <1>15 DEF IInv, HeldByOwners, Shape, DrainedMeansEmpty
  <2> QED BY <1>9, <2>1, <2>2, <2>3, <2>4 DEF IInv
<1> QED
  BY <1>2, <1>13, <1>14, <1>15

\* An owner goes on with its slot, from one point of its body to another.
LEMMA OwnerIInv ==
    ASSUME NEW o \in Op, NEW x \in Holding, IInv, pc[o] \in Holding,
           pc' = [pc EXCEPT ![o] = x],
           UNCHANGED <<lane, key, parent, active, pending, stale, interrupted,
                       borrow, lease, thread, drained, stop>>,
           x = "granted" => pc[o] = "granted"
    PROVE  IInv'
<1>1. Consistent(active', pending', stale', pc', lane')
  BY OwnerMoves DEF IInv
<1>2. pc'[o] = x /\ \A q \in Op : q # o => pc'[q] = pc[q]
  BY DEF IInv, Consistent, Typed
<1>3. \A q \in Op : pc'[q] \in Holding \cup {"waiting"} => pc[q] \in Holding \cup {"waiting"}
  BY <1>2
<1>4. OneOperationPerAccount'
  BY <1>3 DEF IInv, OneOperationPerAccount
<1>5. HeldByOwners'
  BY <1>2 DEF IInv, HeldByOwners, Holding
<1>6. Shape' /\ NoIdleSlotWhileWaiting' /\ DrainedMeansEmpty' /\ StoppedMeansEmpty'
  BY DEF IInv, Shape, NoIdleSlotWhileWaiting, DrainedMeansEmpty, StoppedMeansEmpty, Empty
<1> QED
  BY <1>1, <1>4, <1>5, <1>6 DEF IInv

\* What leaves the queues and the owners alone.
LEMMA AsideIInv ==
    ASSUME IInv, UNCHANGED <<pc, lane, key, parent, active, pending, stale, drained, stop>>,
           interrupted' \in SUBSET Op, borrow' \in [Op -> {"none", "runtime", "control"}],
           lease' \in SUBSET Op, thread' \in SUBSET Op, HeldByOwners'
    PROVE  IInv'
<1>1. Consistent(active', pending', stale', pc', lane')
  BY DEF IInv
<1>2. Shape' /\ OneOperationPerAccount' /\ NoIdleSlotWhileWaiting' /\ DrainedMeansEmpty' /\ StoppedMeansEmpty'
  BY DEF IInv, Shape, OneOperationPerAccount, NoIdleSlotWhileWaiting, DrainedMeansEmpty,
     StoppedMeansEmpty, Empty
<1> QED
  BY <1>1, <1>2 DEF IInv

\* Shutdown refuses every ticket and leaves the owners alone.
LEMMA ShutdownIInv == IInv /\ Shutdown => IInv'
<1> SUFFICES ASSUME IInv, Shutdown PROVE IInv'
  OBVIOUS
<1>1. /\ pc \in [Op -> Holding \cup {"idle", "waiting", "failed"}]
      /\ \A m \in Lane : LaneOk(m, active, pending, stale)
      /\ \A q \in Op : pc[q] # "idle" => lane[q] \in Lane
      /\ \A m \in Lane : active[m] = {q \in Op : lane[q] = m /\ pc[q] \in Holding}
      /\ active \in [Lane -> SUBSET Op] /\ lane \in [Op -> Lane \cup {NoLane}]
  BY DEF IInv, Consistent, Typed, Owned
<1>2. /\ stop' = "draining" /\ drained' = (drained \/ Empty(active, pending'))
      /\ \A q \in Op : pc'[q] = IF pc[q] = "waiting" THEN "failed" ELSE pc[q]
      /\ \A m \in Lane : pending'[m] = <<>> /\ stale'[m] = 0
      /\ UNCHANGED <<lane, key, parent, active, interrupted, borrow, lease, thread>>
  BY DEF Shutdown, identity, resources
<1>3. Typed(active', pending', stale', pc', lane')
  BY <1>1, EmptySeq DEF Shutdown, identity, Typed
<1>4. ASSUME NEW m \in Lane PROVE LaneOk(m, active', pending', stale')
  <2>1. LaneOk(m, active, pending, stale) /\ MaxPending[m] \in Nat
    BY <1>1, LimitAssumption
  <2>2. <<>> \in Seq(Op) /\ Len(<<>>) = 0 /\ pending'[m] = <<>> /\ stale'[m] = 0
    BY <1>2, EmptySeq
  <2> QED BY <2>1, <2>2, <1>2 DEF LaneOk, Distinct
<1>5. Queued(pending', pc', lane')
  <2>1. Len(<<>>) = 0
    OBVIOUS
  <2> QED BY <1>2, <2>1 DEF Queued
<1>6. Owned(active', pc', lane')
  BY <1>1, <1>2 DEF Owned, Holding
<1>7. OneOperationPerAccount'
  <2>1. \A q \in Op : pc'[q] \in Holding \cup {"waiting"} => pc[q] \in Holding \cup {"waiting"}
    BY <1>2
  <2> QED BY <2>1, <1>2 DEF IInv, OneOperationPerAccount
<1>8. NoIdleSlotWhileWaiting' /\ StoppedMeansEmpty'
  BY <1>2 DEF NoIdleSlotWhileWaiting, StoppedMeansEmpty
<1>9. HeldByOwners' /\ Shape'
  BY <1>2 DEF IInv, HeldByOwners, Shape
<1>10. DrainedMeansEmpty'
  BY <1>2 DEF IInv, DrainedMeansEmpty, Empty
<1> QED
  BY <1>3, <1>4, <1>5, <1>6, <1>7, <1>8, <1>9, <1>10 DEF IInv, Consistent

\* Every step keeps the invariant.
LEMMA NextIInv == IInv /\ [Next]_vars => IInv'
<1> SUFFICES ASSUME IInv, [Next]_vars PROVE IInv'
  OBVIOUS
<1> USE DEF identity, queues, resources
<1>1. /\ Shape
      /\ pc \in [Op -> Holding \cup {"idle", "waiting", "failed"}]
      /\ \A q \in Op : borrow[q] # "none" \/ q \in lease \/ q \in thread =>
            pc[q] \in {"running", "draining", "stranded"}
  BY DEF IInv, Consistent, Typed, HeldByOwners
<1>2. ASSUME NEW o \in Op, NEW l \in Lane, NEW a \in Account \cup {NoAccount},
             NEW p \in Op \cup {NoOp}, Acquire(o, l, a, p)
      PROVE  IInv'
  BY <1>2, AcquireIInv
<1>3. ASSUME NEW l \in Lane, Expire(l) PROVE IInv'
  <2>1. /\ stale[l] < Len(pending[l]) /\ stale' = [stale EXCEPT ![l] = @ + 1]
        /\ UNCHANGED <<pc, lane, key, parent, active, pending, interrupted, borrow, lease, thread, drained, stop>>
    BY <1>3 DEF Expire
  <2>2. Typed(active, pending, stale, pc, lane) /\ \A m \in Lane : LaneOk(m, active, pending, stale)
    BY DEF IInv, Consistent
  <2>3. ASSUME NEW m \in Lane PROVE LaneOk(m, active', pending', stale')
    <3>1. LaneOk(m, active, pending, stale) /\ Len(pending[m]) \in Nat
      BY <2>2, LenProperties DEF LaneOk
    <3>2. stale'[m] \in 0 .. Len(pending[m])
      BY <2>1, <2>2, <3>1 DEF LaneOk, Typed
    <3> QED BY <2>1, <3>1, <3>2 DEF LaneOk
  <2>4. Typed(active', pending', stale', pc', lane')
    BY <2>1, <2>2 DEF Typed
  <2>5. Queued(pending', pc', lane') /\ Owned(active', pc', lane')
    BY <2>1 DEF IInv, Consistent
  <2>6. Shape' /\ OneOperationPerAccount' /\ NoIdleSlotWhileWaiting' /\ DrainedMeansEmpty'
        /\ StoppedMeansEmpty' /\ HeldByOwners'
    BY <2>1 DEF IInv, Shape, OneOperationPerAccount, NoIdleSlotWhileWaiting, DrainedMeansEmpty,
       StoppedMeansEmpty, HeldByOwners, Empty
  <2> QED BY <2>3, <2>4, <2>5, <2>6 DEF IInv, Consistent
<1>4. ASSUME NEW o \in Op, TimerFires(o) \/ Cancel(o) PROVE IInv'
  <2>1. HeldByOwners'
    BY <1>4 DEF TimerFires, Cancel, IInv, HeldByOwners
  <2> QED BY <1>1, <1>4, <2>1, AsideIInv DEF TimerFires, Cancel, Shape
<1>5. ASSUME NEW o \in Op, Enter(o) PROVE IInv'
  BY <1>1, <1>5, OwnerIInv DEF Enter, Holding
<1>6. ASSUME NEW o \in Op, EndBody(o) PROVE IInv'
  BY <1>1, <1>6, OwnerIInv DEF EndBody, Holding
<1>7. ASSUME NEW o \in Op, Strand(o) PROVE IInv'
  BY <1>1, <1>7, OwnerIInv DEF Strand, AtBody, Holding
<1>8. ASSUME NEW o \in Op, Abandon(o) PROVE IInv'
  BY <1>1, <1>8, LeaveIInv DEF Abandon
<1>9. ASSUME NEW o \in Op, Release(o) PROVE IInv'
  BY <1>9, LeaveIInv DEF Release
<1>10. ASSUME NEW o \in Op, NEW role \in {"runtime", "control"}, Borrow(o, role) PROVE IInv'
  <2>1. HeldByOwners'
    BY <1>1, <1>10 DEF Borrow, AtBody, HeldByOwners, Shape
  <2> QED BY <1>1, <1>10, <2>1, AsideIInv DEF Borrow, Shape
<1>11. ASSUME NEW o \in Op, ReturnBorrow(o) PROVE IInv'
  <2>1. HeldByOwners'
    BY <1>1, <1>11 DEF ReturnBorrow, HeldByOwners, Shape
  <2> QED BY <1>1, <1>11, <2>1, AsideIInv DEF ReturnBorrow, Shape
<1>12. ASSUME NEW o \in Op, TakeLease(o) PROVE IInv'
  <2>1. HeldByOwners'
    BY <1>1, <1>12 DEF TakeLease, WantsLease, AtBody, HeldByOwners
  <2> QED BY <1>1, <1>12, <2>1, AsideIInv DEF TakeLease, Shape
<1>13. ASSUME NEW o \in Op, DropLease(o) PROVE IInv'
  <2>1. HeldByOwners'
    BY <1>1, <1>13 DEF DropLease, HeldByOwners
  <2> QED BY <1>1, <1>13, <2>1, AsideIInv DEF DropLease, Shape
<1>14. ASSUME NEW o \in Op, StartThread(o) PROVE IInv'
  <2>1. HeldByOwners'
    BY <1>1, <1>14 DEF StartThread, AtBody, HeldByOwners
  <2> QED BY <1>1, <1>14, <2>1, AsideIInv DEF StartThread, Shape
<1>15. ASSUME NEW o \in Op, ThreadReturns(o) PROVE IInv'
  <2>1. HeldByOwners'
    BY <1>1, <1>15 DEF ThreadReturns, HeldByOwners
  <2> QED BY <1>1, <1>15, <2>1, AsideIInv DEF ThreadReturns, Shape
<1>16. CASE Shutdown
  BY <1>16, ShutdownIInv
<1>17. CASE ShutdownReturns
  <2>1. /\ drained /\ stop' = "stopped"
        /\ UNCHANGED <<pc, lane, key, parent, active, pending, stale, interrupted,
                       borrow, lease, thread, drained>>
    BY <1>17 DEF ShutdownReturns
  <2>2. Consistent(active', pending', stale', pc', lane')
    BY <2>1 DEF IInv
  <2>3. Empty(active', pending')
    BY <2>1 DEF IInv, DrainedMeansEmpty, Empty
  <2>4. Shape' /\ OneOperationPerAccount' /\ NoIdleSlotWhileWaiting' /\ HeldByOwners'
    BY <2>1 DEF IInv, Shape, OneOperationPerAccount, NoIdleSlotWhileWaiting, HeldByOwners
  <2> QED BY <2>2, <2>3, <2>4 DEF IInv, DrainedMeansEmpty, StoppedMeansEmpty
<1>18. CASE UNCHANGED vars
  <2>1. HeldByOwners'
    BY <1>18 DEF vars, IInv, HeldByOwners
  <2> QED BY <1>1, <1>18, <2>1, AsideIInv DEF vars, Shape
<1> QED
  BY <1>2, <1>3, <1>4, <1>5, <1>6, <1>7, <1>8, <1>9, <1>10, <1>11, <1>12, <1>13, <1>14,
     <1>15, <1>16, <1>17, <1>18 DEF Next

-----------------------------------------------------------------------------
(* The theorems.                                                           *)

\* The invariant holds of every behaviour of the manager.
THEOREM Invariance == Spec => []IInv
<1>1. Init => IInv
  BY InitIInv
<1>2. IInv /\ [Next]_vars => IInv'
  BY NextIInv
<1> QED
  BY <1>1, <1>2, PTL DEF Spec

\* Every variable keeps its type; no more tickets are stale than are queued.
THEOREM TypeCorrect == Spec => []TypeOK
<1>1. IInv => TypeOK
  <2> SUFFICES ASSUME IInv PROVE TypeOK
    OBVIOUS
  <2>1. Shape /\ Typed(active, pending, stale, pc, lane)
        /\ \A l \in Lane : LaneOk(l, active, pending, stale)
    BY DEF IInv, Consistent
  <2>2. \A l \in Lane : stale[l] <= Len(pending[l])
    BY <2>1, LenProperties DEF LaneOk
  <2> QED BY <2>1, <2>2 DEF Shape, Typed, TypeOK
<1> QED
  BY <1>1, Invariance, PTL

\* _promote, _acquire and release never give a lane more owners than slots, nor a
\* longer queue than its configuration allows.
THEOREM LimitsKept == Spec => []LaneWithinLimit
<1>1. IInv => LaneWithinLimit
  BY DEF IInv, Consistent, LaneOk, LaneWithinLimit
<1> QED
  BY <1>1, Invariance, PTL

\* No slot leaks and none is taken back early, whichever of grant, timeout,
\* cancellation and shutdown comes first.
THEOREM SlotsKept == Spec => []SlotsMatchOwners
<1>1. IInv => SlotsMatchOwners
  BY DEF IInv, Consistent, Owned, SlotsMatchOwners
<1> QED
  BY <1>1, Invariance, PTL

\* The account check of _acquire, made once before the operation queues, excludes
\* a second operation of the account for as long as the first one stays.
THEOREM OneOperation == Spec => []OneOperationPerAccount
<1>1. IInv => OneOperationPerAccount
  BY DEF IInv
<1> QED
  BY <1>1, Invariance, PTL

\* Every handler that frees a slot offers it: nobody queues before a free slot.
THEOREM NoIdleSlot == Spec => []NoIdleSlotWhileWaiting
<1>1. IInv => NoIdleSlotWhileWaiting
  BY DEF IInv
<1> QED
  BY <1>1, Invariance, PTL

\* The drained event is never set over an owner or a ticket.
THEOREM DrainedRight == Spec => []DrainedMeansEmpty
<1>1. IInv => DrainedMeansEmpty
  BY DEF IInv
<1> QED
  BY <1>1, Invariance, PTL

\* The slot of a blocking call outlives the cancellation of its caller.
THEOREM ThreadsKept == Spec => []ThreadKeepsSlot
<1>1. IInv => ThreadKeepsSlot
  <2> SUFFICES ASSUME IInv, NEW o \in thread
               PROVE  lane[o] # NoLane /\ o \in active[lane[o]]
    BY DEF ThreadKeepsSlot
  <2>1. o \in Op /\ pc[o] \in {"running", "draining", "stranded"}
    BY DEF IInv, Shape, HeldByOwners
  <2>2. lane[o] \in Lane
    BY <2>1 DEF IInv, Consistent, Owned
  <2> QED BY <2>1, <2>2, LaneAssumption DEF IInv, Consistent, Owned, Holding
<1> QED
  BY <1>1, Invariance, PTL

\* Shutdown returns over an empty manager: no owner, connection, lease or thread.
THEOREM ShutdownQuiet == Spec => []StoppedMeansQuiet
<1>1. IInv => StoppedMeansQuiet
  <2> SUFFICES ASSUME IInv, stop = "stopped"
               PROVE  /\ \A o \in Op : pc[o] \in {"idle", "failed"} /\ borrow[o] = "none"
                      /\ lease = {} /\ thread = {}
    BY DEF StoppedMeansQuiet
  <2>1. \A l \in Lane : active[l] = {} /\ pending[l] = <<>>
    BY DEF IInv, StoppedMeansEmpty, Empty
  <2>2. ASSUME NEW o \in Op PROVE pc[o] \in {"idle", "failed"}
    <3>1. pc[o] # "idle" => lane[o] \in Lane
      BY DEF IInv, Consistent, Owned
    <3>2. pc[o] \notin Holding
      BY <2>1, <3>1 DEF IInv, Consistent, Owned, Holding
    <3>3. pc[o] # "waiting"
      <4> SUFFICES ASSUME pc[o] = "waiting" PROVE FALSE
        OBVIOUS
      <4>1. PICK i \in 1 .. Len(pending[lane[o]]) : pending[lane[o]][i] = o
        BY DEF IInv, Consistent, Queued
      <4>2. Len(pending[lane[o]]) = 0
        BY <2>1, <3>1
      <4> QED BY <4>1, <4>2
    <3> QED BY <3>2, <3>3 DEF IInv, Consistent, Typed
  <2>3. \A o \in Op : borrow[o] = "none" /\ o \notin lease /\ o \notin thread
    BY <2>2 DEF IInv, HeldByOwners
  <2> QED BY <2>2, <2>3 DEF IInv, Shape
<1> QED
  BY <1>1, Invariance, PTL

-----------------------------------------------------------------------------
(* Borrows and the pools they come from.                                   *)

\* A connection of a pool is borrowed by the owner of a slot of a lane of that pool.
BorrowsMatchLanes == \A o \in Op : borrow[o] # "none" => OwnsRole(o, borrow[o])

\* Lanes change hands only when their owner has no borrow.
LEMMA BorrowsStep == IInv /\ BorrowsMatchLanes /\ [Next]_vars => BorrowsMatchLanes'
<1> SUFFICES ASSUME IInv, BorrowsMatchLanes, [Next]_vars PROVE BorrowsMatchLanes'
  OBVIOUS
<1> USE DEF identity, queues, resources
<1>1. /\ borrow \in [Op -> {"none", "runtime", "control"}] /\ lane \in [Op -> Lane \cup {NoLane}]
      /\ \A q \in Op : borrow[q] # "none" => pc[q] \in {"running", "draining", "stranded"}
  BY DEF IInv, Shape, Consistent, Typed, HeldByOwners
<1>2. ASSUME NEW o \in Op, borrow[o] = "none", borrow' = borrow,
             \A q \in Op : q # o => lane'[q] = lane[q]
      PROVE  BorrowsMatchLanes'
  BY <1>2 DEF BorrowsMatchLanes, OwnsRole
<1>3. ASSUME borrow' = borrow, lane' = lane PROVE BorrowsMatchLanes'
  BY <1>3 DEF BorrowsMatchLanes, OwnsRole
<1>4. ASSUME NEW o \in Op, NEW l \in Lane, NEW a \in Account \cup {NoAccount},
             NEW p \in Op \cup {NoOp}, Acquire(o, l, a, p)
      PROVE  BorrowsMatchLanes'
  <2>1. pc[o] = "idle" /\ borrow' = borrow /\ (lane' = [lane EXCEPT ![o] = l] \/ lane' = lane)
    BY <1>4 DEF Acquire, Start
  <2> QED BY <2>1, <1>1, <1>2
<1>5. ASSUME NEW o \in Op, Abandon(o) \/ Release(o) PROVE BorrowsMatchLanes'
  <2>1. borrow[o] = "none"
    BY <1>1, <1>5 DEF Abandon, Release
  <2>2. borrow' = borrow /\ lane' = [lane EXCEPT ![o] = NoLane]
    BY <1>5 DEF Abandon, Release, Leave
  <2> QED BY <2>1, <2>2, <1>1, <1>2
<1>6. ASSUME NEW o \in Op, NEW role \in {"runtime", "control"}, Borrow(o, role)
      PROVE  BorrowsMatchLanes'
  BY <1>1, <1>6 DEF Borrow, BorrowsMatchLanes, OwnsRole
<1>7. ASSUME NEW o \in Op, ReturnBorrow(o) PROVE BorrowsMatchLanes'
  BY <1>1, <1>7 DEF ReturnBorrow, BorrowsMatchLanes, OwnsRole
<1>8. ASSUME NEW o \in Op,
             \/ TimerFires(o) \/ Cancel(o) \/ Enter(o) \/ EndBody(o) \/ TakeLease(o)
             \/ DropLease(o) \/ Strand(o) \/ StartThread(o) \/ ThreadReturns(o)
      PROVE  BorrowsMatchLanes'
  BY <1>3, <1>8 DEF TimerFires, Cancel, Enter, EndBody, TakeLease, DropLease, Strand,
     StartThread, ThreadReturns
<1>9. CASE (\E l \in Lane : Expire(l)) \/ Shutdown \/ ShutdownReturns \/ UNCHANGED vars
  BY <1>3, <1>9 DEF Expire, Shutdown, ShutdownReturns, vars
<1> QED
  BY <1>4, <1>5, <1>6, <1>7, <1>8, <1>9 DEF Next

\* The owners in some lanes are no more than the slots of those lanes: each owner of
\* a lane can be given a slot of its own.
LEMMA OwnersFit ==
    ASSUME IInv, NEW L \in SUBSET Lane, NEW S \in SUBSET Op,
           \A o \in S : lane[o] \in L /\ pc[o] \in Holding
    PROVE  /\ Cardinality(S) \in Nat /\ Cardinality(SlotsOf(L)) \in Nat
           /\ Cardinality(S) <= Cardinality(SlotsOf(L))
<1> DEFINE IsSeating(l, g) == g \in Injection(active[l], 1 .. Limit[l])
           seating == [l \in Lane |-> CHOOSE g : IsSeating(l, g)]
           f == [o \in S |-> <<lane[o], seating[lane[o]][o]>>]
<1>1. ASSUME NEW l \in Lane PROVE IsSeating(l, seating[l])
  <2>1. active[l] \in SUBSET Op /\ Cardinality(active[l]) <= Limit[l] /\ Limit[l] \in Nat
    BY LimitAssumption DEF IInv, Consistent, LaneOk
  <2>2. IsFiniteSet(active[l])
    BY <2>1, OpAssumption, FS_Subset
  <2>3. Cardinality(active[l]) \in Nat /\ ExistsBijection(1 .. Cardinality(active[l]), active[l])
    BY <2>2, FS_CardinalityType
  <2>4. ExistsBijection(active[l], 1 .. Cardinality(active[l]))
    BY <2>3, Fun_ExistsBijSymmetric
  <2>5. PICK g : g \in Bijection(active[l], 1 .. Cardinality(active[l]))
    BY <2>4 DEF ExistsBijection
  <2>6. g \in Injection(active[l], 1 .. Limit[l])
    BY <2>1, <2>3, <2>5 DEF Bijection, Injection, IsInjective
  <2>7. \E h : IsSeating(l, h)
    BY <2>6
  <2> HIDE DEF IsSeating
  <2> QED BY <2>7
<1> HIDE DEF seating
<1>2. \A o \in S : lane[o] \in L /\ o \in active[lane[o]]
  BY DEF IInv, Consistent, Owned
<1>3. f \in Injection(S, SlotsOf(L))
  <2>1. ASSUME NEW o \in S PROVE f[o] \in SlotsOf(L)
    <3>1. seating[lane[o]][o] \in 1 .. Limit[lane[o]]
      BY <1>1, <1>2 DEF Injection
    <3> QED BY <3>1, <1>2 DEF SlotsOf
  <2>2. ASSUME NEW o \in S, NEW q \in S, f[o] = f[q] PROVE o = q
    <3>1. lane[o] = lane[q] /\ seating[lane[o]][o] = seating[lane[o]][q]
      BY <2>2
    <3> QED BY <3>1, <1>1, <1>2 DEF Injection, IsInjective
  <2> QED BY <2>1, <2>2 DEF Injection, IsInjective
<1>4. IsFiniteSet(SlotsOf(L))
  <2>1. IsFiniteSet(L)
    BY PoolAssumption, FS_Subset
  <2>2. IsFiniteSet({{l} \X (1 .. Limit[l]) : l \in L})
    <3> DEFINE h == [l \in L |-> {l} \X (1 .. Limit[l])]
    <3>1. h \in Surjection(L, {{l} \X (1 .. Limit[l]) : l \in L})
      BY DEF Surjection
    <3> QED BY <2>1, <3>1, FS_Surjection
  <2>3. ASSUME NEW l \in L PROVE IsFiniteSet({l} \X (1 .. Limit[l]))
    <3>1. 1 \in Int /\ Limit[l] \in Int
      BY LimitAssumption
    <3>2. IsFiniteSet({l}) /\ IsFiniteSet(1 .. Limit[l])
      BY <3>1, FS_Singleton, FS_Interval
    <3> QED BY <3>2, FS_Product
  <2> QED BY <2>2, <2>3, FS_UNION DEF SlotsOf
<1>5. IsFiniteSet(S) /\ Cardinality(S) <= Cardinality(SlotsOf(L))
  BY <1>3, <1>4, FS_Injection
<1> QED
  BY <1>4, <1>5, FS_CardinalityType

\* A borrow never finds its pool exhausted: validate_capacity_config reserves a
\* connection for each slot, and only owners of a slot borrow, one at a time.
THEOREM PoolsAlwaysSuffice == Spec => []PoolsSuffice
<1>1. Init => BorrowsMatchLanes
  BY DEF Init, BorrowsMatchLanes
<1>2. IInv /\ BorrowsMatchLanes => PoolsSuffice
  <2> SUFFICES ASSUME IInv, BorrowsMatchLanes PROVE PoolsSuffice
    OBVIOUS
  <2> DEFINE Of(role) == {o \in Op : borrow[o] = role}
  <2>1. \A o \in Op : borrow[o] # "none" => pc[o] \in Holding
    BY DEF IInv, HeldByOwners, Holding
  <2>2. /\ Cardinality(Of("runtime")) \in Nat /\ Cardinality(SlotsOf(RuntimeLanes)) \in Nat
        /\ Cardinality(Of("runtime")) <= Cardinality(SlotsOf(RuntimeLanes))
    <3>1. \A o \in Of("runtime") : lane[o] \in RuntimeLanes /\ pc[o] \in Holding
      BY <2>1 DEF BorrowsMatchLanes, OwnsRole
    <3> QED BY <3>1, OwnersFit, PoolAssumption
  <2>3. /\ Cardinality(Of("control")) \in Nat /\ Cardinality(SlotsOf(ControlLanes)) \in Nat
        /\ Cardinality(Of("control")) <= Cardinality(SlotsOf(ControlLanes))
    <3>1. \A o \in Of("control") : lane[o] \in ControlLanes /\ pc[o] \in Holding
      BY <2>1 DEF BorrowsMatchLanes, OwnsRole
    <3> QED BY <3>1, OwnersFit, PoolAssumption
  <2> QED BY <2>2, <2>3, PoolAssumption DEF PoolsSuffice
<1> QED
  BY <1>1, <1>2, Invariance, BorrowsStep, PTL DEF Spec

-----------------------------------------------------------------------------
(* Arrival order.                                                          *)

\* x stands behind o in the queue s.
Behind(s, o, x) == \E k, m \in 1 .. Len(s) : k < m /\ s[k] = o /\ s[m] = x

\* _promote serves the front of a queue: whoever it leaves queued stood behind
\* everyone it let in.
LEMMA PromotedFront ==
    ASSUME NEW act, NEW pend, NEW st, NEW pcs, NEW ln, NEW L \in SUBSET Lane,
           Consistent(act, pend, st, pcs, ln), NEW l \in Lane,
           NEW o \in PromotedActive(L, act, pend, st)[l], o \notin act[l],
           NEW x \in ToSet(PromotedPending(L, act, pend, st)[l])
    PROVE  l \in L /\ Behind(pend[l], o, x)
<1> DEFINE n == Taken(l, act, pend, st)
           rest == SubSeq(Live(l, pend, st), n + 1, Len(Live(l, pend, st)))
<1>1. l \in L /\ o \in Granted(l, act, pend, st)
  BY DEF PromotedActive
<1>2. x \in ToSet(rest)
  BY <1>1 DEF PromotedPending
<1>3. LaneOk(l, act, pend, st) /\ \A i \in 1 .. Len(pend[l]) : pend[l][i] \notin act[l]
  BY DEF Consistent, Queued, Owned, Holding
<1>4. LanePromoted(l, act, pend, st, n, Granted(l, act, pend, st), rest)
  BY <1>3, PromoteLane
<1> HIDE DEF n, rest
<1>5. /\ n \in Nat /\ st[l] \in Nat /\ Len(pend[l]) \in Nat
      /\ rest \in Seq(Op) /\ Len(rest) = Len(pend[l]) - (st[l] + n)
      /\ \A i \in 1 .. Len(rest) : rest[i] = pend[l][st[l] + n + i]
  BY <1>4 DEF LanePromoted
<1>6. PICK k \in 1 .. Len(pend[l]) : o = pend[l][k] /\ k <= st[l] + n
  BY <1>1, <1>4 DEF LanePromoted
<1>7. PICK i \in 1 .. Len(rest) : x = rest[i]
  BY <1>2, <1>5, LenProperties DEF ToSet
<1>8. x = pend[l][st[l] + n + i] /\ st[l] + n + i \in 1 .. Len(pend[l]) /\ k < st[l] + n + i
  BY <1>5, <1>6, <1>7
<1> QED
  BY <1>1, <1>6, <1>8 DEF Behind

\* Taking a ticket out of a queue does not reorder the others.
LEMMA WithoutKeepsOrder ==
    ASSUME NEW s \in Seq(Op), Distinct(s), NEW o, NEW y, NEW x,
           Behind(Without(s, o), y, x)
    PROVE  Behind(s, y, x)
<1>1. Len(s) \in Nat /\ ToSet(s) = {s[i] : i \in 1 .. Len(s)}
  BY LenProperties DEF ToSet
<1>2. CASE o \notin ToSet(s)
  BY <1>2 DEF Without
<1>3. CASE o \in ToSet(s)
  <2>1. PICK r \in 1 .. Len(s) : s[r] = o
    BY <1>1, <1>3
  <2> DEFINE t == Without(s, o)
  <2>2. t = RemoveFirst(s, s[r])
    BY <1>3, <2>1 DEF Without
  <2> HIDE DEF t
  <2>3. RemovalOf(Op, s, r, t)
    BY <2>2, Removal
  <2>4. Len(t) = Len(s) - 1 /\ \A i \in 1 .. Len(t) : t[i] = IF i < r THEN s[i] ELSE s[i + 1]
    BY <2>3 DEF RemovalOf
  <2>5. PICK k, m \in 1 .. Len(t) : k < m /\ t[k] = y /\ t[m] = x
    BY DEF Behind, t
  <2> DEFINE at(i) == IF i < r THEN i ELSE i + 1
  <2>6. at(k) \in 1 .. Len(s) /\ at(m) \in 1 .. Len(s) /\ at(k) < at(m)
    BY <1>1, <2>4, <2>5
  <2>7. s[at(k)] = y /\ s[at(m)] = x
    BY <2>4, <2>5
  <2> HIDE DEF at
  <2> QED BY <2>6, <2>7 DEF Behind
<1> QED
  BY <1>2, <1>3

\* A step lets somebody into a lane only past those who were queued behind it.
FrontFirst(l, o) ==
    \A x \in ToSet(pending'[l]) : x \in ToSet(pending[l]) => Behind(pending[l], o, x)

\* Leaving: the freed slot goes to the front of the queue that is left.
LEMMA LeaveInOrder ==
    ASSUME NEW o \in Op, IInv, Leave(o), pc[o] # "idle",
           NEW l \in Lane, NEW y \in active'[l], y \notin active[l]
    PROVE  FrontFirst(l, y)
<1> DEFINE h == lane[o]
           act == Vacated(o)
           pend == [pending EXCEPT ![h] = Without(@, o)]
           st == [stale EXCEPT ![h] = IF o \in TimedOut(h, pending, stale) THEN @ - 1 ELSE @]
           pcs == [pc EXCEPT ![o] = "idle"]
           L == {h}
<1>1. h \in Lane /\ L \in SUBSET Lane
  BY DEF IInv, Consistent, Owned
<1>2. Consistent(act, pend, st, pcs, lane)
  BY Departure DEF IInv, Vacated
<1>3. active' = PromotedActive(L, act, pend, st) /\ pending' = PromotedPending(L, act, pend, st)
  BY DEF Leave, PromotedOnLeaving
<1>4. /\ \A m \in Lane : m # h => act[m] = active[m]
      /\ act[h] = active[h] \ {o}
      /\ pend[h] = Without(pending[h], o)
  BY <1>1 DEF Vacated, IInv, Consistent, Typed
<1>5. pending[h] \in Seq(Op) /\ Distinct(pending[h])
  BY <1>1 DEF IInv, Consistent, LaneOk
<1> HIDE DEF act, pend, st, pcs, L
<1>6. y \notin act[l]
  BY <1>1, <1>4
<1>7. ASSUME NEW x \in ToSet(pending'[l]) PROVE Behind(pending[l], y, x)
  <2>1. y \in PromotedActive(L, act, pend, st)[l] /\ x \in ToSet(PromotedPending(L, act, pend, st)[l])
    BY <1>3, <1>7
  <2>2. l \in L /\ Behind(pend[l], y, x)
    BY <1>1, <1>2, <1>6, <2>1, PromotedFront
  <2>3. l = h /\ Behind(Without(pending[h], o), y, x)
    BY <2>2, <1>4 DEF L
  <2>4. Behind(pending[h], y, x)
    BY <2>3, <1>5, WithoutKeepsOrder
  <2> QED BY <2>3, <2>4
<1> QED
  BY <1>7 DEF FrontFirst

\* Asking: the caller enters behind nobody, or queues behind everybody.
LEMMA AcquireInOrder ==
    ASSUME NEW o \in Op, NEW h \in Lane, NEW a \in Account \cup {NoAccount},
           NEW p \in Op \cup {NoOp}, IInv, Acquire(o, h, a, p),
           NEW l \in Lane, NEW y \in active'[l], y \notin active[l]
    PROVE  FrontFirst(l, y)
<1> DEFINE L == ExclusionLanes(h)
           act == PromotedActive(L, active, pending, stale)
           pend == PromotedPending(L, active, pending, stale)
<1>1. L \in SUBSET Lane
  BY SharedAssumption DEF ExclusionLanes
<1>2. /\ pc[o] = "idle"
      /\ \/ /\ pend[h] = <<>> /\ active' = [act EXCEPT ![h] = @ \cup {o}] /\ pending' = pend
         \/ active' = act /\ pending' = [pend EXCEPT ![h] = Append(@, o)]
         \/ active' = act /\ pending' = pend
  BY DEF Acquire, CanEnter
<1>3. Promoted(L, active, pending, pc, lane, act, pend, PromotedStale(L, stale),
          PromotedPc(L, active, pending, stale, pc))
  BY <1>1, Promotion DEF IInv
<1>4. Consistent(active, pending, stale, pc, lane)
  BY DEF IInv
<1>5. ASSUME NEW z \in act[l], z \notin active[l], NEW x \in ToSet(pend[l])
      PROVE  Behind(pending[l], z, x)
  BY <1>1, <1>4, <1>5, PromotedFront
<1> HIDE DEF act, pend, L
<1>6. act \in [Lane -> SUBSET Op] /\ pend \in [Lane -> Seq(Op)]
  BY <1>3 DEF Promoted, Consistent, Typed
<1>7. o \notin ToSet(pending[l])
  <2>1. pending[l] \in Seq(Op) /\ \A i \in 1 .. Len(pending[l]) : pc[pending[l][i]] = "waiting"
    BY <1>4 DEF Consistent, Queued, LaneOk
  <2> QED BY <1>2, <2>1, LenProperties DEF ToSet
<1>8. ASSUME NEW x \in ToSet(pending'[l]), x \in ToSet(pending[l])
      PROVE  Behind(pending[l], y, x)
  <2>1. CASE pend[h] = <<>> /\ active' = [act EXCEPT ![h] = @ \cup {o}] /\ pending' = pend
    <3>1. l # h
      BY <1>8, <2>1 DEF ToSet
    <3>2. y \in act[l]
      BY <2>1, <3>1, <1>6
    <3> QED BY <1>5, <1>8, <2>1, <3>2
  <2>2. CASE active' = act /\ pending' = [pend EXCEPT ![h] = Append(@, o)]
    <3>1. x \in ToSet(pend[l])
      <4>1. CASE l # h
        BY <1>6, <1>8, <2>2, <4>1
      <4>2. CASE l = h
        <5>1. pend[l] \in Seq(Op) /\ pending'[l] = Append(pend[l], o)
          BY <1>6, <2>2, <4>2
        <5>2. PICK i \in 1 .. Len(Append(pend[l], o)) : x = Append(pend[l], o)[i]
          <6>1. Append(pend[l], o) \in Seq(Op)
            BY <5>1, AppendProperties
          <6> QED BY <1>8, <5>1, <6>1, LenProperties DEF ToSet
        <5>3. x # o
          BY <1>7, <1>8
        <5>4. i \in 1 .. Len(pend[l]) /\ x = pend[l][i]
          <6>1. /\ Len(pend[l]) \in Nat /\ Len(Append(pend[l], o)) = Len(pend[l]) + 1
                /\ \A j \in 1 .. Len(pend[l]) : Append(pend[l], o)[j] = pend[l][j]
                /\ Append(pend[l], o)[Len(pend[l]) + 1] = o
            BY <5>1, AppendProperties, LenProperties
          <6> QED BY <5>2, <5>3, <6>1
        <5> QED BY <5>1, <5>4, LenProperties DEF ToSet
      <4> QED BY <4>1, <4>2
    <3> QED BY <1>5, <2>2, <3>1
  <2>3. CASE active' = act /\ pending' = pend
    BY <1>5, <1>8, <2>3
  <2> QED BY <1>2, <2>1, <2>2, <2>3
<1> QED
  BY <1>8 DEF FrontFirst

\* What NoBarging asks of one step.
InArrivalOrder ==
    \A l \in Lane : \A o \in active'[l] \ active[l] :
       \A i \in DOMAIN pending[l] :
          /\ pending[l][i] # o
          /\ \A j \in 1 .. i : pending[l][j] # o
          => pending[l][i] \notin ToSet(pending'[l])

\* Nobody is overtaken: whoever gets a slot, by entering or by being promoted at the
\* request, the departure or the timeout of another, leaves nobody queued who was
\* ahead of it.
THEOREM NobodyBarges == Spec => NoBarging
<1>1. IInv /\ [Next]_vars => [InArrivalOrder]_vars
  <2> SUFFICES ASSUME IInv, Next PROVE InArrivalOrder
    OBVIOUS
  <2>1. ASSUME NEW l \in Lane, NEW y \in active'[l], y \notin active[l] PROVE FrontFirst(l, y)
    <3> USE DEF identity, queues, resources
    <3>1. ASSUME NEW o \in Op, NEW h \in Lane, NEW a \in Account \cup {NoAccount},
                 NEW p \in Op \cup {NoOp}, Acquire(o, h, a, p)
          PROVE  FrontFirst(l, y)
      BY <2>1, <3>1, AcquireInOrder
    <3>2. ASSUME NEW o \in Op, Abandon(o) \/ Release(o) PROVE FrontFirst(l, y)
      <4>1. Leave(o) /\ pc[o] # "idle"
        BY <3>2 DEF Abandon, Release
      <4> QED BY <2>1, <4>1, LeaveInOrder
    <3>3. active' = active => FALSE
      BY <2>1
    <3>4. ASSUME NEW o \in Op,
                 \/ TimerFires(o) \/ Cancel(o) \/ Enter(o) \/ EndBody(o)
                 \/ \E role \in {"runtime", "control"} : Borrow(o, role)
                 \/ ReturnBorrow(o) \/ TakeLease(o) \/ DropLease(o) \/ Strand(o)
                 \/ StartThread(o) \/ ThreadReturns(o)
          PROVE  active' = active
      BY <3>4 DEF TimerFires, Cancel, Enter, EndBody, Borrow, ReturnBorrow, TakeLease, DropLease,
         Strand, StartThread, ThreadReturns
    <3>5. (\E h \in Lane : Expire(h)) \/ Shutdown \/ ShutdownReturns => active' = active
      BY DEF Expire, Shutdown, ShutdownReturns
    <3> QED BY <3>1, <3>2, <3>3, <3>4, <3>5 DEF Next
  <2>2. ASSUME NEW l \in Lane, NEW y \in active'[l] \ active[l], NEW i \in DOMAIN pending[l],
               \A j \in 1 .. i : pending[l][j] # y
        PROVE  pending[l][i] \notin ToSet(pending'[l])
    <3>1. pending[l] \in Seq(Op) /\ Distinct(pending[l])
      BY DEF IInv, Consistent, LaneOk
    <3>2. DOMAIN pending[l] = 1 .. Len(pending[l]) /\ Len(pending[l]) \in Nat
      BY <3>1, LenProperties
    <3>3. pending[l][i] \in ToSet(pending[l])
      BY DEF ToSet
    <3>4. ASSUME pending[l][i] \in ToSet(pending'[l]) PROVE FALSE
      <4>1. Behind(pending[l], y, pending[l][i])
        BY <2>1, <3>3, <3>4 DEF FrontFirst
      <4>2. PICK k, m \in 1 .. Len(pending[l]) :
                k < m /\ pending[l][k] = y /\ pending[l][m] = pending[l][i]
        BY <4>1 DEF Behind
      <4>3. m = i
        BY <3>1, <3>2, <4>2 DEF Distinct
      <4>4. k \in 1 .. i
        BY <3>2, <4>2, <4>3
      <4> QED BY <4>2, <4>4, <2>2
    <3> QED BY <3>4
  <2> QED BY <2>2 DEF InArrivalOrder
<1> QED
  BY <1>1, Invariance, PTL DEF Spec, NoBarging, InArrivalOrder

=============================================================================

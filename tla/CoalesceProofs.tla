--------------------------- MODULE CoalesceProofs ---------------------------
(***************************************************************************)
(* What pkg/inbox/coalesce.go makes of a queue, for every queue, every     *)
(* shape of row and every pair of caps: the three properties of Coalesce,  *)
(* and that module Inbox, which states its batches as sets, takes exactly  *)
(* the batches the fold builds, in their order.                            *)
(*                                                                         *)
(* The argument: AccSound is the loop's invariant, proved over Loop[k] by  *)
(* induction on k; the caps keep a prefix of a group's fragments; and a    *)
(* batch's bytes depend only on which fragments it has (Weight).           *)
(***************************************************************************)
EXTENDS Coalesce, FiniteSetTheorems, SequenceTheorems, WellFoundedInduction, TLAPS

-----------------------------------------------------------------------------
(* Induction over the natural numbers, for sets instead of predicates: the *)
(* least number outside of the set has a predecessor in it.                *)
LEMMA Induction ==
  ASSUME NEW T, 0 \in T, \A k \in Nat : k \in T => k + 1 \in T
  PROVE  Nat \subseteq T
<1>. DEFINE Bad == Nat \ T
<1>. SUFFICES ASSUME Bad # {} PROVE FALSE
  OBVIOUS
<1>1. PICK x \in Bad : \A y \in Bad : ~ (<<y, x>> \in OpToRel(<, Nat))
  BY WFMin, NatLessThanWellFounded
<1>2. x \in Nat /\ x # 0 /\ x - 1 \in Nat /\ x - 1 < x
  OBVIOUS
<1>3. x - 1 \in Bad
  BY <1>2
<1>4. <<x - 1, x>> \in OpToRel(<, Nat)
  BY <1>2 DEF OpToRel
<1>. QED
  BY <1>1, <1>3, <1>4

LEMMA Least ==
  ASSUME NEW S, S \subseteq Nat, S # {}
  PROVE  \E m \in S : \A j \in S : m <= j
<1>1. PICK m \in S : \A j \in S : ~ (<<j, m>> \in OpToRel(<, Nat))
  BY WFMin, NatLessThanWellFounded
<1>2. ASSUME NEW j \in S, j < m PROVE FALSE
  <2>1. <<j, m>> \in OpToRel(<, Nat)
    BY <1>2 DEF OpToRel
  <2>. QED
    BY <1>1, <2>1
<1>. QED
  BY <1>2

LEMMA InductionUpTo ==
  ASSUME NEW m \in Nat, NEW T, 0 \in T, \A k \in 0..(m - 1) : k \in T => k + 1 \in T
  PROVE  0..m \subseteq T
<1>. DEFINE U == {k \in Nat : k <= m => k \in T}
<1>1. 0 \in U
  OBVIOUS
<1>2. \A k \in Nat : k \in U => k + 1 \in U
  OBVIOUS
<1>3. Nat \subseteq U
  <2>. HIDE DEF U
  <2>. QED
    BY <1>1, <1>2, Induction
<1>. QED
  BY <1>3

-----------------------------------------------------------------------------
(* The two loops are the functions their equations ask for.                *)
LoopEq(f, m) == f = [k \in 0..m |-> IF k = 0 THEN NoRows ELSE AddRow(f[k - 1], k)]
SumEq(f, v, m) == f = [k \in 0..m |-> IF k = 0 THEN 0 ELSE f[k - 1] + v[k]]

LEMMA LoopStep ==
  ASSUME NEW m \in Nat, NEW f, LoopEq(f, m)
  PROVE  \E g : LoopEq(g, m + 1)
<1>. DEFINE g == [k \in 0..(m + 1) |-> IF k = m + 1 THEN AddRow(f[m], m + 1) ELSE f[k]]
<1>1. ASSUME NEW k \in 0..(m + 1) PROVE g[k] = IF k = 0 THEN NoRows ELSE AddRow(g[k - 1], k)
  <2>1. CASE k = m + 1
    <3>1. g[k - 1] = f[m] /\ g[k] = AddRow(f[m], m + 1) /\ k # 0
      BY <2>1
    <3>. QED
      BY <3>1, <2>1
  <2>2. CASE k \in 1..m
    <3>1. g[k] = f[k] /\ g[k - 1] = f[k - 1]
      BY <2>2
    <3>2. f[k] = AddRow(f[k - 1], k)
      BY <2>2 DEF LoopEq
    <3>. QED
      BY <3>1, <3>2, <2>2
  <2>3. CASE k = 0
    BY <2>3 DEF LoopEq
  <2>. QED
    BY <2>1, <2>2, <2>3
<1>2. g = [k \in 0..(m + 1) |-> IF k = 0 THEN NoRows ELSE AddRow(g[k - 1], k)]
  BY <1>1
<1>. QED
  BY <1>2 DEF LoopEq

LEMMA LoopExists == \A m \in Nat : \E f : LoopEq(f, m)
<1>. DEFINE T == {m \in Nat : \E f : LoopEq(f, m)}
<1>1. 0 \in T
  <2>. DEFINE g == [k \in 0..0 |-> NoRows]
  <2>1. g = [k \in 0..0 |-> IF k = 0 THEN NoRows ELSE AddRow(g[k - 1], k)]
    OBVIOUS
  <2>. QED
    BY <2>1 DEF LoopEq
<1>2. \A m \in Nat : m \in T => m + 1 \in T
  BY LoopStep
<1>3. Nat \subseteq T
  <2>. HIDE DEF T
  <2>. QED
    BY <1>1, <1>2, Induction
<1>. QED
  BY <1>3

LEMMA LoopIs ==
  ASSUME Len(rows) \in Nat
  PROVE  /\ Loop[0] = NoRows
         /\ \A k \in 1..Len(rows) : Loop[k] = AddRow(Loop[k - 1], k)
<1>1. \E f : f = [k \in 0..Len(rows) |-> IF k = 0 THEN NoRows ELSE AddRow(f[k - 1], k)]
  BY LoopExists DEF LoopEq
<1>2. Loop = [k \in 0..Len(rows) |-> IF k = 0 THEN NoRows ELSE AddRow(Loop[k - 1], k)]
  BY <1>1, Zenon DEF Loop
<1>. QED
  BY <1>2

LEMMA SumStep ==
  ASSUME NEW v, NEW m \in Nat, NEW f, SumEq(f, v, m)
  PROVE  \E g : SumEq(g, v, m + 1)
<1>. DEFINE g == [k \in 0..(m + 1) |-> IF k = m + 1 THEN f[m] + v[m + 1] ELSE f[k]]
<1>1. ASSUME NEW k \in 0..(m + 1) PROVE g[k] = IF k = 0 THEN 0 ELSE g[k - 1] + v[k]
  <2>1. CASE k = m + 1
    <3>1. g[k - 1] = f[m] /\ g[k] = f[m] + v[m + 1] /\ k # 0
      BY <2>1
    <3>. QED
      BY <3>1, <2>1
  <2>2. CASE k \in 1..m
    <3>1. g[k] = f[k] /\ g[k - 1] = f[k - 1]
      BY <2>2
    <3>2. f[k] = f[k - 1] + v[k]
      BY <2>2 DEF SumEq
    <3>. QED
      BY <3>1, <3>2, <2>2
  <2>3. CASE k = 0
    BY <2>3 DEF SumEq
  <2>. QED
    BY <2>1, <2>2, <2>3
<1>2. g = [k \in 0..(m + 1) |-> IF k = 0 THEN 0 ELSE g[k - 1] + v[k]]
  BY <1>1
<1>. QED
  BY <1>2 DEF SumEq

LEMMA SumExists == \A v : \A m \in Nat : \E f : SumEq(f, v, m)
<1>. SUFFICES ASSUME NEW v PROVE \A m \in Nat : \E f : SumEq(f, v, m)
  OBVIOUS
<1>. DEFINE T == {m \in Nat : \E f : SumEq(f, v, m)}
<1>1. 0 \in T
  <2>. DEFINE g == [k \in 0..0 |-> 0]
  <2>1. g = [k \in 0..0 |-> IF k = 0 THEN 0 ELSE g[k - 1] + v[k]]
    OBVIOUS
  <2>. QED
    BY <2>1 DEF SumEq
<1>2. \A m \in Nat : m \in T => m + 1 \in T
  BY SumStep
<1>3. Nat \subseteq T
  <2>. HIDE DEF T
  <2>. QED
    BY <1>1, <1>2, Induction
<1>. QED
  BY <1>3

LEMMA UsedIs ==
  ASSUME NEW frags, Len(frags) \in Nat
  PROVE  /\ Used(frags)[0] = 0
         /\ \A k \in 1..Len(frags) : Used(frags)[k] = Used(frags)[k - 1] + rows[frags[k]].len
<1>. DEFINE v == [k \in 1..Len(frags) |-> rows[frags[k]].len]
<1>1. PICK f : f = [k \in 0..Len(frags) |-> IF k = 0 THEN 0 ELSE f[k - 1] + v[k]]
  BY SumExists DEF SumEq
<1>2. \A k \in 0..Len(frags) : k # 0 => v[k] = rows[frags[k]].len
  OBVIOUS
<1>3. f = [k \in 0..Len(frags) |-> IF k = 0 THEN 0 ELSE f[k - 1] + rows[frags[k]].len]
  BY <1>1, <1>2
<1>4. Used(frags) = [k \in 0..Len(frags) |-> IF k = 0 THEN 0 ELSE Used(frags)[k - 1] + rows[frags[k]].len]
  BY <1>3, Zenon DEF Used
<1>. QED
  BY <1>4

-----------------------------------------------------------------------------
(* The caps keep a prefix of the fragments.                                *)
CoalesceTypeOK == rows \in Seq(RowShapes) /\ cfg \in [frags : FragCaps, bytes : ByteCaps]

Positions == 1..Len(rows)

LEMMA RowFields ==
  ASSUME CoalesceTypeOK
  PROVE  /\ Len(rows) \in Nat /\ DOMAIN rows = Positions
         /\ \A i \in Positions : /\ rows[i].source \in STRING /\ rows[i].key \in STRING
                                 /\ rows[i].mode \in {"prompt", "steer", "abort"}
                                 /\ rows[i].len \in Nat
         /\ cfg.frags \in Nat /\ cfg.bytes \in Nat
<1>1. \A i \in Positions : rows[i] \in RowShapes
  BY DEF CoalesceTypeOK, Positions
<1>2. cfg.frags \in FragCaps /\ cfg.bytes \in ByteCaps /\ FragCaps \subseteq Nat /\ ByteCaps \subseteq Nat
  BY CoalesceAssumption DEF CoalesceTypeOK
<1>3. Len(rows) \in Nat /\ DOMAIN rows = Positions
  BY DEF CoalesceTypeOK, Positions
<1>4. ASSUME NEW i \in Positions
      PROVE  rows[i] \in [source : STRING, key : STRING, mode : {"prompt", "steer", "abort"}, len : Nat]
  BY <1>1, CoalesceAssumption
<1>. QED
  BY <1>2, <1>3, <1>4

LEMMA UsedGrows ==
  ASSUME CoalesceTypeOK, NEW frags \in Seq(Positions)
  PROVE  /\ \A k \in 0..Len(frags) : Used(frags)[k] \in Nat
         /\ \A k \in 0..Len(frags) : Used(frags)[k] <= Used(frags)[Len(frags)]
<1>. DEFINE m == Len(frags)
<1>1. m \in Nat /\ \A k \in 1..m : frags[k] \in Positions /\ rows[frags[k]].len \in Nat
  BY RowFields
<1>2. Used(frags)[0] = 0 /\ \A k \in 1..m : Used(frags)[k] = Used(frags)[k - 1] + rows[frags[k]].len
  BY <1>1, UsedIs
<1>3. 0..m \subseteq {k \in 0..m : Used(frags)[k] \in Nat}
  <2>. DEFINE T == {k \in 0..m : Used(frags)[k] \in Nat}
  <2>1. 0 \in T
    BY <1>1, <1>2
  <2>2. \A k \in 0..(m - 1) : k \in T => k + 1 \in T
    <3>. TAKE k \in 0..(m - 1)
    <3>1. k + 1 \in 1..m /\ k + 1 \in 0..m /\ k + 1 - 1 = k
      BY <1>1
    <3>2. Used(frags)[k + 1] = Used(frags)[k] + rows[frags[k + 1]].len /\ rows[frags[k + 1]].len \in Nat
      BY <1>1, <1>2, <3>1
    <3>. QED
      BY <3>1, <3>2
  <2>. HIDE DEF T
  <2>3. 0..m \subseteq T
    BY <1>1, <2>1, <2>2, InductionUpTo
  <2>. QED
    BY <2>3 DEF T
<1>4. 0..m \subseteq {d \in 0..m : Used(frags)[m - d] <= Used(frags)[m]}
  <2>. DEFINE T == {d \in 0..m : Used(frags)[m - d] <= Used(frags)[m]}
  <2>1. 0 \in T
    BY <1>1, <1>3
  <2>2. \A d \in 0..(m - 1) : d \in T => d + 1 \in T
    <3>. TAKE d \in 0..(m - 1)
    <3>1. m - d \in 1..m /\ m - (d + 1) = (m - d) - 1 /\ d + 1 \in 0..m /\ m - (d + 1) \in 0..m /\ m \in 0..m /\ m - d \in 0..m
      BY <1>1
    <3>2. Used(frags)[m - d] = Used(frags)[m - (d + 1)] + rows[frags[m - d]].len /\ rows[frags[m - d]].len \in Nat
      BY <1>1, <1>2, <3>1
    <3>3. Used(frags)[m - d] \in Nat /\ Used(frags)[m - (d + 1)] \in Nat /\ Used(frags)[m] \in Nat
      BY <1>3, <3>1
    <3>. QED
      BY <3>1, <3>2, <3>3
  <2>. HIDE DEF T
  <2>3. 0..m \subseteq T
    BY <1>1, <2>1, <2>2, InductionUpTo
  <2>. QED
    BY <2>3 DEF T
<1>5. \A k \in 0..m : m - k \in 0..m /\ m - (m - k) = k
  BY <1>1
<1>. QED
  BY <1>3, <1>4, <1>5

LEMMA UsedOfPrefix ==
  ASSUME CoalesceTypeOK, NEW all \in Seq(Positions), NEW m \in 0..Len(all)
  PROVE  /\ SubSeq(all, 1, m) \in Seq(Positions) /\ Len(SubSeq(all, 1, m)) = m
         /\ \A k \in 1..m : SubSeq(all, 1, m)[k] = all[k]
         /\ \A k \in 0..m : Used(SubSeq(all, 1, m))[k] = Used(all)[k]
<1>. DEFINE s == SubSeq(all, 1, m)
<1>1. s \in Seq(Positions) /\ Len(s) = m /\ \A k \in 1..m : s[k] = all[k]
  <2>1. \A i \in 1..m : all[i] \in Positions
    OBVIOUS
  <2>. QED
    BY <2>1, SubSeqProperties
<1>. DEFINE T == {k \in 0..m : Used(s)[k] = Used(all)[k]}
<1>2. /\ Used(s)[0] = 0 /\ \A k \in 1..m : Used(s)[k] = Used(s)[k - 1] + rows[s[k]].len
      /\ Used(all)[0] = 0 /\ \A k \in 1..Len(all) : Used(all)[k] = Used(all)[k - 1] + rows[all[k]].len
  <2>. HIDE DEF s
  <2>. QED
    BY <1>1, UsedIs
<1>. HIDE DEF s
<1>3. 0 \in T
  BY <1>2
<1>4. \A k \in 0..(m - 1) : k \in T => k + 1 \in T
  <2>. TAKE k \in 0..(m - 1)
  <2>1. k + 1 \in 1..m /\ k + 1 \in 1..Len(all) /\ k + 1 - 1 = k /\ k + 1 \in 0..m
    OBVIOUS
  <2>2. Used(s)[k + 1] = Used(s)[k] + rows[all[k + 1]].len /\ Used(all)[k + 1] = Used(all)[k] + rows[all[k + 1]].len
    BY <1>1, <1>2, <2>1
  <2>. QED
    BY <2>1, <2>2
<1>5. 0..m \subseteq T
  <2>. HIDE DEF T
  <2>. QED
    BY <1>3, <1>4, InductionUpTo
<1>. QED
  BY <1>1, <1>5 DEF s

LEMMA FragCapIs ==
  ASSUME CoalesceTypeOK, NEW all \in Seq(Positions)
  PROVE  \E k \in 0..Len(all) :
           /\ FragCap(all) = SubSeq(all, 1, k)
           /\ cfg.frags > 0 => IF k < Len(all) THEN k = cfg.frags - 1 ELSE k <= cfg.frags
           /\ k < Len(all) => cfg.frags > 0 /\ Len(all) > cfg.frags
<1>1. CASE cfg.frags > 0 /\ Len(all) > cfg.frags
  <2>1. cfg.frags - 1 \in 0..Len(all)
    BY <1>1, RowFields
  <2>2. FragCap(all) = SubSeq(all, 1, cfg.frags - 1)
    BY <1>1 DEF FragCap
  <2>3. Len(all) \in Nat /\ cfg.frags \in Nat /\ cfg.frags - 1 < Len(all)
    BY <1>1, RowFields
  <2>. WITNESS cfg.frags - 1 \in 0..Len(all)
  <2>. QED
    BY <1>1, <2>2, <2>3
<1>2. CASE ~(cfg.frags > 0 /\ Len(all) > cfg.frags)
  <2>1. FragCap(all) = SubSeq(all, 1, Len(all))
    BY <1>2, SubSeqFull DEF FragCap
  <2>2. Len(all) \in 0..Len(all)
    OBVIOUS
  <2>. QED
    BY <1>2, <2>1, <2>2, RowFields
<1>. QED
  BY <1>1, <1>2

LEMMA ByteCapIs ==
  ASSUME CoalesceTypeOK, NEW all \in Seq(Positions)
  PROVE  \E k \in 0..Len(all) :
           /\ ByteCap(all) = SubSeq(all, 1, k)
           /\ cfg.bytes > 0 => Used(all)[k] <= cfg.bytes
           /\ k < Len(all) => cfg.bytes > 0 /\ Used(all)[Len(all)] > cfg.bytes
<1>. DEFINE over == {i \in 1..Len(all) : Used(all)[i] > cfg.bytes}
<1>0. Len(all) \in Nat /\ Len(all) \in 0..Len(all) /\ cfg.bytes \in Nat
  BY RowFields
<1>1. CASE cfg.bytes = 0 \/ over = {}
  <2>1. ByteCap(all) = SubSeq(all, 1, Len(all))
    BY <1>1, SubSeqFull DEF ByteCap
  <2>2. cfg.bytes > 0 => Used(all)[Len(all)] <= cfg.bytes
    <3>1. CASE Len(all) = 0
      BY <3>1, <1>0, UsedIs
    <3>2. CASE Len(all) # 0
      <4>1. Len(all) \in 1..Len(all) /\ Used(all)[Len(all)] \in Nat
        BY <3>2, <1>0, UsedGrows
      <4>. QED
        BY <1>0, <1>1, <4>1
    <3>. QED
      BY <3>1, <3>2
  <2>. QED
    BY <1>0, <2>1, <2>2
<1>2. CASE cfg.bytes > 0 /\ over # {}
  <2>1. over \subseteq Nat
    OBVIOUS
  <2>. HIDE DEF over
  <2>2. \E m \in over : \A j \in over : m <= j
    BY <1>2, <2>1, Least
  <2>. DEFINE c == CHOOSE i \in over : \A j \in over : i <= j
  <2>3. c \in over /\ \A j \in over : c <= j
    BY <2>2
  <2>4. ByteCap(all) = SubSeq(all, 1, c - 1)
    <3>1. cfg.bytes # 0
      BY <1>0, <1>2
    <3>. QED
      BY <1>2, <3>1, Zenon DEF ByteCap, over
  <2>. HIDE DEF c
  <2>5. c \in 1..Len(all) /\ c - 1 \in 0..Len(all) /\ c - 1 \notin over /\ Used(all)[c] > cfg.bytes
    BY <2>3 DEF over
  <2>6. Used(all)[c - 1] <= cfg.bytes
    <3>1. CASE c = 1
      BY <3>1, <1>0, UsedIs
    <3>2. CASE c # 1
      <4>1. c - 1 \in 1..Len(all) /\ Used(all)[c - 1] \in Nat
        BY <2>5, <3>2, UsedGrows
      <4>. QED
        BY <4>1, <2>5, <1>0 DEF over
    <3>. QED
      BY <3>1, <3>2
  <2>7. Used(all)[Len(all)] > cfg.bytes
    <3>1. Used(all)[c] \in Nat /\ Used(all)[Len(all)] \in Nat /\ Used(all)[c] <= Used(all)[Len(all)]
      BY <2>5, <1>0, UsedGrows
    <3>. QED
      BY <3>1, <2>5, <1>0
  <2>. QED
    BY <1>2, <2>4, <2>5, <2>6, <2>7
<1>. QED
  BY <1>0, <1>1, <1>2

LEMMA ApplyCapsIs ==
  ASSUME CoalesceTypeOK, NEW all \in Seq(Positions)
  PROVE  \E k \in 0..Len(all) :
           /\ ApplyCaps(all).kept = SubSeq(all, 1, k)
           /\ ApplyCaps(all).omitted = Len(all) - k
           /\ cfg.frags > 0 => k + (IF k < Len(all) THEN 1 ELSE 0) <= cfg.frags
           /\ cfg.bytes > 0 => Used(all)[k] <= cfg.bytes
           /\ k < Len(all) => \/ cfg.frags > 0 /\ Len(all) > cfg.frags
                              \/ cfg.bytes > 0 /\ Used(all)[Len(all)] > cfg.bytes
<1>1. PICK j \in 0..Len(all) :
           /\ FragCap(all) = SubSeq(all, 1, j)
           /\ cfg.frags > 0 => IF j < Len(all) THEN j = cfg.frags - 1 ELSE j <= cfg.frags
           /\ j < Len(all) => cfg.frags > 0 /\ Len(all) > cfg.frags
  BY FragCapIs
<1>. DEFINE s == SubSeq(all, 1, j)
<1>2. s \in Seq(Positions) /\ Len(s) = j /\ \A i \in 0..j : Used(s)[i] = Used(all)[i]
  BY UsedOfPrefix
<1>3. PICK k \in 0..Len(s) :
           /\ ByteCap(s) = SubSeq(s, 1, k)
           /\ cfg.bytes > 0 => Used(s)[k] <= cfg.bytes
           /\ k < Len(s) => cfg.bytes > 0 /\ Used(s)[Len(s)] > cfg.bytes
  BY <1>2, ByteCapIs
<1>4. k \in 0..Len(all) /\ k \in 0..j /\ j \in 0..j
  BY <1>2
<1>5. SubSeq(s, 1, k) = SubSeq(all, 1, k) /\ Len(SubSeq(all, 1, k)) = k
  <2>1. /\ SubSeq(s, 1, k) \in Seq(Positions) /\ Len(SubSeq(s, 1, k)) = k
        /\ \A i \in 1..k : SubSeq(s, 1, k)[i] = s[i]
    BY <1>2, UsedOfPrefix
  <2>2. /\ SubSeq(all, 1, k) \in Seq(Positions) /\ Len(SubSeq(all, 1, k)) = k
        /\ \A i \in 1..k : SubSeq(all, 1, k)[i] = all[i]
    BY <1>4, UsedOfPrefix
  <2>3. \A i \in 1..k : s[i] = all[i]
    BY <1>4, UsedOfPrefix
  <2>. QED
    BY <2>1, <2>2, <2>3, SeqEqual
<1>6. ApplyCaps(all).kept = SubSeq(all, 1, k) /\ ApplyCaps(all).omitted = Len(all) - k
  BY <1>1, <1>3, <1>5 DEF ApplyCaps
<1>7. Used(all)[j] \in Nat /\ Used(all)[Len(all)] \in Nat /\ Used(all)[j] <= Used(all)[Len(all)]
  BY UsedGrows
<1>. HIDE DEF s
<1>8. cfg.bytes > 0 => Used(all)[k] <= cfg.bytes
  BY <1>2, <1>3, <1>4
<1>9. k < Len(all) => \/ cfg.frags > 0 /\ Len(all) > cfg.frags
                      \/ cfg.bytes > 0 /\ Used(all)[Len(all)] > cfg.bytes
  BY <1>1, <1>2, <1>3, <1>4, <1>7, RowFields
<1>10. cfg.frags > 0 => k + (IF k < Len(all) THEN 1 ELSE 0) <= cfg.frags
  BY <1>1, <1>4, RowFields
<1>. QED
  BY <1>4, <1>6, <1>8, <1>9, <1>10

-----------------------------------------------------------------------------
(* What the loop has after k rows: for each source a group that accounts   *)
(* for its rows among them.                                                *)
From(s, k)  == {i \in 1..k : rows[i].source = s}
Rising(f)   == \A i, j \in 1..Len(f) : i < j => f[i] < f[j]
GroupFields == {"mode", "ids", "keyed", "keyOrder", "unkeyed"}

KeysSound(g, s, k) ==
  /\ g.keyOrder \in Seq(STRING)
  /\ \A i, j \in 1..Len(g.keyOrder) : g.keyOrder[i] = g.keyOrder[j] => i = j
  /\ ToSet(g.keyOrder) = DOMAIN g.keyed
  /\ DOMAIN g.keyed = {rows[i].key : i \in From(s, k)} \ {""}
  /\ \A x \in DOMAIN g.keyed :
       /\ g.keyed[x] \in From(s, k) /\ rows[g.keyed[x]].key = x
       /\ \A i \in From(s, k) : rows[i].key = x => i <= g.keyed[x]

GroupSound(g, s, k) ==
  /\ DOMAIN g = GroupFields
  /\ g.ids \in Seq(1..k) /\ Rising(g.ids) /\ ToSet(g.ids) = From(s, k)
  /\ g.mode \in {"prompt", "steer"}
  /\ g.mode = "steer" <=> \E i \in From(s, k) : rows[i].mode = "steer"
  /\ KeysSound(g, s, k)
  /\ g.unkeyed \in Seq(1..k) /\ Rising(g.unkeyed)
  /\ ToSet(g.unkeyed) = {i \in From(s, k) : rows[i].key = ""}

LEMMA FromNext ==
  ASSUME NEW s, NEW k \in Nat
  PROVE  From(s, k + 1) = IF rows[k + 1].source = s THEN From(s, k) \cup {k + 1} ELSE From(s, k)
<1>1. 1..(k + 1) = 1..k \cup {k + 1}
  OBVIOUS
<1>. QED
  BY <1>1 DEF From

LEMMA AppendSet ==
  ASSUME NEW S, NEW f \in Seq(S), NEW e \in S
  PROVE  ToSet(Append(f, e)) = ToSet(f) \cup {e}
<1>1. /\ Append(f, e) \in Seq(S) /\ Len(Append(f, e)) = Len(f) + 1 /\ Len(f) \in Nat
      /\ \A i \in 1..Len(f) : Append(f, e)[i] = f[i]
      /\ Append(f, e)[Len(f) + 1] = e
      /\ DOMAIN f = 1..Len(f) /\ DOMAIN Append(f, e) = 1..(Len(f) + 1)
  OBVIOUS
<1>2. 1..(Len(f) + 1) = 1..Len(f) \cup {Len(f) + 1}
  BY <1>1
<1>. HIDE <1>2
<1>3. ASSUME NEW x PROVE x \in ToSet(Append(f, e)) <=> x \in ToSet(f) \/ x = e
  BY <1>1, <1>2 DEF ToSet
<1>. QED
  BY <1>3

LEMMA AppendRising ==
  ASSUME NEW k \in Nat, NEW f \in Seq(1..k), Rising(f)
  PROVE  /\ Append(f, k + 1) \in Seq(1..(k + 1)) /\ Rising(Append(f, k + 1))
         /\ ToSet(Append(f, k + 1)) = ToSet(f) \cup {k + 1}
<1>1. f \in Seq(1..(k + 1)) /\ k + 1 \in 1..(k + 1)
  <2>1. 1..k \subseteq 1..(k + 1)
    OBVIOUS
  <2>. QED
    BY <2>1, SeqMonotonic
<1>2. /\ Append(f, k + 1) \in Seq(1..(k + 1)) /\ Len(Append(f, k + 1)) = Len(f) + 1 /\ Len(f) \in Nat
      /\ \A i \in 1..Len(f) : Append(f, k + 1)[i] = f[i] /\ f[i] \in 1..k
      /\ Append(f, k + 1)[Len(f) + 1] = k + 1
  BY <1>1
<1>3. ASSUME NEW i \in 1..(Len(f) + 1), NEW j \in 1..(Len(f) + 1), i < j
      PROVE  Append(f, k + 1)[i] < Append(f, k + 1)[j]
  <2>1. i \in 1..Len(f)
    BY <1>2, <1>3
  <2>2. CASE j \in 1..Len(f)
    BY <1>2, <1>3, <2>1, <2>2 DEF Rising
  <2>3. CASE j = Len(f) + 1
    BY <1>2, <2>1, <2>3
  <2>. QED
    BY <1>2, <2>2, <2>3
<1>. QED
  BY <1>1, <1>2, <1>3, AppendSet DEF Rising

LEMMA Widen ==
  ASSUME NEW k \in Nat, NEW f \in Seq(1..k)
  PROVE  f \in Seq(1..(k + 1))
<1>1. 1..k \subseteq 1..(k + 1)
  OBVIOUS
<1>. QED
  BY <1>1, SeqMonotonic

LEMMA JoinFields ==
  ASSUME NEW g, NEW i \in Nat, DOMAIN g = GroupFields
  PROVE  /\ DOMAIN JoinGroup(g, i) = GroupFields
         /\ JoinGroup(g, i).ids = Append(g.ids, i)
         /\ JoinGroup(g, i).mode = IF rows[i].mode = "steer" THEN "steer" ELSE g.mode
         /\ rows[i].key = "" => JoinGroup(g, i).keyed = g.keyed /\ JoinGroup(g, i).keyOrder = g.keyOrder
         /\ rows[i].key # "" => JoinGroup(g, i).keyed = Put(g.keyed, rows[i].key, i)
         /\ rows[i].key # "" /\ Known(g.keyed, rows[i].key) => JoinGroup(g, i).keyOrder = g.keyOrder
         /\ rows[i].key # "" /\ ~Known(g.keyed, rows[i].key) =>
              JoinGroup(g, i).keyOrder = Append(g.keyOrder, rows[i].key)
         /\ JoinGroup(g, i).unkeyed = IF rows[i].key = "" THEN Append(g.unkeyed, i) ELSE g.unkeyed
<1>. DEFINE st == [g EXCEPT !.ids = Append(@, i), !.mode = IF rows[i].mode = "steer" THEN "steer" ELSE @]
<1>1. /\ DOMAIN st = GroupFields /\ st.ids = Append(g.ids, i)
      /\ st.mode = IF rows[i].mode = "steer" THEN "steer" ELSE g.mode
      /\ st.keyed = g.keyed /\ st.keyOrder = g.keyOrder /\ st.unkeyed = g.unkeyed
  BY DEF GroupFields
<1>2. JoinGroup(g, i) =
        IF rows[i].key = "" THEN [st EXCEPT !.unkeyed = Append(@, i)]
        ELSE [st EXCEPT !.keyed = Put(@, rows[i].key, i),
                        !.keyOrder = IF Known(g.keyed, rows[i].key) THEN @ ELSE Append(@, rows[i].key)]
  BY DEF JoinGroup
<1>. HIDE DEF st
<1>3. CASE rows[i].key = ""
  BY <1>1, <1>2, <1>3 DEF GroupFields
<1>4. CASE rows[i].key # ""
  BY <1>1, <1>2, <1>4 DEF GroupFields
<1>. QED
  BY <1>3, <1>4

LEMMA JoinIds ==
  \A g : \A i \in Nat : DOMAIN g = GroupFields => JoinGroup(g, i).ids = Append(g.ids, i)
BY JoinFields

LEMMA EmptyGroup ==
  ASSUME NEW s, NEW k \in Nat, From(s, k) = {}
  PROVE  GroupSound(NoGroup, s, k)
<1>1. /\ DOMAIN NoGroup = GroupFields /\ NoGroup.mode = "prompt" /\ NoGroup.ids = <<>>
      /\ NoGroup.keyed = <<>> /\ NoGroup.keyOrder = <<>> /\ NoGroup.unkeyed = <<>>
  BY DEF NoGroup, GroupFields
<1>2. <<>> \in Seq(1..k) /\ <<>> \in Seq(STRING) /\ Len(<<>>) = 0 /\ DOMAIN <<>> = {} /\ ToSet(<<>>) = {}
  BY DEF ToSet
<1>3. Rising(<<>>)
  BY <1>2 DEF Rising
<1>4. KeysSound(NoGroup, s, k)
  BY <1>1, <1>2 DEF KeysSound
<1>. QED
  BY <1>1, <1>2, <1>3, <1>4 DEF GroupSound

(* A row of another source changes nothing.                                *)
LEMMA GroupWaits ==
  ASSUME NEW g, NEW s, NEW k \in Nat, GroupSound(g, s, k), rows[k + 1].source # s
  PROVE  GroupSound(g, s, k + 1)
<1>1. From(s, k + 1) = From(s, k)
  BY FromNext
<1>. QED
  BY <1>1, Widen DEF GroupSound, KeysSound

(* A row of the group's source joins it.                                   *)
LEMMA KeysJoin ==
  ASSUME CoalesceTypeOK, NEW g, NEW s, NEW k \in 0..(Len(rows) - 1), GroupSound(g, s, k), rows[k + 1].source = s
  PROVE  KeysSound(JoinGroup(g, k + 1), s, k + 1)
<1>. DEFINE x == rows[k + 1].key
            h == JoinGroup(g, k + 1)
<1>1. From(s, k + 1) = From(s, k) \cup {k + 1} /\ x \in STRING
  <2>1. k \in Nat /\ k + 1 \in Positions
    BY RowFields DEF Positions
  <2>. QED
    BY <2>1, RowFields, FromNext
<1>2. \A i \in From(s, k) : i \in Nat /\ i < k + 1
  BY DEF From
<1>3. KeysSound(g, s, k) /\ DOMAIN g = GroupFields
  BY DEF GroupSound
<1>0. /\ h.keyed = IF x = "" THEN g.keyed ELSE Put(g.keyed, x, k + 1)
      /\ h.keyOrder = IF x = "" THEN g.keyOrder
                      ELSE IF x \in DOMAIN g.keyed THEN g.keyOrder ELSE Append(g.keyOrder, x)
  <2>1. /\ x = "" => h.keyed = g.keyed /\ h.keyOrder = g.keyOrder
        /\ x # "" => h.keyed = Put(g.keyed, x, k + 1)
        /\ x # "" /\ Known(g.keyed, x) => h.keyOrder = g.keyOrder
        /\ x # "" /\ ~Known(g.keyed, x) => h.keyOrder = Append(g.keyOrder, x)
    <3>1. k + 1 \in Nat
      BY RowFields
    <3>2. PICK i \in Nat : i = k + 1
      BY <3>1
    <3>3. /\ rows[i].key = "" => JoinGroup(g, i).keyed = g.keyed /\ JoinGroup(g, i).keyOrder = g.keyOrder
          /\ rows[i].key # "" => JoinGroup(g, i).keyed = Put(g.keyed, rows[i].key, i)
          /\ rows[i].key # "" /\ Known(g.keyed, rows[i].key) => JoinGroup(g, i).keyOrder = g.keyOrder
          /\ rows[i].key # "" /\ ~Known(g.keyed, rows[i].key) =>
               JoinGroup(g, i).keyOrder = Append(g.keyOrder, rows[i].key)
      BY <1>3, JoinFields
    <3>. QED
      BY <3>2, <3>3
  <2>. HIDE DEF x, h
  <2>2. CASE x = ""
    BY <2>1, <2>2, Zenon
  <2>3. CASE x # "" /\ x \in DOMAIN g.keyed
    BY <2>1, <2>3, Zenon DEF Known
  <2>4. CASE x # "" /\ x \notin DOMAIN g.keyed
    BY <2>1, <2>4, Zenon DEF Known
  <2>. QED
    BY <2>2, <2>3, <2>4
<1>. HIDE DEF h
<1>4. CASE x = ""
  <2>1. h.keyOrder = g.keyOrder /\ h.keyed = g.keyed
    BY <1>0, <1>4
  <2>2. {rows[i].key : i \in From(s, k + 1)} \ {""} = {rows[i].key : i \in From(s, k)} \ {""}
    BY <1>1, <1>4
  <2>3. \A y \in DOMAIN g.keyed : y # "" /\ y # x
    BY <1>3, <1>4 DEF KeysSound
  <2>. HIDE DEF x
  <2>4. \A y \in DOMAIN h.keyed :
       /\ h.keyed[y] \in From(s, k + 1) /\ rows[h.keyed[y]].key = y
       /\ \A i \in From(s, k + 1) : rows[i].key = y => i <= h.keyed[y]
    BY <1>1, <1>3, <2>1, <2>3 DEF KeysSound, x
  <2>5. KeysSound(h, s, k + 1)
    BY <1>3, <2>1, <2>2, <2>4 DEF KeysSound
  <2>. QED
    BY <2>5 DEF h
<1>5. CASE x # ""
  <2>1. h.keyed = Put(g.keyed, x, k + 1)
    BY <1>0, <1>5
  <2>2. h.keyOrder = IF x \in DOMAIN g.keyed THEN g.keyOrder ELSE Append(g.keyOrder, x)
    BY <1>0, <1>5
  <2>3. /\ DOMAIN h.keyed = DOMAIN g.keyed \cup {x} /\ h.keyed[x] = k + 1
        /\ \A y \in DOMAIN g.keyed : y # x => h.keyed[y] = g.keyed[y]
    BY <2>1 DEF Put
  <2>4. {rows[i].key : i \in From(s, k + 1)} \ {""} = ({rows[i].key : i \in From(s, k)} \ {""}) \cup {x}
    BY <1>1, <1>5
  <2>5. \A y \in DOMAIN h.keyed :
       /\ h.keyed[y] \in From(s, k + 1) /\ rows[h.keyed[y]].key = y
       /\ \A i \in From(s, k + 1) : rows[i].key = y => i <= h.keyed[y]
    <3>. TAKE y \in DOMAIN h.keyed
    <3>1. CASE y = x
      BY <3>1, <1>1, <1>2, <2>3
    <3>2. CASE y # x
      BY <3>2, <1>1, <1>3, <2>3 DEF KeysSound
    <3>. QED
      BY <3>1, <3>2
  <2>6. /\ h.keyOrder \in Seq(STRING)
        /\ \A i, j \in 1..Len(h.keyOrder) : h.keyOrder[i] = h.keyOrder[j] => i = j
        /\ ToSet(h.keyOrder) = DOMAIN h.keyed
    <3>1. CASE x \in DOMAIN g.keyed
      BY <3>1, <1>3, <2>2, <2>3 DEF KeysSound
    <3>2. CASE x \notin DOMAIN g.keyed
      <4>. DEFINE o == g.keyOrder
      <4>1. o \in Seq(STRING) /\ h.keyOrder = Append(o, x) /\ ToSet(o) = DOMAIN g.keyed
        BY <3>2, <1>3, <2>2 DEF KeysSound
      <4>2. \A i, j \in 1..Len(o) : o[i] = o[j] => i = j
        BY <1>3 DEF KeysSound
      <4>. HIDE DEF o, x
      <4>3. ToSet(Append(o, x)) = DOMAIN h.keyed
        BY <1>1, <2>3, <4>1, AppendSet
      <4>4. \A i \in 1..Len(o) : o[i] # x
        BY <3>2, <4>1 DEF ToSet
      <4>5. /\ Len(Append(o, x)) = Len(o) + 1 /\ Len(o) \in Nat /\ Append(o, x) \in Seq(STRING)
            /\ \A i \in 1..Len(o) : Append(o, x)[i] = o[i]
            /\ Append(o, x)[Len(o) + 1] = x
        BY <1>1, <4>1
      <4>6. \A i, j \in 1..Len(Append(o, x)) : Append(o, x)[i] = Append(o, x)[j] => i = j
        BY <4>2, <4>4, <4>5
      <4>. QED
        BY <4>1, <4>3, <4>5, <4>6
    <3>. QED
      BY <3>1, <3>2
  <2>7. KeysSound(h, s, k + 1)
    BY <1>3, <2>3, <2>4, <2>5, <2>6 DEF KeysSound
  <2>. QED
    BY <2>7 DEF h
<1>. QED
  BY <1>4, <1>5

LEMMA GroupJoins ==
  ASSUME CoalesceTypeOK, NEW g, NEW s, NEW k \in 0..(Len(rows) - 1), GroupSound(g, s, k), rows[k + 1].source = s
  PROVE  GroupSound(JoinGroup(g, k + 1), s, k + 1)
<1>. DEFINE h == JoinGroup(g, k + 1)
<1>1. k \in Nat /\ From(s, k + 1) = From(s, k) \cup {k + 1}
  <2>1. k \in Nat
    BY RowFields
  <2>. QED
    BY <2>1, FromNext
<1>2. /\ DOMAIN h = GroupFields /\ h.ids = Append(g.ids, k + 1)
      /\ h.mode = IF rows[k + 1].mode = "steer" THEN "steer" ELSE g.mode
      /\ h.unkeyed = IF rows[k + 1].key = "" THEN Append(g.unkeyed, k + 1) ELSE g.unkeyed
  <2>0. DOMAIN g = GroupFields
    BY DEF GroupSound
  <2>1. DOMAIN g = GroupFields /\ k + 1 \in Nat
    BY <1>1, <2>0
  <2>2. DOMAIN h = GroupFields /\ h.ids = Append(g.ids, k + 1)
    BY <2>1, JoinFields
  <2>3. h.mode = IF rows[k + 1].mode = "steer" THEN "steer" ELSE g.mode
    BY <2>1, JoinFields
  <2>4. h.unkeyed = IF rows[k + 1].key = "" THEN Append(g.unkeyed, k + 1) ELSE g.unkeyed
    BY <2>1, JoinFields
  <2>. QED
    BY <2>2, <2>3, <2>4
<1>3. KeysSound(h, s, k + 1)
  BY KeysJoin
<1>. HIDE DEF h
<1>4. h.ids \in Seq(1..(k + 1)) /\ Rising(h.ids) /\ ToSet(h.ids) = From(s, k + 1)
  BY <1>1, <1>2, AppendRising DEF GroupSound
<1>5. /\ h.mode \in {"prompt", "steer"}
      /\ h.mode = "steer" <=> \E i \in From(s, k + 1) : rows[i].mode = "steer"
  BY <1>1, <1>2 DEF GroupSound
<1>6. /\ h.unkeyed \in Seq(1..(k + 1)) /\ Rising(h.unkeyed)
      /\ ToSet(h.unkeyed) = {i \in From(s, k + 1) : rows[i].key = ""}
  <2>1. CASE rows[k + 1].key = ""
    <3>1. h.unkeyed = Append(g.unkeyed, k + 1) /\ g.unkeyed \in Seq(1..k) /\ Rising(g.unkeyed)
      BY <1>2, <2>1 DEF GroupSound
    <3>2. {i \in From(s, k + 1) : rows[i].key = ""} = {i \in From(s, k) : rows[i].key = ""} \cup {k + 1}
      BY <1>1, <2>1
    <3>3. /\ h.unkeyed \in Seq(1..(k + 1)) /\ Rising(h.unkeyed)
          /\ ToSet(h.unkeyed) = ToSet(g.unkeyed) \cup {k + 1}
      BY <1>1, <3>1, AppendRising
    <3>. QED
      BY <3>2, <3>3 DEF GroupSound
  <2>2. CASE rows[k + 1].key # ""
    <3>1. h.unkeyed = g.unkeyed /\ g.unkeyed \in Seq(1..k) /\ Rising(g.unkeyed)
      BY <1>2, <2>2 DEF GroupSound
    <3>2. {i \in From(s, k + 1) : rows[i].key = ""} = {i \in From(s, k) : rows[i].key = ""}
      BY <1>1, <2>2
    <3>3. g.unkeyed \in Seq(1..(k + 1))
      BY <1>1, <3>1, Widen
    <3>. QED
      BY <3>1, <3>2, <3>3 DEF GroupSound
  <2>. QED
    BY <2>1, <2>2
<1>7. GroupSound(h, s, k + 1)
  BY <1>2, <1>3, <1>4, <1>5, <1>6 DEF GroupSound
<1>. QED
  BY <1>7 DEF h

-----------------------------------------------------------------------------
(* The invariant of the loop.                                              *)
OutSound(out, k) ==
  /\ out \in Seq({DirectBatch(i) : i \in From(Direct, k)})
  /\ \A i \in From(Direct, k) : \E j \in 1..Len(out) : out[j] = DirectBatch(i)
  /\ \A i, j \in 1..Len(out) : i < j => out[i].ids[1] < out[j].ids[1]

OrderSound(order, groups) ==
  /\ order \in Seq(DOMAIN groups)
  /\ \A s \in DOMAIN groups : \E j \in 1..Len(order) : order[j] = s
  /\ \A i, j \in 1..Len(order) : i < j => groups[order[i]].ids[1] < groups[order[j]].ids[1]

GroupsSound(groups, k) ==
  /\ DOMAIN groups = {rows[i].source : i \in 1..k} \ {Direct}
  /\ \A s \in DOMAIN groups : GroupSound(groups[s], s, k)

AccSound(acc, k) ==
  /\ DOMAIN acc = {"out", "order", "groups"}
  /\ OutSound(acc.out, k)
  /\ GroupsSound(acc.groups, k)
  /\ OrderSound(acc.order, acc.groups)

LEMMA AddFields ==
  ASSUME NEW acc, NEW i \in Nat, DOMAIN acc = {"out", "order", "groups"}
  PROVE  /\ DOMAIN AddRow(acc, i) = {"out", "order", "groups"}
         /\ rows[i].source = Direct => /\ AddRow(acc, i).out = Append(acc.out, DirectBatch(i))
                                       /\ AddRow(acc, i).groups = acc.groups /\ AddRow(acc, i).order = acc.order
         /\ rows[i].source # Direct => AddRow(acc, i).out = acc.out
         /\ rows[i].source # Direct /\ Known(acc.groups, rows[i].source) =>
              /\ AddRow(acc, i).order = acc.order
              /\ AddRow(acc, i).groups = Put(acc.groups, rows[i].source, JoinGroup(acc.groups[rows[i].source], i))
         /\ rows[i].source # Direct /\ ~Known(acc.groups, rows[i].source) =>
              /\ AddRow(acc, i).order = Append(acc.order, rows[i].source)
              /\ AddRow(acc, i).groups = Put(acc.groups, rows[i].source, JoinGroup(NoGroup, i))
<1>. DEFINE s == rows[i].source
            g == IF Known(acc.groups, s) THEN acc.groups[s] ELSE NoGroup
<1>1. AddRow(acc, i) =
        IF s = Direct THEN [acc EXCEPT !.out = Append(@, DirectBatch(i))]
        ELSE [acc EXCEPT !.groups = Put(@, s, JoinGroup(g, i)),
                         !.order = IF Known(acc.groups, s) THEN @ ELSE Append(@, s)]
  BY DEF AddRow
<1>. HIDE DEF s
<1>2. CASE s = Direct
  <2>1. AddRow(acc, i) = [acc EXCEPT !.out = Append(@, DirectBatch(i))]
    BY <1>1, <1>2
  <2>. QED
    BY <1>2, <2>1 DEF s
<1>3. CASE s # Direct
  <2>1. AddRow(acc, i) = [acc EXCEPT !.groups = Put(@, s, JoinGroup(g, i)),
                         !.order = IF Known(acc.groups, s) THEN @ ELSE Append(@, s)]
    BY <1>1, <1>3
  <2>. HIDE DEF g
  <2>2. /\ DOMAIN AddRow(acc, i) = {"out", "order", "groups"}
        /\ AddRow(acc, i).out = acc.out
        /\ AddRow(acc, i).groups = Put(acc.groups, s, JoinGroup(g, i))
        /\ AddRow(acc, i).order = IF Known(acc.groups, s) THEN acc.order ELSE Append(acc.order, s)
    BY <2>1
  <2>3. g = IF Known(acc.groups, s) THEN acc.groups[s] ELSE NoGroup
    BY DEF g
  <2>. QED
    BY <1>3, <2>2, <2>3 DEF s
<1>. QED
  BY <1>2, <1>3

(* The first row of a group is fixed when the group is made.               *)
LEMMA GroupFirst ==
  ASSUME NEW g, NEW s, NEW k \in Nat, GroupSound(g, s, k), From(s, k) # {}
  PROVE  /\ Len(g.ids) \in Nat \ {0} /\ g.ids[1] \in From(s, k)
         /\ Append(g.ids, k + 1)[1] = g.ids[1]
<1>1. g.ids \in Seq(1..k) /\ ToSet(g.ids) = From(s, k)
  BY DEF GroupSound
<1>2. Len(g.ids) \in Nat /\ DOMAIN g.ids = 1..Len(g.ids)
  BY <1>1
<1>3. Len(g.ids) # 0
  BY <1>1, <1>2 DEF ToSet
<1>4. 1 \in 1..Len(g.ids)
  BY <1>2, <1>3
<1>5. g.ids[1] \in From(s, k)
  BY <1>1, <1>2, <1>4 DEF ToSet
<1>6. Append(g.ids, k + 1)[1] = g.ids[1]
  BY <1>1, <1>4
<1>. QED
  BY <1>2, <1>3, <1>5, <1>6

LEMMA FromSome ==
  ASSUME NEW k \in Nat, NEW s \in {rows[i].source : i \in 1..k}
  PROVE  From(s, k) # {}
BY DEF From

LEMMA FirstDirect ==
  ASSUME NEW i \in Nat
  PROVE  DirectBatch(i).ids = <<i>> /\ DirectBatch(i).ids[1] = i
BY DEF DirectBatch

LEMMA SourcesNext ==
  ASSUME NEW k \in Nat
  PROVE  {rows[i].source : i \in 1..(k + 1)} = {rows[i].source : i \in 1..k} \cup {rows[k + 1].source}
<1>1. 1..(k + 1) = 1..k \cup {k + 1}
  OBVIOUS
<1>. QED
  BY <1>1

LEMMA DirectAdds ==
  ASSUME CoalesceTypeOK, NEW acc, NEW k \in Nat, k + 1 \in Positions, AccSound(acc, k), rows[k + 1].source = Direct
  PROVE  AccSound(AddRow(acc, k + 1), k + 1)
<1>. DEFINE new == AddRow(acc, k + 1)
            B == {DirectBatch(i) : i \in From(Direct, k)}
            C == {DirectBatch(i) : i \in From(Direct, k + 1)}
<1>1. /\ DOMAIN acc = {"out", "order", "groups"} /\ OutSound(acc.out, k)
      /\ GroupsSound(acc.groups, k) /\ OrderSound(acc.order, acc.groups) /\ k + 1 \in Nat
  BY DEF AccSound
<1>2. /\ DOMAIN new = {"out", "order", "groups"} /\ new.out = Append(acc.out, DirectBatch(k + 1))
      /\ new.groups = acc.groups /\ new.order = acc.order
  BY <1>1, AddFields
<1>. HIDE DEF new
<1>3. From(Direct, k + 1) = From(Direct, k) \cup {k + 1}
  BY FromNext
<1>4. GroupsSound(acc.groups, k + 1)
  <2>1. DOMAIN acc.groups = {rows[i].source : i \in 1..(k + 1)} \ {Direct}
    BY <1>1, SourcesNext DEF GroupsSound
  <2>2. \A s \in DOMAIN acc.groups : GroupSound(acc.groups[s], s, k + 1)
    <3>1. \A s \in DOMAIN acc.groups : s # Direct /\ GroupSound(acc.groups[s], s, k)
      BY <1>1 DEF GroupsSound
    <3>. QED
      BY <3>1, GroupWaits
  <2>. QED
    BY <2>1, <2>2 DEF GroupsSound
<1>5. OutSound(new.out, k + 1)
  <2>1. acc.out \in Seq(B) /\ B \subseteq C /\ DirectBatch(k + 1) \in C
    BY <1>1, <1>3 DEF OutSound
  <2>2. acc.out \in Seq(C)
    BY <2>1, SeqMonotonic
  <2>3. /\ new.out \in Seq(C) /\ Len(acc.out) \in Nat /\ Len(new.out) = Len(acc.out) + 1
        /\ \A i \in 1..Len(acc.out) : new.out[i] = acc.out[i]
        /\ new.out[Len(acc.out) + 1] = DirectBatch(k + 1)
    <3>. HIDE DEF C
    <3>. QED
      BY <1>2, <2>1, <2>2, AppendProperties
  <2>4. \A j \in 1..Len(acc.out) : acc.out[j].ids[1] \in Nat /\ acc.out[j].ids[1] < k + 1
    <3>. TAKE j \in 1..Len(acc.out)
    <3>1. acc.out[j] \in B
      BY <2>1
    <3>2. PICK i \in From(Direct, k) : acc.out[j] = DirectBatch(i)
      BY <3>1
    <3>3. i \in Nat /\ i < k + 1
      BY DEF From
    <3>. QED
      BY <3>2, <3>3, FirstDirect
  <2>5. DirectBatch(k + 1).ids[1] = k + 1
    BY FirstDirect
  <2>6. \A i, j \in 1..Len(new.out) : i < j => new.out[i].ids[1] < new.out[j].ids[1]
    <3>. TAKE i, j \in 1..Len(new.out)
    <3>. HAVE i < j
    <3>1. i \in 1..Len(acc.out)
      BY <2>3
    <3>2. CASE j \in 1..Len(acc.out)
      <4>1. acc.out[i].ids[1] < acc.out[j].ids[1]
        BY <1>1, <3>1, <3>2 DEF OutSound
      <4>. QED
        BY <2>3, <3>1, <3>2, <4>1
    <3>3. CASE j = Len(acc.out) + 1
      BY <2>3, <2>4, <2>5, <3>1, <3>3
    <3>. QED
      BY <2>3, <3>2, <3>3
  <2>7. \A i \in From(Direct, k + 1) : \E j \in 1..Len(new.out) : new.out[j] = DirectBatch(i)
    <3>1. ASSUME NEW i \in From(Direct, k) PROVE \E j \in 1..Len(new.out) : new.out[j] = DirectBatch(i)
      <4>1. PICK j \in 1..Len(acc.out) : acc.out[j] = DirectBatch(i)
        BY <1>1 DEF OutSound
      <4>2. j \in 1..Len(new.out) /\ new.out[j] = DirectBatch(i)
        BY <2>3, <4>1
      <4>. QED
        BY <4>2
    <3>2. Len(acc.out) + 1 \in 1..Len(new.out)
      BY <2>3
    <3>. QED
      BY <1>3, <2>3, <3>1, <3>2
  <2>. QED
    BY <2>3, <2>6, <2>7 DEF OutSound
<1>6. AccSound(new, k + 1)
  BY <1>1, <1>2, <1>4, <1>5 DEF AccSound
<1>. QED
  BY <1>6 DEF new

LEMMA GroupAdds ==
  ASSUME CoalesceTypeOK, NEW acc, NEW k \in Nat, k + 1 \in Positions, AccSound(acc, k), rows[k + 1].source # Direct
  PROVE  AccSound(AddRow(acc, k + 1), k + 1)
<1>. DEFINE new == AddRow(acc, k + 1)
            s   == rows[k + 1].source
<1>1. /\ DOMAIN acc = {"out", "order", "groups"} /\ OutSound(acc.out, k)
      /\ GroupsSound(acc.groups, k) /\ OrderSound(acc.order, acc.groups)
      /\ k + 1 \in Nat /\ k \in 0..(Len(rows) - 1)
  BY RowFields DEF AccSound, Positions
<1>2. /\ DOMAIN new = {"out", "order", "groups"} /\ new.out = acc.out
      /\ Known(acc.groups, s) => /\ new.order = acc.order
                                 /\ new.groups = Put(acc.groups, s, JoinGroup(acc.groups[s], k + 1))
      /\ ~Known(acc.groups, s) => /\ new.order = Append(acc.order, s)
                                  /\ new.groups = Put(acc.groups, s, JoinGroup(NoGroup, k + 1))
  BY <1>1, AddFields
<1>. HIDE DEF new
<1>3. From(Direct, k + 1) = From(Direct, k)
  BY FromNext
<1>4. OutSound(new.out, k + 1)
  BY <1>1, <1>2, <1>3 DEF OutSound
<1>5. \A t \in DOMAIN acc.groups :
        /\ GroupSound(acc.groups[t], t, k) /\ From(t, k) # {}
        /\ acc.groups[t].ids[1] \in From(t, k)
        /\ Append(acc.groups[t].ids, k + 1)[1] = acc.groups[t].ids[1]
        /\ t # s => GroupSound(acc.groups[t], t, k + 1)
  <2>. TAKE t \in DOMAIN acc.groups
  <2>1. GroupSound(acc.groups[t], t, k) /\ From(t, k) # {}
    BY <1>1, FromSome DEF GroupsSound
  <2>2. /\ acc.groups[t].ids[1] \in From(t, k)
        /\ Append(acc.groups[t].ids, k + 1)[1] = acc.groups[t].ids[1]
    BY <2>1, GroupFirst
  <2>3. t # s => GroupSound(acc.groups[t], t, k + 1)
    BY <2>1, GroupWaits
  <2>. QED
    BY <2>1, <2>2, <2>3
<1>6. DOMAIN new.groups = DOMAIN acc.groups \cup {s}
  BY <1>2 DEF Put
<1>7. DOMAIN new.groups = {rows[i].source : i \in 1..(k + 1)} \ {Direct}
  BY <1>1, <1>6, SourcesNext DEF GroupsSound
<1>8. \A t \in DOMAIN acc.groups : t # s => new.groups[t] = acc.groups[t]
  BY <1>2 DEF Put
<1>9. CASE s \in DOMAIN acc.groups
  <2>1. new.order = acc.order /\ new.groups[s] = JoinGroup(acc.groups[s], k + 1)
    BY <1>2, <1>9 DEF Put, Known
  <2>2. GroupSound(new.groups[s], s, k + 1)
    BY <1>1, <1>5, <1>9, <2>1, GroupJoins
  <2>3. GroupsSound(new.groups, k + 1)
    BY <1>5, <1>6, <1>7, <1>8, <2>2 DEF GroupsSound
  <2>4. new.groups[s].ids[1] = acc.groups[s].ids[1]
    <3>1. DOMAIN acc.groups[s] = GroupFields
      BY <1>5, <1>9 DEF GroupSound
    <3>2. new.groups[s].ids = Append(acc.groups[s].ids, k + 1)
      BY <1>1, <2>1, <3>1, JoinIds, Zenon
    <3>. QED
      BY <1>5, <1>9, <3>2
  <2>5. \A t \in DOMAIN acc.groups : new.groups[t].ids[1] = acc.groups[t].ids[1]
    BY <1>8, <2>4
  <2>6. DOMAIN new.groups = DOMAIN acc.groups
    BY <1>6, <1>9
  <2>7. OrderSound(new.order, new.groups)
    <3>1. acc.order \in Seq(DOMAIN acc.groups) /\ \A i \in 1..Len(acc.order) : acc.order[i] \in DOMAIN acc.groups
      BY <1>1 DEF OrderSound
    <3>2. /\ \A t \in DOMAIN acc.groups : \E j \in 1..Len(acc.order) : acc.order[j] = t
          /\ \A i, j \in 1..Len(acc.order) : i < j =>
               acc.groups[acc.order[i]].ids[1] < acc.groups[acc.order[j]].ids[1]
      BY <1>1 DEF OrderSound
    <3>3. \A i, j \in 1..Len(acc.order) : i < j =>
               new.groups[acc.order[i]].ids[1] < new.groups[acc.order[j]].ids[1]
      BY <2>5, <3>1, <3>2
    <3>. QED
      BY <2>1, <2>6, <3>1, <3>2, <3>3 DEF OrderSound
  <2>8. AccSound(new, k + 1)
    BY <1>2, <1>4, <2>3, <2>7 DEF AccSound
  <2>. QED
    BY <2>8 DEF new
<1>10. CASE s \notin DOMAIN acc.groups
  <2>1. new.order = Append(acc.order, s) /\ new.groups[s] = JoinGroup(NoGroup, k + 1)
    BY <1>2, <1>10 DEF Put, Known
  <2>2. From(s, k) = {}
    <3>1. s \notin {rows[i].source : i \in 1..k}
      BY <1>1, <1>10 DEF GroupsSound
    <3>. QED
      BY <3>1 DEF From
  <2>3. GroupSound(NoGroup, s, k)
    BY <2>2, EmptyGroup
  <2>4. GroupSound(new.groups[s], s, k + 1)
    BY <1>1, <2>1, <2>3, GroupJoins
  <2>5. GroupsSound(new.groups, k + 1)
    BY <1>5, <1>6, <1>7, <1>8, <2>4 DEF GroupsSound
  <2>6. new.groups[s].ids[1] = k + 1
    <3>1. DOMAIN NoGroup = GroupFields /\ NoGroup.ids = <<>>
      BY DEF NoGroup, GroupFields
    <3>2. new.groups[s].ids = Append(<<>>, k + 1)
      BY <1>1, <2>1, <3>1, JoinIds, Zenon
    <3>. QED
      BY <3>2
  <2>. DEFINE o == acc.order
              D == DOMAIN new.groups
  <2>7. \A t \in DOMAIN acc.groups : /\ new.groups[t].ids[1] = acc.groups[t].ids[1]
                                     /\ acc.groups[t].ids[1] \in Nat /\ acc.groups[t].ids[1] < k + 1
    BY <1>5, <1>8, <1>10 DEF From
  <2>8. o \in Seq(DOMAIN acc.groups) /\ \A i \in 1..Len(o) : o[i] \in DOMAIN acc.groups
    BY <1>1 DEF OrderSound
  <2>9. o \in Seq(D) /\ s \in D
    BY <1>6, <2>8, SeqMonotonic
  <2>10. /\ new.order \in Seq(D) /\ Len(o) \in Nat /\ Len(new.order) = Len(o) + 1
         /\ \A i \in 1..Len(o) : new.order[i] = o[i]
         /\ new.order[Len(o) + 1] = s
    <3>. HIDE DEF D, s
    <3>. QED
      BY <2>1, <2>9, AppendProperties
  <2>11. \A i, j \in 1..Len(new.order) : i < j => new.groups[new.order[i]].ids[1] < new.groups[new.order[j]].ids[1]
    <3>. TAKE i, j \in 1..Len(new.order)
    <3>. HAVE i < j
    <3>1. i \in 1..Len(o) /\ new.order[i] = o[i] /\ o[i] \in DOMAIN acc.groups
      BY <2>8, <2>10
    <3>2. CASE j \in 1..Len(o)
      <4>1. new.order[j] = o[j] /\ o[j] \in DOMAIN acc.groups
        BY <2>8, <2>10, <3>2
      <4>2. acc.groups[o[i]].ids[1] < acc.groups[o[j]].ids[1]
        BY <1>1, <3>1, <3>2 DEF OrderSound
      <4>. QED
        BY <2>7, <3>1, <4>1, <4>2
    <3>3. CASE j = Len(o) + 1
      BY <2>6, <2>7, <2>10, <3>1, <3>3
    <3>. QED
      BY <2>10, <3>2, <3>3
  <2>12. \A t \in D : \E j \in 1..Len(new.order) : new.order[j] = t
    <3>1. ASSUME NEW t \in DOMAIN acc.groups PROVE \E j \in 1..Len(new.order) : new.order[j] = t
      <4>1. PICK j \in 1..Len(o) : o[j] = t
        BY <1>1 DEF OrderSound
      <4>2. j \in 1..Len(new.order) /\ new.order[j] = t
        BY <2>10, <4>1
      <4>. QED
        BY <4>2
    <3>2. Len(o) + 1 \in 1..Len(new.order)
      BY <2>10
    <3>. QED
      BY <1>6, <2>10, <3>1, <3>2
  <2>13. OrderSound(new.order, new.groups)
    BY <2>10, <2>11, <2>12 DEF OrderSound
  <2>14. AccSound(new, k + 1)
    BY <1>2, <1>4, <2>5, <2>13 DEF AccSound
  <2>. QED
    BY <2>14 DEF new
<1>. QED
  BY <1>9, <1>10

LEMMA AccStarts == AccSound(NoRows, 0)
<1>1. /\ DOMAIN NoRows = {"out", "order", "groups"} /\ NoRows.out = <<>>
      /\ NoRows.order = <<>> /\ NoRows.groups = <<>>
  BY DEF NoRows
<1>2. DOMAIN <<>> = {} /\ Len(<<>>) = 0 /\ \A S : <<>> \in Seq(S)
  BY EmptySeq
<1>3. From(Direct, 0) = {} /\ {rows[i].source : i \in 1..0} = {}
  BY DEF From
<1>4. OutSound(<<>>, 0)
  BY <1>2, <1>3 DEF OutSound
<1>5. GroupsSound(<<>>, 0)
  BY <1>2, <1>3 DEF GroupsSound
<1>6. OrderSound(<<>>, <<>>)
  BY <1>2 DEF OrderSound
<1>. QED
  BY <1>1, <1>4, <1>5, <1>6 DEF AccSound

LEMMA LoopSound == ASSUME CoalesceTypeOK PROVE AccSound(Loop[Len(rows)], Len(rows))
<1>. DEFINE m == Len(rows)
            T == {k \in 0..m : AccSound(Loop[k], k)}
<1>1. m \in Nat /\ Loop[0] = NoRows /\ \A k \in 1..m : Loop[k] = AddRow(Loop[k - 1], k)
  BY RowFields, LoopIs
<1>. HIDE DEF m
<1>2. 0 \in T
  BY <1>1, AccStarts
<1>3. \A k \in 0..(m - 1) : k \in T => k + 1 \in T
  <2>. TAKE k \in 0..(m - 1)
  <2>1. k \in Nat /\ k + 1 \in 1..m /\ k + 1 \in 0..m /\ (k + 1) - 1 = k /\ k + 1 \in Positions
    BY <1>1 DEF m, Positions
  <2>2. Loop[k + 1] = AddRow(Loop[k], k + 1)
    BY <1>1, <2>1
  <2>3. AccSound(Loop[k], k) => AccSound(AddRow(Loop[k], k + 1), k + 1)
    BY <2>1, DirectAdds, GroupAdds
  <2>. QED
    BY <2>1, <2>2, <2>3
<1>4. 0..m \subseteq T
  <2>. HIDE DEF T
  <2>. QED
    BY <1>1, <1>2, <1>3, InductionUpTo
<1>. QED
  BY <1>1, <1>4 DEF m

-----------------------------------------------------------------------------
(* What the batches are.                                                   *)
Acc     == Loop[Len(rows)]
Directs == Len(Acc.out)
GroupOf(k) == Acc.groups[Acc.order[k - Directs]]

LEMMA BatchesAre ==
  ASSUME CoalesceTypeOK
  PROVE  /\ Directs \in Nat /\ Len(Acc.order) \in Nat
         /\ DOMAIN Batches = 1..(Directs + Len(Acc.order))
         /\ \A k \in 1..Directs : Batches[k] = Acc.out[k]
         /\ \A k \in (Directs + 1)..(Directs + Len(Acc.order)) :
              Batches[k] = GroupBatch(Acc.order[k - Directs], GroupOf(k))
<1>. DEFINE n == Len(Acc.order)
            gb(j) == GroupBatch(Acc.order[j], Acc.groups[Acc.order[j]])
            gs == [j \in 1..n |-> gb(j)]
            S == {DirectBatch(i) : i \in From(Direct, Len(rows))} \cup {gb(j) : j \in 1..n}
<1>1. AccSound(Acc, Len(rows))
  BY LoopSound DEF Acc
<1>2. Acc.out \in Seq({DirectBatch(i) : i \in From(Direct, Len(rows))}) /\ n \in Nat
  BY <1>1 DEF AccSound, OutSound, OrderSound
<1>3. Acc.out \in Seq(S)
  BY <1>2, SeqMonotonic
<1>4. gs \in Seq(S) /\ Len(gs) = n
  <2>1. gs \in [1..n -> S]
    OBVIOUS
  <2>. HIDE DEF gs, S, n
  <2>. QED
    BY <1>2, <2>1
<1>5. Batches = Acc.out \o gs
  BY DEF Batches, CoalesceRows, Acc
<1>6. /\ Acc.out \o gs \in Seq(S) /\ Len(Acc.out \o gs) = Directs + n /\ Directs \in Nat
      /\ \A i \in 1..(Directs + n) : (Acc.out \o gs)[i] = IF i <= Directs THEN Acc.out[i] ELSE gs[i - Directs]
  <2>. HIDE DEF gs, S, n
  <2>1. Directs = Len(Acc.out) /\ Directs \in Nat
    BY <1>3 DEF Directs
  <2>2. /\ Acc.out \o gs \in Seq(S) /\ Len(Acc.out \o gs) = Len(Acc.out) + Len(gs)
        /\ \A i \in 1..(Len(Acc.out) + Len(gs)) :
             (Acc.out \o gs)[i] = IF i <= Len(Acc.out) THEN Acc.out[i] ELSE gs[i - Len(Acc.out)]
    BY <1>3, <1>4, ConcatProperties
  <2>. QED
    BY <1>4, <2>1, <2>2
<1>7. \A k \in (Directs + 1)..(Directs + n) : k - Directs \in 1..n /\ ~(k <= Directs) /\ k \in 1..(Directs + n)
  BY <1>2, <1>6
<1>8. \A k \in (Directs + 1)..(Directs + n) : Batches[k] = gs[k - Directs]
  <2>. HIDE DEF gs, n
  <2>. QED
    BY <1>5, <1>6, <1>7
<1>9. \A k \in (Directs + 1)..(Directs + n) : Batches[k] = GroupBatch(Acc.order[k - Directs], GroupOf(k))
  BY <1>7, <1>8 DEF GroupOf
<1>10. \A k \in 1..Directs : Batches[k] = Acc.out[k]
  <2>. HIDE DEF gs, n
  <2>. QED
    BY <1>2, <1>5, <1>6
<1>11. DOMAIN Batches = 1..(Directs + n)
  <2>. HIDE DEF gs, n, S
  <2>. QED
    BY <1>5, <1>6
<1>. QED
  BY <1>2, <1>6, <1>9, <1>10, <1>11

LEMMA DirectIs ==
  ASSUME CoalesceTypeOK, NEW k \in 1..Directs
  PROVE  \E i \in Positions : /\ rows[i].source = Direct /\ Batches[k] = DirectBatch(i)
                              /\ Batches[k].source = Direct /\ Batches[k].ids = <<i>>
                              /\ Batches[k].mode = rows[i].mode /\ Batches[k].ids[1] = i
                              /\ IdsOf(Batches[k]) = {i}
<1>1. AccSound(Acc, Len(rows)) /\ Len(rows) \in Nat
  BY LoopSound, RowFields DEF Acc
<1>2. Acc.out[k] \in {DirectBatch(i) : i \in From(Direct, Len(rows))}
  BY <1>1 DEF AccSound, OutSound, Directs
<1>3. PICK i \in From(Direct, Len(rows)) : Acc.out[k] = DirectBatch(i)
  BY <1>2
<1>4. i \in Positions /\ rows[i].source = Direct
  BY <1>1 DEF From, Positions
<1>5. Batches[k] = DirectBatch(i)
  BY <1>3, BatchesAre
<1>6. Batches[k].ids = <<i>> /\ Batches[k].source = Direct /\ Batches[k].mode = rows[i].mode
  BY <1>5 DEF DirectBatch
<1>7. IdsOf(Batches[k]) = {i}
  BY <1>6 DEF IdsOf, ToSet
<1>. QED
  BY <1>4, <1>5, <1>6, <1>7

LEMMA GroupIs ==
  ASSUME CoalesceTypeOK, NEW k \in (Directs + 1)..(Directs + Len(Acc.order))
  PROVE  LET b == Batches[k]
             s == Acc.order[k - Directs]
         IN  /\ k - Directs \in 1..Len(Acc.order) /\ s \in DOMAIN Acc.groups /\ s # Direct
             /\ GroupSound(GroupOf(k), s, Len(rows)) /\ b = GroupBatch(s, GroupOf(k))
             /\ b.source = s /\ b.mode = GroupOf(k).mode /\ b.ids = GroupOf(k).ids
             /\ b.ids[1] \in Positions
             /\ IdsOf(b) = From(s, Len(rows))
<1>. DEFINE b == Batches[k]
            s == Acc.order[k - Directs]
<1>1. AccSound(Acc, Len(rows)) /\ Len(rows) \in Nat
  BY LoopSound, RowFields DEF Acc
<1>2. k - Directs \in 1..Len(Acc.order)
  BY BatchesAre
<1>3. s \in DOMAIN Acc.groups
  BY <1>1, <1>2 DEF AccSound, OrderSound
<1>4. s # Direct /\ GroupSound(GroupOf(k), s, Len(rows)) /\ From(s, Len(rows)) # {}
  <2>1. GroupsSound(Acc.groups, Len(rows))
    BY <1>1 DEF AccSound
  <2>2. s \in {rows[i].source : i \in 1..Len(rows)} /\ s # Direct
    BY <1>3, <2>1 DEF GroupsSound
  <2>3. GroupSound(GroupOf(k), s, Len(rows))
    BY <1>3, <2>1 DEF GroupsSound, GroupOf
  <2>. QED
    BY <1>1, <2>2, <2>3, FromSome
<1>5. b = GroupBatch(s, GroupOf(k))
  BY BatchesAre
<1>6. b.source = s /\ b.mode = GroupOf(k).mode /\ b.ids = GroupOf(k).ids
  BY <1>5 DEF GroupBatch
<1>7. b.ids[1] \in From(s, Len(rows))
  BY <1>1, <1>4, <1>6, GroupFirst
<1>8. IdsOf(b) = From(s, Len(rows))
  BY <1>4, <1>6 DEF IdsOf, GroupSound
<1>9. b.ids[1] \in Positions
  BY <1>7 DEF From, Positions
<1>. QED
  BY <1>2, <1>3, <1>4, <1>5, <1>6, <1>8, <1>9

(* The batches stand in the order of their first rows, direct ones first.  *)
LEMMA BatchOrder ==
  ASSUME CoalesceTypeOK, NEW k \in DOMAIN Batches, NEW j \in DOMAIN Batches, k < j
  PROVE  \/ k \in 1..Directs /\ j \in (Directs + 1)..(Directs + Len(Acc.order))
         \/ /\ k \in 1..Directs <=> j \in 1..Directs
            /\ Batches[k].ids[1] < Batches[j].ids[1]
<1>0. /\ Directs \in Nat /\ Len(Acc.order) \in Nat /\ DOMAIN Batches = 1..(Directs + Len(Acc.order))
      /\ k \in Nat /\ j \in Nat
  BY BatchesAre
<1>1. AccSound(Acc, Len(rows))
  BY LoopSound DEF Acc
<1>2. CASE j \in 1..Directs
  <2>1. k \in 1..Directs
    BY <1>0, <1>2
  <2>2. Acc.out[k].ids[1] < Acc.out[j].ids[1]
    BY <1>1, <1>2, <2>1 DEF AccSound, OutSound, Directs
  <2>. QED
    BY <1>2, <2>1, <2>2, BatchesAre
<1>3. CASE k \in (Directs + 1)..(Directs + Len(Acc.order))
  <2>1. j \in (Directs + 1)..(Directs + Len(Acc.order)) /\ k \notin 1..Directs /\ j \notin 1..Directs
    BY <1>0, <1>3
  <2>2. /\ Batches[k].ids = GroupOf(k).ids /\ k - Directs \in 1..Len(Acc.order)
        /\ Batches[j].ids = GroupOf(j).ids /\ j - Directs \in 1..Len(Acc.order)
    BY <1>3, <2>1, GroupIs
  <2>3. k - Directs < j - Directs
    BY <1>0
  <2>4. GroupOf(k).ids[1] < GroupOf(j).ids[1]
    BY <1>1, <2>2, <2>3 DEF AccSound, OrderSound, GroupOf
  <2>. QED
    BY <2>1, <2>2, <2>4
<1>. QED
  BY <1>0, <1>2, <1>3

-----------------------------------------------------------------------------
(* The batches of any queue partition it: the positions up to Directs are  *)
(* the direct messages, those after it the groups of Acc.order.            *)
LEMMA PartitionHolds == CoalesceTypeOK => Partition
<1>. SUFFICES ASSUME CoalesceTypeOK PROVE Partition
  OBVIOUS
<1>. DEFINE sources == {rows[i].source : i \in DOMAIN rows} \ {Direct}
            since(b) == b.ids[1]
            D == 1..Directs
            G == (Directs + 1)..(Directs + Len(Acc.order))
<1>1. /\ DOMAIN rows = Positions /\ Len(rows) \in Nat /\ Directs \in Nat
      /\ DOMAIN Batches = D \cup G /\ D \cap G = {} /\ DOMAIN Batches \subseteq Nat
  BY RowFields, BatchesAre
<1>2. \A s : From(s, Len(rows)) = {i \in Positions : rows[i].source = s}
  BY DEF From, Positions
<1>3. AccSound(Acc, Len(rows))
  BY LoopSound DEF Acc
<1>4. \A k \in D : \E i \in Positions : /\ rows[i].source = Direct /\ Batches[k].source = Direct
                                        /\ Batches[k].ids = <<i>> /\ Batches[k].mode = rows[i].mode
                                        /\ Batches[k].ids[1] = i /\ IdsOf(Batches[k]) = {i}
  BY DirectIs
<1>5. \A k \in G : /\ Batches[k].source # Direct /\ Batches[k].ids[1] \in Positions
                   /\ IdsOf(Batches[k]) = From(Batches[k].source, Len(rows))
                   /\ Batches[k].source = Acc.order[k - Directs]
                   /\ Batches[k].mode = GroupOf(k).mode
                   /\ GroupSound(GroupOf(k), Batches[k].source, Len(rows))
  BY GroupIs
<1>6. ASSUME NEW i \in Positions, NEW k \in DOMAIN Batches, NEW j \in DOMAIN Batches,
             i \in IdsOf(Batches[k]), i \in IdsOf(Batches[j]), k < j
      PROVE  FALSE
  <2>1. CASE k \in D /\ j \in G
    <3>1. rows[i].source = Direct
      BY <1>4, <1>6, <2>1
    <3>2. rows[i].source = Batches[j].source /\ Batches[j].source # Direct
      BY <1>2, <1>5, <1>6, <2>1
    <3>. QED
      BY <3>1, <3>2
  <2>2. CASE Batches[k].ids[1] < Batches[j].ids[1] /\ k \in D /\ j \in D
    <3>1. Batches[k].ids[1] = i
      BY <1>4, <1>6, <2>2
    <3>2. Batches[j].ids[1] = i
      BY <1>4, <1>6, <2>2
    <3>3. i \in Nat
      BY DEF Positions
    <3>. QED
      BY <2>2, <3>1, <3>2, <3>3
  <2>3. CASE Batches[k].ids[1] < Batches[j].ids[1] /\ k \in G /\ j \in G
    <3>1. Batches[k].source = rows[i].source /\ Batches[j].source = rows[i].source
      BY <1>2, <1>5, <1>6, <2>3
    <3>2. GroupOf(k) = GroupOf(j)
      <4>1. Acc.order[k - Directs] = Acc.order[j - Directs]
        BY <1>5, <2>3, <3>1
      <4>. QED
        BY <4>1 DEF GroupOf
    <3>3. Batches[k].ids = Batches[j].ids
      BY <2>3, <3>2, GroupIs
    <3>4. Batches[k].ids[1] \in Nat
      BY <1>5, <2>3 DEF Positions
    <3>. QED
      BY <2>3, <3>3, <3>4
  <2>4. \/ k \in D /\ j \in G
        \/ /\ k \in D <=> j \in D
           /\ Batches[k].ids[1] < Batches[j].ids[1]
    BY <1>6, BatchOrder
  <2>5. k \in D \cup G /\ j \in D \cup G
    BY <1>1
  <2>. HIDE DEF D, G
  <2>. QED
    BY <2>1, <2>2, <2>3, <2>4, <2>5
<1>7. ASSUME NEW i \in Positions
      PROVE  \E k \in DOMAIN Batches : i \in IdsOf(Batches[k])
  <2>1. CASE rows[i].source = Direct
    <3>1. i \in From(Direct, Len(rows))
      BY <1>2, <2>1
    <3>2. PICK k \in 1..Directs : Acc.out[k] = DirectBatch(i)
      BY <1>3, <3>1 DEF AccSound, OutSound, Directs
    <3>3. Batches[k].ids = <<i>>
      BY <3>2, BatchesAre DEF DirectBatch
    <3>4. i \in IdsOf(Batches[k])
      BY <3>3 DEF IdsOf, ToSet
    <3>. QED
      BY <1>1, <3>4
  <2>2. CASE rows[i].source # Direct
    <3>1. rows[i].source \in DOMAIN Acc.groups
      BY <1>3, <2>2 DEF AccSound, GroupsSound, Positions
    <3>2. PICK j \in 1..Len(Acc.order) : Acc.order[j] = rows[i].source
      BY <1>3, <3>1 DEF AccSound, OrderSound
    <3>3. Directs + j \in G /\ (Directs + j) - Directs = j
      BY <1>1, BatchesAre
    <3>4. IdsOf(Batches[Directs + j]) = From(rows[i].source, Len(rows))
      BY <1>5, <3>2, <3>3
    <3>5. i \in IdsOf(Batches[Directs + j]) /\ Directs + j \in DOMAIN Batches
      BY <1>1, <1>2, <3>3, <3>4
    <3>. QED
      BY <3>5
  <2>. QED
    BY <2>1, <2>2
<1>8. \A i \in DOMAIN rows : \E k \in DOMAIN Batches : \A j \in DOMAIN Batches : i \in IdsOf(Batches[j]) <=> j = k
  <2>. TAKE i \in DOMAIN rows
  <2>1. PICK k \in DOMAIN Batches : i \in IdsOf(Batches[k])
    BY <1>1, <1>7
  <2>2. ASSUME NEW j \in DOMAIN Batches, i \in IdsOf(Batches[j]) PROVE j = k
    <3>1. ~(j < k) /\ ~(k < j)
      BY <1>1, <1>6, <2>1, <2>2
    <3>2. j \in Nat /\ k \in Nat
      BY <1>1
    <3>. QED
      BY <3>1, <3>2
  <2>. QED
    BY <2>1, <2>2
<1>9. ASSUME NEW k \in DOMAIN Batches
      PROVE  LET b == Batches[k] IN
             IF b.source = Direct
               THEN \E i \in DOMAIN rows : b.ids = <<i>> /\ b.mode = rows[i].mode
               ELSE /\ IdsOf(b) = {i \in DOMAIN rows : rows[i].source = b.source}
                    /\ b.mode = "steer" <=> \E i \in IdsOf(b) : rows[i].mode = "steer"
  <2>1. CASE k \in D
    BY <1>1, <1>4, <2>1
  <2>2. CASE k \in G
    <3>. DEFINE b == Batches[k]
    <3>1. b.source # Direct /\ IdsOf(b) = From(b.source, Len(rows)) /\ b.mode = GroupOf(k).mode
      BY <1>5, <2>2
    <3>2. GroupOf(k).mode = "steer" <=> \E i \in From(b.source, Len(rows)) : rows[i].mode = "steer"
      BY <1>5, <2>2 DEF GroupSound
    <3>. HIDE DEF b
    <3>3. IdsOf(b) = {i \in DOMAIN rows : rows[i].source = b.source}
      BY <1>1, <1>2, <3>1
    <3>4. b.mode = "steer" <=> \E i \in IdsOf(b) : rows[i].mode = "steer"
      BY <3>1, <3>2
    <3>. QED
      BY <3>1, <3>3, <3>4 DEF b
  <2>. QED
    BY <1>1, <2>1, <2>2
<1>10. ASSUME NEW k \in DOMAIN Batches, NEW j \in DOMAIN Batches, k < j
       PROVE  \/ Batches[k].source = Direct /\ Batches[j].source # Direct
              \/ /\ Batches[k].source = Direct <=> Batches[j].source = Direct
                 /\ since(Batches[k]) < since(Batches[j])
  <2>1. \A l \in DOMAIN Batches : (Batches[l].source = Direct) <=> l \in D
    BY <1>1, <1>4, <1>5
  <2>2. CASE k \in D /\ j \in G
    BY <1>1, <2>1, <2>2
  <2>3. CASE (k \in D <=> j \in D) /\ Batches[k].ids[1] < Batches[j].ids[1]
    BY <2>1, <2>3
  <2>. QED
    BY <1>10, <2>2, <2>3, BatchOrder
<1>. QED
  BY <1>8, <1>9, <1>10 DEF Partition

-----------------------------------------------------------------------------
(* The fragments of a group are the text of its rows that counts, each     *)
(* once.                                                                   *)
Latest(s) ==
  {i \in From(s, Len(rows)) :
     rows[i].key = "" \/ \A j \in From(s, Len(rows)) : rows[j].key = rows[i].key => j <= i}

Once(f) == \A i, j \in 1..Len(f) : f[i] = f[j] => i = j

LEMMA RisingOnce ==
  ASSUME NEW f \in Seq(Nat), Rising(f)
  PROVE  Once(f)
<1>. SUFFICES ASSUME NEW i \in 1..Len(f), NEW j \in 1..Len(f), f[i] = f[j], i # j PROVE FALSE
  BY DEF Once
<1>1. f[i] \in Nat /\ f[j] \in Nat /\ (i < j \/ j < i)
  OBVIOUS
<1>. QED
  BY <1>1 DEF Rising

LEMMA ConcatOnce ==
  ASSUME NEW S, NEW a \in Seq(S), NEW b \in Seq(S), Once(a), Once(b),
         \A i \in 1..Len(a), j \in 1..Len(b) : a[i] # b[j]
  PROVE  a \o b \in Seq(S) /\ Once(a \o b) /\ ToSet(a \o b) = ToSet(a) \cup ToSet(b)
<1>. DEFINE c == a \o b
            n == Len(a)
            m == Len(b)
<1>1. /\ c \in Seq(S) /\ Len(c) = n + m /\ n \in Nat /\ m \in Nat
      /\ DOMAIN a = 1..n /\ DOMAIN b = 1..m /\ DOMAIN c = 1..(n + m)
      /\ \A i \in 1..(n + m) : c[i] = IF i <= n THEN a[i] ELSE b[i - n]
  <2>1. /\ c \in Seq(S) /\ Len(c) = n + m
        /\ \A i \in 1..(n + m) : c[i] = IF i <= n THEN a[i] ELSE b[i - n]
    BY ConcatProperties
  <2>. HIDE DEF c
  <2>. QED
    BY <2>1
<1>. HIDE DEF c, n, m
<1>2. \A i \in 1..(n + m) : \/ i \in 1..n /\ c[i] = a[i]
                            \/ i - n \in 1..m /\ c[i] = b[i - n]
  BY <1>1
<1>3. /\ \A i \in 1..n : i \in 1..(n + m) /\ c[i] = a[i]
      /\ \A i \in 1..m : n + i \in 1..(n + m) /\ c[n + i] = b[i]
  BY <1>1
<1>4. Once(c)
  <2>. SUFFICES ASSUME NEW i \in 1..(n + m), NEW j \in 1..(n + m), c[i] = c[j] PROVE i = j
    BY <1>1 DEF Once
  <2>1. CASE i \in 1..n /\ c[i] = a[i] /\ j \in 1..n /\ c[j] = a[j]
    BY <2>1 DEF Once, n
  <2>2. CASE i - n \in 1..m /\ c[i] = b[i - n] /\ j - n \in 1..m /\ c[j] = b[j - n]
    <3>1. i - n = j - n
      BY <2>2 DEF Once, m
    <3>. QED
      BY <1>1, <3>1
  <2>3. CASE i \in 1..n /\ c[i] = a[i] /\ j - n \in 1..m /\ c[j] = b[j - n]
    BY <2>3 DEF n, m
  <2>4. CASE j \in 1..n /\ c[j] = a[j] /\ i - n \in 1..m /\ c[i] = b[i - n]
    BY <2>4 DEF n, m
  <2>. QED
    BY <1>2, <2>1, <2>2, <2>3, <2>4
<1>5. ASSUME NEW x \in ToSet(c) PROVE x \in ToSet(a) \cup ToSet(b)
  <2>1. PICK i \in 1..(n + m) : c[i] = x
    BY <1>1 DEF ToSet
  <2>2. CASE i \in 1..n /\ c[i] = a[i]
    BY <1>1, <2>1, <2>2 DEF ToSet
  <2>3. CASE i - n \in 1..m /\ c[i] = b[i - n]
    BY <1>1, <2>1, <2>3 DEF ToSet
  <2>. QED
    BY <1>2, <2>2, <2>3
<1>6. ASSUME NEW x \in ToSet(a) PROVE x \in ToSet(c)
  <2>1. PICK i \in 1..n : a[i] = x
    BY <1>1 DEF ToSet
  <2>. QED
    BY <1>1, <1>3, <2>1 DEF ToSet
<1>7. ASSUME NEW x \in ToSet(b) PROVE x \in ToSet(c)
  <2>1. PICK i \in 1..m : b[i] = x
    BY <1>1 DEF ToSet
  <2>2. n + i \in DOMAIN c /\ c[n + i] = x
    BY <1>1, <1>3, <2>1
  <2>. QED
    BY <2>2 DEF ToSet
<1>8. ToSet(c) = ToSet(a) \cup ToSet(b)
  BY <1>5, <1>6, <1>7
<1>. QED
  BY <1>1, <1>4, <1>8 DEF c

(* The values of the keys, in the order of the keys.                       *)
InOrder(o, f) == [j \in 1..Len(o) |-> f[o[j]]]

LEMMA KeyedAre ==
  ASSUME NEW S, NEW o \in Seq(STRING), NEW f,
         ToSet(o) = DOMAIN f, \A x \in DOMAIN f : f[x] \in S
  PROVE  /\ InOrder(o, f) \in Seq(S) /\ Len(InOrder(o, f)) = Len(o) /\ DOMAIN InOrder(o, f) = 1..Len(o)
         /\ \A j \in 1..Len(o) : o[j] \in DOMAIN f /\ InOrder(o, f)[j] = f[o[j]]
         /\ \A x \in DOMAIN f : \E j \in 1..Len(o) : o[j] = x
<1>. DEFINE n == Len(o)
            ks == InOrder(o, f)
<1>1. n \in Nat /\ DOMAIN o = 1..n
  OBVIOUS
<1>2. /\ \A j \in 1..n : o[j] \in DOMAIN f /\ f[o[j]] \in S
      /\ \A x \in DOMAIN f : \E j \in 1..n : o[j] = x
  BY <1>1 DEF ToSet
<1>3. ks \in [1..n -> S] /\ DOMAIN ks = 1..n /\ \A j \in 1..n : ks[j] = f[o[j]]
  BY <1>2 DEF InOrder
<1>. HIDE DEF ks
<1>4. ks \in Seq(S) /\ Len(ks) = n
  <2>. HIDE DEF n
  <2>. QED
    BY <1>1, <1>3
<1>. QED
  BY <1>2, <1>3, <1>4 DEF ks

LEMMA FragsAre ==
  ASSUME CoalesceTypeOK, NEW s, NEW g, GroupSound(g, s, Len(rows))
  PROVE  /\ GroupFrags(g) \in Seq(Positions) /\ Once(GroupFrags(g))
         /\ ToSet(GroupFrags(g)) = Latest(s)
<1>. DEFINE F == From(s, Len(rows))
<1>1. PICK o, f, us : o = g.keyOrder /\ f = g.keyed /\ us = g.unkeyed
  OBVIOUS
<1>2. /\ o \in Seq(STRING) /\ Once(o) /\ ToSet(o) = DOMAIN f
      /\ DOMAIN f = {rows[i].key : i \in F} \ {""}
      /\ \A x \in DOMAIN f : /\ f[x] \in F /\ rows[f[x]].key = x
                             /\ \A i \in F : rows[i].key = x => i <= f[x]
  <2>1. KeysSound(g, s, Len(rows))
    BY DEF GroupSound
  <2>. QED
    BY <1>1, <2>1 DEF KeysSound, Once
<1>3. /\ us \in Seq(1..Len(rows)) /\ Rising(us) /\ ToSet(us) = {i \in F : rows[i].key = ""}
  BY <1>1 DEF GroupSound
<1>4. F \subseteq Positions /\ Positions \subseteq Nat /\ Len(rows) \in Nat
  BY RowFields DEF From, Positions
<1>5. us \in Seq(Positions) /\ DOMAIN us = 1..Len(us) /\ Once(us)
  <2>1. us \in Seq(Positions)
    BY <1>3 DEF Positions
  <2>2. us \in Seq(Nat)
    <3>. DEFINE n == Len(rows)
    <3>1. us \in Seq(1..n) /\ n \in Nat
      BY <1>3, <1>4
    <3>. HIDE DEF n
    <3>2. Len(us) \in Nat /\ DOMAIN us = 1..Len(us) /\ us \in [1..Len(us) -> 1..n]
      BY <3>1
    <3>3. us \in [1..Len(us) -> Nat]
      BY <3>1, <3>2
    <3>. QED
      BY <3>2, <3>3, SeqDef
  <2>3. Once(us)
    BY <1>3, <2>2, RisingOnce
  <2>4. DOMAIN us = 1..Len(us)
    BY <2>2
  <2>. QED
    BY <2>1, <2>3, <2>4
<1>6. PICK ks : ks = InOrder(o, f)
  OBVIOUS
<1>7. /\ ks \in Seq(Positions) /\ Len(ks) = Len(o) /\ DOMAIN ks = 1..Len(o)
      /\ \A j \in 1..Len(o) : o[j] \in DOMAIN f /\ ks[j] = f[o[j]]
      /\ \A x \in DOMAIN f : \E j \in 1..Len(o) : o[j] = x
  <2>1. \A x \in DOMAIN f : f[x] \in Positions
    BY <1>2, <1>4
  <2>2. o \in Seq(STRING) /\ ToSet(o) = DOMAIN f
    BY <1>2
  <2>. QED
    BY <1>6, <2>1, <2>2, KeyedAre
<1>8. \A j \in 1..Len(o) : ks[j] \in F /\ rows[ks[j]].key = o[j] /\ o[j] # ""
  BY <1>2, <1>7
<1>9. Once(ks)
  <2>. SUFFICES ASSUME NEW i \in 1..Len(o), NEW j \in 1..Len(o), ks[i] = ks[j] PROVE i = j
    BY <1>7 DEF Once
  <2>1. o[i] = o[j]
    BY <1>8
  <2>. QED
    BY <1>2, <2>1 DEF Once
<1>10. \A i \in 1..Len(us) : rows[us[i]].key = ""
  BY <1>3, <1>5 DEF ToSet
<1>11. \A i \in 1..Len(ks), j \in 1..Len(us) : ks[i] # us[j]
  <2>. SUFFICES ASSUME NEW i \in 1..Len(o), NEW j \in 1..Len(us), ks[i] = us[j] PROVE FALSE
    BY <1>7
  <2>. QED
    BY <1>8, <1>10
<1>12. ks \o us \in Seq(Positions) /\ Once(ks \o us) /\ ToSet(ks \o us) = ToSet(ks) \cup ToSet(us)
  BY <1>5, <1>7, <1>9, <1>11, ConcatOnce
<1>13. ASSUME NEW x \in ToSet(ks) PROVE x \in Latest(s)
  <2>1. PICK j \in 1..Len(o) : ks[j] = x
    BY <1>7 DEF ToSet
  <2>2. x \in F /\ rows[x].key \in DOMAIN f /\ f[rows[x].key] = x
    <3>1. x \in F /\ rows[x].key = o[j]
      BY <1>8, <2>1
    <3>2. o[j] \in DOMAIN f /\ f[o[j]] = x
      BY <1>7, <2>1
    <3>. QED
      BY <3>1, <3>2
  <2>3. \A i \in F : rows[i].key = rows[x].key => i <= x
    <3>1. PICK y \in DOMAIN f : y = rows[x].key /\ f[y] = x
      BY <2>2
    <3>2. \A i \in F : rows[i].key = y => i <= f[y]
      BY <1>2, Zenon
    <3>. QED
      BY <3>1, <3>2
  <2>. QED
    BY <2>2, <2>3 DEF Latest
<1>14. ASSUME NEW x \in Latest(s), rows[x].key # "" PROVE x \in ToSet(ks)
  <2>1. x \in F /\ \A j \in F : rows[j].key = rows[x].key => j <= x
    BY <1>14 DEF Latest
  <2>2. rows[x].key \in DOMAIN f
    BY <1>2, <1>14, <2>1
  <2>3. PICK j \in 1..Len(o) : o[j] = rows[x].key
    BY <1>7, <2>2
  <2>4. ks[j] = f[rows[x].key] /\ f[rows[x].key] \in F
    BY <1>2, <1>7, <2>2, <2>3
  <2>5. f[rows[x].key] <= x /\ x <= f[rows[x].key]
    BY <1>2, <2>1, <2>2
  <2>6. x \in Nat /\ f[rows[x].key] \in Nat
    BY <1>4, <2>1, <2>4
  <2>7. ks[j] = x
    BY <2>4, <2>5, <2>6
  <2>. QED
    BY <1>7, <2>7 DEF ToSet
<1>15. ToSet(us) = {x \in Latest(s) : rows[x].key = ""}
  BY <1>3 DEF Latest
<1>16. ToSet(ks) \cup ToSet(us) = Latest(s)
  BY <1>13, <1>14, <1>15
<1>17. GroupFrags(g) = ks \o us
  BY <1>1, <1>6 DEF GroupFrags, InOrder
<1>. QED
  BY <1>12, <1>16, <1>17

LEMMA OnceCount ==
  ASSUME NEW S, NEW f \in Seq(S), Once(f)
  PROVE  IsFiniteSet(ToSet(f)) /\ Cardinality(ToSet(f)) = Len(f)
<1>1. Len(f) \in Nat /\ f \in [1..Len(f) -> ToSet(f)] /\ DOMAIN f = 1..Len(f)
  <2>1. Len(f) \in Nat /\ f \in [1..Len(f) -> S] /\ DOMAIN f = 1..Len(f)
    OBVIOUS
  <2>. QED
    BY <2>1 DEF ToSet
<1>2. f \in Bijection(1..Len(f), ToSet(f))
  BY <1>1 DEF Once, ToSet, Bijection, Injection, Surjection, IsInjective
<1>3. IsFiniteSet(1..Len(f)) /\ Cardinality(1..Len(f)) = Len(f)
  BY <1>1, FS_Interval
<1>. QED
  BY <1>2, <1>3, FS_Bijection DEF ExistsBijection

(* The batch of a group: what it counts, and what it says of it.           *)
Capped(b, all, m) ==
  /\ Once(all) /\ ToSet(all) = Counting(b)
  /\ IsFiniteSet(Counting(b)) /\ Cardinality(Counting(b)) = Len(all)
  /\ b.frags = SubSeq(all, 1, m) /\ b.omitted = Len(all) - m
  /\ cfg.frags > 0 => m + (IF m < Len(all) THEN 1 ELSE 0) <= cfg.frags
  /\ cfg.bytes > 0 => Used(all)[m] <= cfg.bytes
  /\ m < Len(all) => \/ cfg.frags > 0 /\ Len(all) > cfg.frags
                     \/ cfg.bytes > 0 /\ Used(all)[Len(all)] > cfg.bytes

LEMMA CappedBatch ==
  ASSUME CoalesceTypeOK, NEW k \in DOMAIN Batches, Batches[k].source # Direct
  PROVE  \E all \in Seq(Positions) : \E m \in 0..Len(all) : Capped(Batches[k], all, m)
<1>. DEFINE b == Batches[k]
            s == Acc.order[k - Directs]
            all == GroupFrags(GroupOf(k))
<1>1. k \in (Directs + 1)..(Directs + Len(Acc.order))
  <2>1. k \in 1..(Directs + Len(Acc.order)) /\ Directs \in Nat /\ Len(Acc.order) \in Nat
    BY BatchesAre
  <2>2. k \notin 1..Directs
    BY DirectIs
  <2>. QED
    BY <2>1, <2>2
<1>2. /\ GroupSound(GroupOf(k), s, Len(rows)) /\ b = GroupBatch(s, GroupOf(k))
      /\ IdsOf(b) = From(s, Len(rows))
  BY <1>1, GroupIs
<1>3. all \in Seq(Positions) /\ Once(all) /\ ToSet(all) = Latest(s)
  BY <1>2, FragsAre
<1>4. Counting(b) = Latest(s)
  BY <1>2 DEF Counting, Latest
<1>5. IsFiniteSet(ToSet(all)) /\ Cardinality(ToSet(all)) = Len(all)
  BY <1>3, OnceCount
<1>6. b.frags = ApplyCaps(all).kept /\ b.omitted = ApplyCaps(all).omitted
  BY <1>2 DEF GroupBatch
<1>. HIDE DEF all, b
<1>7. PICK m \in 0..Len(all) :
           /\ ApplyCaps(all).kept = SubSeq(all, 1, m)
           /\ ApplyCaps(all).omitted = Len(all) - m
           /\ cfg.frags > 0 => m + (IF m < Len(all) THEN 1 ELSE 0) <= cfg.frags
           /\ cfg.bytes > 0 => Used(all)[m] <= cfg.bytes
           /\ m < Len(all) => \/ cfg.frags > 0 /\ Len(all) > cfg.frags
                              \/ cfg.bytes > 0 /\ Used(all)[Len(all)] > cfg.bytes
  BY <1>3, ApplyCapsIs
<1>. QED
  BY <1>3, <1>4, <1>5, <1>6, <1>7 DEF b, Capped

(* A group's fragments are, each once, the rows that count; the caps keep  *)
(* the first of them and tell the number of the others.                    *)
LEMMA LatestWinsHolds == CoalesceTypeOK => LatestWins
<1>. SUFFICES ASSUME CoalesceTypeOK, NEW k \in DOMAIN Batches, Batches[k].source # Direct
              PROVE  LET b == Batches[k] IN
                     /\ ToSet(b.frags) \subseteq Counting(b)
                     /\ \A i \in DOMAIN b.frags, j \in DOMAIN b.frags : b.frags[i] = b.frags[j] => i = j
                     /\ Len(b.frags) + b.omitted = Cardinality(Counting(b))
  BY DEF LatestWins
<1>. DEFINE b == Batches[k]
<1>0. PICK all \in Seq(Positions) : \E m \in 0..Len(all) : Capped(b, all, m)
  BY CappedBatch
<1>m. PICK m \in 0..Len(all) : Capped(b, all, m)
  BY <1>0
<1>1. /\ Once(all) /\ ToSet(all) = Counting(b) /\ Cardinality(Counting(b)) = Len(all)
      /\ b.frags = SubSeq(all, 1, m) /\ b.omitted = Len(all) - m
  BY <1>m DEF Capped
<1>2. /\ b.frags \in Seq(Positions) /\ Len(b.frags) = m /\ DOMAIN b.frags = 1..m
      /\ \A i \in 1..m : b.frags[i] = all[i] /\ i \in 1..Len(all)
  BY <1>1, UsedOfPrefix
<1>. HIDE DEF b
<1>3. ToSet(b.frags) \subseteq ToSet(all)
  BY <1>2 DEF ToSet
<1>4. \A i \in DOMAIN b.frags, j \in DOMAIN b.frags : b.frags[i] = b.frags[j] => i = j
  BY <1>1, <1>2 DEF Once
<1>5. Len(b.frags) + b.omitted = Cardinality(Counting(b))
  BY <1>1, <1>2
<1>. QED
  BY <1>1, <1>3, <1>4, <1>5 DEF b

-----------------------------------------------------------------------------
(* The bytes of fragments that are each used once depend on which they     *)
(* are, not on their order: they are the sum over the queue's positions of *)
(* the rows that are among them.                                           *)
Lens(S) == [k \in Positions |-> IF k \in S THEN rows[k].len ELSE 0]
Weight(S) == CHOOSE f : SumEq(f, Lens(S), Len(rows))

LEMMA WeightIs ==
  ASSUME CoalesceTypeOK, NEW S
  PROVE  /\ Weight(S)[0] = 0
         /\ \A k \in Positions : Weight(S)[k] = Weight(S)[k - 1] + Lens(S)[k]
         /\ \A k \in 0..Len(rows) : Weight(S)[k] \in Nat
<1>. DEFINE n == Len(rows)
            w == Weight(S)
            v == Lens(S)
<1>1. n \in Nat /\ Positions = 1..n
  BY RowFields DEF Positions
<1>2. SumEq(w, v, n)
  <2>1. \E f : SumEq(f, v, n)
    BY <1>1, SumExists
  <2>. QED
    BY <2>1, Zenon DEF Weight
<1>3. \A k \in 1..n : v[k] \in Nat
  BY <1>1, RowFields DEF Lens
<1>. HIDE DEF w, v
<1>4. w = [k \in 0..n |-> IF k = 0 THEN 0 ELSE w[k - 1] + v[k]]
  BY <1>2 DEF SumEq
<1>. HIDE DEF n
<1>5. w[0] = 0 /\ \A k \in 1..n : w[k] = w[k - 1] + v[k]
  BY <1>1, <1>4
<1>6. \A k \in 0..n : w[k] \in Nat
  <2>. DEFINE T == {k \in 0..n : w[k] \in Nat}
  <2>1. 0 \in T
    BY <1>1, <1>5
  <2>2. \A k \in 0..(n - 1) : k \in T => k + 1 \in T
    <3>. TAKE k \in 0..(n - 1)
    <3>1. k + 1 \in 1..n /\ k + 1 \in 0..n /\ k + 1 - 1 = k
      BY <1>1
    <3>2. w[k + 1] = w[k] + v[k + 1] /\ v[k + 1] \in Nat
      BY <1>3, <1>5, <3>1
    <3>. QED
      BY <3>1, <3>2
  <2>. HIDE DEF T
  <2>3. 0..n \subseteq T
    BY <1>1, <2>1, <2>2, InductionUpTo
  <2>. QED
    BY <2>3 DEF T
<1>. QED
  BY <1>1, <1>5, <1>6 DEF w, v, n

LEMMA WeightOfNone ==
  ASSUME CoalesceTypeOK
  PROVE  Weight({})[Len(rows)] = 0
<1>. DEFINE n == Len(rows)
            w == Weight({})
            T == {k \in 0..n : w[k] = 0}
<1>1. n \in Nat /\ Positions = 1..n
  BY RowFields DEF Positions
<1>2. w[0] = 0 /\ \A k \in 1..n : w[k] = w[k - 1] + Lens({})[k]
  BY <1>1, WeightIs
<1>3. \A k \in 1..n : Lens({})[k] = 0
  BY <1>1 DEF Lens
<1>. HIDE DEF w, n
<1>4. 0 \in T
  BY <1>1, <1>2
<1>5. \A k \in 0..(n - 1) : k \in T => k + 1 \in T
  <2>. TAKE k \in 0..(n - 1)
  <2>1. k + 1 \in 1..n /\ k + 1 \in 0..n /\ k + 1 - 1 = k
    BY <1>1
  <2>2. w[k + 1] = w[k] + 0
    BY <1>2, <1>3, <2>1
  <2>. QED
    BY <2>1, <2>2
<1>. HIDE DEF T
<1>6. 0..n \subseteq T
  BY <1>1, <1>4, <1>5, InductionUpTo
<1>. QED
  BY <1>1, <1>6 DEF T, w, n

LEMMA WeightAdds ==
  ASSUME CoalesceTypeOK, NEW S, NEW x \in Positions, x \notin S
  PROVE  Weight(S \cup {x})[Len(rows)] = Weight(S)[Len(rows)] + rows[x].len
<1>. DEFINE n == Len(rows)
            w == Weight(S)
            u == Weight(S \cup {x})
            v == Lens(S)
            y == Lens(S \cup {x})
            part(k) == IF x <= k THEN rows[x].len ELSE 0
            T == {k \in 0..n : u[k] = w[k] + part(k)}
<1>1. n \in Nat /\ Positions = 1..n /\ rows[x].len \in Nat /\ x \in 1..n
  BY RowFields DEF Positions
<1>2. /\ w[0] = 0 /\ \A k \in 1..n : w[k] = w[k - 1] + v[k]
      /\ \A k \in 0..n : w[k] \in Nat
  BY <1>1, WeightIs
<1>3. u[0] = 0 /\ \A k \in 1..n : u[k] = u[k - 1] + y[k]
  BY <1>1, WeightIs
<1>4. \A k \in 1..n : /\ v[k] \in Nat
                      /\ k # x => y[k] = v[k]
                      /\ k = x => v[k] = 0 /\ y[k] = rows[x].len
  BY <1>1, RowFields DEF Lens
<1>. HIDE DEF w, u, n, v, y
<1>5. 0 \in T
  BY <1>1, <1>2, <1>3
<1>6. \A k \in 0..(n - 1) : k \in T => k + 1 \in T
  <2>. SUFFICES ASSUME NEW k \in 0..(n - 1), u[k] = w[k] + part(k)
                PROVE  k + 1 \in 0..n /\ u[k + 1] = w[k + 1] + part(k + 1)
    BY <1>1
  <2>1. k + 1 \in 1..n /\ k + 1 \in 0..n /\ k \in 0..n /\ k + 1 - 1 = k /\ k \in Nat /\ x \in Nat
    BY <1>1
  <2>2. /\ u[k + 1] = u[k] + y[k + 1] /\ w[k + 1] = w[k] + v[k + 1]
        /\ w[k] \in Nat /\ v[k + 1] \in Nat
    BY <1>2, <1>3, <1>4, <2>1
  <2>3. CASE k + 1 = x
    <3>1. v[k + 1] = 0 /\ y[k + 1] = rows[x].len
      BY <1>4, <2>1, <2>3
    <3>2. part(k) = 0 /\ part(k + 1) = rows[x].len
      BY <2>1, <2>3
    <3>. QED
      BY <1>1, <2>1, <2>2, <3>1, <3>2
  <2>4. CASE k + 1 # x
    <3>1. y[k + 1] = v[k + 1]
      BY <1>4, <2>1, <2>4
    <3>2. part(k + 1) = part(k) /\ part(k) \in Nat
      BY <1>1, <2>1, <2>4
    <3>. HIDE DEF part
    <3>. QED
      BY <2>1, <2>2, <3>1, <3>2
  <2>. QED
    BY <2>3, <2>4
<1>7. 0..n \subseteq T
  <2>. HIDE DEF T
  <2>. QED
    BY <1>1, <1>5, <1>6, InductionUpTo
<1>8. n \in T /\ part(n) = rows[x].len
  BY <1>1, <1>7
<1>9. u[n] = w[n] + part(n)
  BY <1>8
<1>. QED
  BY <1>8, <1>9 DEF w, u, n

LEMMA BytesOfSet ==
  ASSUME CoalesceTypeOK, NEW f \in Seq(Positions), Once(f)
  PROVE  Bytes(f) = Weight(ToSet(f))[Len(rows)]
<1>. DEFINE n == Len(rows)
            m == Len(f)
            used == Used(f)
            first(k) == {f[i] : i \in 1..k}
            T == {k \in 0..m : used[k] = Weight(first(k))[n]}
<1>1. m \in Nat /\ DOMAIN f = 1..m /\ \A k \in 1..m : f[k] \in Positions
  OBVIOUS
<1>2. used[0] = 0 /\ \A k \in 1..m : used[k] = used[k - 1] + rows[f[k]].len
  BY <1>1, UsedIs
<1>3. 0 \in T
  <2>1. first(0) = {}
    OBVIOUS
  <2>2. Weight(first(0))[n] = 0
    BY <2>1, WeightOfNone
  <2>. HIDE DEF first, used, n
  <2>. QED
    BY <1>1, <1>2, <2>2
<1>. HIDE DEF used
<1>4. \A k \in 0..(m - 1) : k \in T => k + 1 \in T
  <2>. SUFFICES ASSUME NEW k \in 0..(m - 1), used[k] = Weight(first(k))[n]
                PROVE  k + 1 \in 0..m /\ used[k + 1] = Weight(first(k + 1))[n]
    BY <1>1
  <2>1. k + 1 \in 1..m /\ k + 1 \in 0..m /\ k + 1 - 1 = k /\ k \in Nat
    BY <1>1
  <2>2. first(k + 1) = first(k) \cup {f[k + 1]}
    <3>1. \A i \in 1..(k + 1) : i \in 1..k \/ i = k + 1
      BY <2>1
    <3>2. \A i \in 1..k : i \in 1..(k + 1)
      BY <2>1
    <3>3. k + 1 \in 1..(k + 1)
      BY <2>1
    <3>. QED
      BY <3>1, <3>2, <3>3
  <2>3. f[k + 1] \notin first(k)
    <3>. SUFFICES ASSUME NEW i \in 1..k, f[i] = f[k + 1] PROVE FALSE
      OBVIOUS
    <3>1. i \in 1..m /\ i # k + 1
      BY <2>1
    <3>. QED
      BY <2>1, <3>1 DEF Once
  <2>4. f[k + 1] \in Positions
    BY <1>1, <2>1
  <2>. HIDE DEF first
  <2>5. Weight(first(k) \cup {f[k + 1]})[n] = Weight(first(k))[n] + rows[f[k + 1]].len
    BY <2>3, <2>4, WeightAdds
  <2>6. used[k + 1] = used[k] + rows[f[k + 1]].len
    BY <1>2, <2>1
  <2>. QED
    BY <2>1, <2>2, <2>5, <2>6
<1>5. 0..m \subseteq T
  <2>. HIDE DEF T
  <2>. QED
    BY <1>1, <1>3, <1>4, InductionUpTo
<1>6. first(m) = ToSet(f)
  BY <1>1 DEF ToSet
<1>7. used[m] = Weight(first(m))[n]
  <2>1. m \in T
    <3>1. m \in 0..m
      BY <1>1
    <3>. HIDE DEF T
    <3>. QED
      BY <1>5, <3>1
  <2>. HIDE DEF first, n
  <2>. QED
    BY <2>1
<1>. QED
  BY <1>6, <1>7 DEF Bytes, used

(* A finite set as a sequence: each element once.                          *)
LEMMA SetToSeqIs ==
  ASSUME NEW S, IsFiniteSet(S)
  PROVE  SetToSeq(S) \in Seq(S) /\ Once(SetToSeq(S)) /\ ToSet(SetToSeq(S)) = S
<1>. DEFINE n == Cardinality(S)
            f == SetToSeq(S)
<1>1. n \in Nat /\ \E g : g \in Bijection(1..n, S)
  BY FS_CardinalityType DEF ExistsBijection
<1>2. \E g \in [1..n -> S] : IsInjective(g)
  BY <1>1 DEF Bijection, Injection
<1>3. f \in [1..n -> S] /\ IsInjective(f)
  BY <1>2, Zenon DEF SetToSeq
<1>. HIDE DEF f, n
<1>4. f \in Seq(S) /\ Len(f) = n
  BY <1>1, <1>3
<1>5. Once(f)
  BY <1>3, <1>4 DEF Once, IsInjective
<1>6. ToSet(f) \in SUBSET S
  BY <1>3 DEF ToSet
<1>7. Cardinality(ToSet(f)) = Cardinality(S)
  BY <1>4, <1>5, OnceCount DEF n
<1>8. ToSet(f) = S
  BY <1>6, <1>7, FS_Subset
<1>. QED
  BY <1>4, <1>5, <1>8 DEF f

(* Whatever the queue, a capped batch is within both caps, and only a cap  *)
(* the whole group exceeds leaves anything out.                            *)
LEMMA CapsHoldOnce == CoalesceTypeOK => CapsHold
<1>. SUFFICES ASSUME CoalesceTypeOK, NEW k \in DOMAIN Batches, Batches[k].source # Direct
              PROVE  LET b == Batches[k] IN
                     /\ cfg.frags > 0 => Len(b.frags) + (IF b.omitted > 0 THEN 1 ELSE 0) <= cfg.frags
                     /\ cfg.bytes > 0 => Bytes(b.frags) <= cfg.bytes
                     /\ b.omitted > 0 =>
                          \/ cfg.frags > 0 /\ Cardinality(Counting(b)) > cfg.frags
                          \/ cfg.bytes > 0 /\ Bytes(SetToSeq(Counting(b))) > cfg.bytes
  BY DEF CapsHold
<1>. DEFINE b == Batches[k]
<1>1. PICK all \in Seq(Positions) : \E m \in 0..Len(all) : Capped(b, all, m)
  BY CappedBatch
<1>2. PICK m \in 0..Len(all) : Capped(b, all, m)
  BY <1>1
<1>. HIDE DEF b
<1>3. /\ Once(all) /\ ToSet(all) = Counting(b)
      /\ IsFiniteSet(Counting(b)) /\ Cardinality(Counting(b)) = Len(all)
      /\ b.frags = SubSeq(all, 1, m) /\ b.omitted = Len(all) - m
      /\ cfg.frags > 0 => m + (IF m < Len(all) THEN 1 ELSE 0) <= cfg.frags
      /\ cfg.bytes > 0 => Used(all)[m] <= cfg.bytes
      /\ m < Len(all) => \/ cfg.frags > 0 /\ Len(all) > cfg.frags
                         \/ cfg.bytes > 0 /\ Used(all)[Len(all)] > cfg.bytes
  BY <1>2 DEF Capped
<1>4. Len(all) \in Nat /\ m \in Nat /\ (b.omitted > 0 <=> m < Len(all))
  BY <1>3
<1>5. Len(b.frags) = m /\ Bytes(b.frags) = Used(all)[m]
  <2>1. Len(b.frags) = m /\ Used(b.frags)[m] = Used(all)[m]
    BY <1>3, <1>4, UsedOfPrefix
  <2>. QED
    BY <2>1 DEF Bytes
<1>6. Bytes(SetToSeq(Counting(b))) = Used(all)[Len(all)]
  <2>. DEFINE c == SetToSeq(Counting(b))
  <2>1. c \in Seq(Counting(b)) /\ Once(c) /\ ToSet(c) = Counting(b)
    BY <1>3, SetToSeqIs
  <2>2. Counting(b) \subseteq Positions
    BY <1>3 DEF ToSet
  <2>. HIDE DEF c
  <2>3. c \in Seq(Positions)
    BY <2>1, <2>2, SeqMonotonic
  <2>4. Bytes(c) = Weight(Counting(b))[Len(rows)]
    BY <2>1, <2>3, BytesOfSet
  <2>5. Bytes(all) = Weight(Counting(b))[Len(rows)]
    BY <1>3, BytesOfSet
  <2>. QED
    BY <2>4, <2>5 DEF Bytes, c
<1>. QED
  BY <1>3, <1>4, <1>5, <1>6 DEF b

-----------------------------------------------------------------------------
(* Rows keep their shapes as they arrive (queue.go, Accept), and the caps  *)
(* are those the daemon started with.                                      *)
THEOREM Types == CoalesceSpec => []CoalesceTypeOK
<1>1. CoalesceInit => CoalesceTypeOK
  BY DEF CoalesceInit, CoalesceTypeOK
<1>2. CoalesceTypeOK /\ [CoalesceNext]_coalesceVars => CoalesceTypeOK'
  <2>. SUFFICES ASSUME CoalesceTypeOK, [CoalesceNext]_coalesceVars PROVE CoalesceTypeOK'
    OBVIOUS
  <2>1. ASSUME NEW r \in RowShapes, Accept(r) PROVE CoalesceTypeOK'
    BY <2>1, AppendProperties DEF Accept, CoalesceTypeOK
  <2>2. CASE UNCHANGED coalesceVars
    BY <2>2 DEF coalesceVars, CoalesceTypeOK
  <2>. QED
    BY <2>1, <2>2 DEF CoalesceNext
<1>. QED
  BY <1>1, <1>2, PTL DEF CoalesceSpec

(* Coalesce (coalesce.go) gives every pending row to exactly one batch:    *)
(* each direct message alone and first, then one group per source, each    *)
(* in the order of arrival; a group with any steer in it is a steer.       *)
THEOREM PartitionAlways == CoalesceSpec => []Partition
<1>. QED
  BY Types, PartitionHolds, PTL

(* The last write of a key wins (coalesce.go, the loop's group.keyed), no  *)
(* text is said twice, and Omitted counts exactly what the caps dropped.   *)
THEOREM LatestWinsAlways == CoalesceSpec => []LatestWins
<1>. QED
  BY Types, LatestWinsHolds, PTL

(* applyCaps (coalesce.go): no batch exceeds the fragment cap, its marker  *)
(* counted, nor the byte budget, its marker not counted, and fragments are *)
(* left out only of a group that exceeds a cap as a whole.                 *)
THEOREM CapsAlways == CoalesceSpec => []CapsHold
<1>. QED
  BY Types, CapsHoldOnce, PTL

-----------------------------------------------------------------------------
(* Module Inbox takes the batches as a set, Coalesce(S, steer), of records *)
(* with the set of their rows, and an order on them, Before.  Here the     *)
(* rows S are the queue's, big says which of them are big, and none of     *)
(* Inbox's other state plays a part.                                       *)
Queue(big) == INSTANCE Inbox WITH
  msg <- [i \in Positions |-> [source |-> rows[i].source, mode |-> rows[i].mode, big |-> big[i]]],
  Kind <- "fundi", Msgs <- {}, Legacy <- {}, Threads <- {}, MaxRows <- MaxQueue, MaxFrames <- 0,
  WireCap <- 0, Adverse <- {}, MaxHits <- 0, n <- Len(rows), st <- 0, lock <- 0, inbound <- 0,
  pc <- 0, call <- 0, todo <- 0, frame <- 0, due <- 0, sentFrames <- 0, wire <- 0, pending <- 0,
  steerBuf <- 0, eng <- 0, cur <- 0, ack <- 0, aborted <- 0, lost <- 0, phase <- 0,
  status <- 0, record <- 0, attached <- 0, xpc <- 0, recovering <- 0, halted <- 0, ran <- 0, hits <- 0

(* A batch as Inbox knows it, once deliver has made a group of a steered   *)
(* flush a steer (queue.go, deliver).                                      *)
Outline(b, steer, big) ==
  [ids |-> IdsOf(b), source |-> b.source,
   mode |-> IF steer /\ b.source # Direct /\ b.mode = "prompt" THEN "steer" ELSE b.mode,
   big |-> \E i \in IdsOf(b) : big[i]]

InboxTakes(steer, big) ==
  /\ {Outline(Batches[k], steer, big) : k \in DOMAIN Batches} = Queue(big)!Coalesce(Positions, steer)
  /\ \A k \in DOMAIN Batches, j \in DOMAIN Batches : k < j =>
       Queue(big)!Before(Outline(Batches[k], steer, big), Outline(Batches[j], steer, big))

LEMMA OutlineOfDirect ==
  ASSUME CoalesceTypeOK, NEW steer, NEW big \in [Nat -> BOOLEAN], NEW k \in DOMAIN Batches,
         NEW i \in Positions, Batches[k].source = Direct, Batches[k].mode = rows[i].mode,
         IdsOf(Batches[k]) = {i}
  PROVE  Outline(Batches[k], steer, big) = Queue(big)!DirectBatch(i)
<1>1. (\E q \in {i} : big[q]) = big[i]
  <2>1. i \in Nat
    BY DEF Positions
  <2>. QED
    BY <2>1
<1>2. Outline(Batches[k], steer, big) = [ids |-> {i}, source |-> Direct, mode |-> rows[i].mode, big |-> big[i]]
  BY <1>1 DEF Outline
<1>3. Queue(big)!DirectBatch(i) = [ids |-> {i}, source |-> "", mode |-> rows[i].mode, big |-> big[i]]
  BY DEF Queue!DirectBatch, Queue!Direct
<1>. QED
  BY <1>2, <1>3 DEF Direct

LEMMA OutlineOfGroup ==
  ASSUME CoalesceTypeOK, NEW steer, NEW big, NEW k \in (Directs + 1)..(Directs + Len(Acc.order))
  PROVE  Outline(Batches[k], steer, big) = Queue(big)!GroupBatch(Positions, Batches[k].source, steer)
<1>. DEFINE b == Batches[k]
            s == b.source
            F == From(s, Len(rows))
            msg == [i \in Positions |-> [source |-> rows[i].source, mode |-> rows[i].mode, big |-> big[i]]]
<1>1. s # Direct /\ IdsOf(b) = F /\ b.mode \in {"prompt", "steer"}
  BY GroupIs DEF GroupSound
<1>2. b.mode = "steer" <=> \E i \in F : rows[i].mode = "steer"
  BY GroupIs DEF GroupSound
<1>3. F \subseteq Positions /\ F = {i \in Positions : msg[i].source = s}
  BY DEF From, Positions
<1>. HIDE DEF b, F
<1>4. \A i \in F : msg[i].mode = rows[i].mode /\ msg[i].big = big[i]
  BY <1>3
<1>5. Queue(big)!GroupBatch(Positions, s, steer) =
        LET ids == {r \in Positions : msg[r].source = s}
        IN  [ids |-> ids, source |-> s,
             mode |-> IF steer \/ (\E r \in ids : msg[r].mode = "steer") THEN "steer" ELSE "prompt",
             big |-> \E r \in ids : msg[r].big]
  BY DEF Queue!GroupBatch
<1>6. Queue(big)!GroupBatch(Positions, s, steer) =
        [ids |-> F, source |-> s,
         mode |-> IF steer \/ (\E r \in F : msg[r].mode = "steer") THEN "steer" ELSE "prompt",
         big |-> \E r \in F : msg[r].big]
  BY <1>3, <1>5, Zenon
<1>. HIDE DEF msg
<1>7. (\E r \in F : msg[r].big) = (\E r \in F : big[r])
  BY <1>4
<1>8. (\E r \in F : msg[r].mode = "steer") <=> b.mode = "steer"
  BY <1>2, <1>4
<1>9. (IF steer \/ (\E r \in F : msg[r].mode = "steer") THEN "steer" ELSE "prompt")
        = IF steer /\ s # Direct /\ b.mode = "prompt" THEN "steer" ELSE b.mode
  BY <1>1, <1>8
<1>10. Outline(b, steer, big) =
         [ids |-> F, source |-> s,
          mode |-> IF steer /\ s # Direct /\ b.mode = "prompt" THEN "steer" ELSE b.mode,
          big |-> \E r \in F : big[r]]
  BY <1>1 DEF Outline
<1>. QED
  <2>. DEFINE m1 == IF steer \/ (\E r \in F : msg[r].mode = "steer") THEN "steer" ELSE "prompt"
              m2 == IF steer /\ s # Direct /\ b.mode = "prompt" THEN "steer" ELSE b.mode
              big1 == \E r \in F : msg[r].big
              big2 == \E r \in F : big[r]
  <2>1. Queue(big)!GroupBatch(Positions, s, steer) = [ids |-> F, source |-> s, mode |-> m1, big |-> big1]
    BY <1>6
  <2>2. Outline(b, steer, big) = [ids |-> F, source |-> s, mode |-> m2, big |-> big2]
    BY <1>10
  <2>3. m1 = m2 /\ big1 = big2
    BY <1>7, <1>9
  <2>. HIDE DEF m1, m2, big1, big2
  <2>4. Outline(b, steer, big) = Queue(big)!GroupBatch(Positions, s, steer)
    BY <2>1, <2>2, <2>3, Zenon
  <2>. QED
    BY <2>4, Zenon DEF b

(* The first row of a group is its least.                                  *)
LEMMA GroupLeast ==
  ASSUME CoalesceTypeOK, NEW k \in (Directs + 1)..(Directs + Len(Acc.order))
  PROVE  /\ Batches[k].ids[1] \in IdsOf(Batches[k])
         /\ \A q \in IdsOf(Batches[k]) : Batches[k].ids[1] <= q
<1>1. PICK f : f = Batches[k].ids
  OBVIOUS
<1>2. f \in Seq(1..Len(rows)) /\ Rising(f) /\ ToSet(f) # {} /\ Len(rows) \in Nat
  <2>1. PICK s : GroupSound(GroupOf(k), s, Len(rows)) /\ s \in DOMAIN Acc.groups /\ f = GroupOf(k).ids
    BY <1>1, GroupIs
  <2>2. AccSound(Acc, Len(rows)) /\ Len(rows) \in Nat
    BY LoopSound, RowFields DEF Acc
  <2>3. s \in {rows[i].source : i \in 1..Len(rows)}
    BY <2>1, <2>2 DEF AccSound, GroupsSound
  <2>4. From(s, Len(rows)) # {}
    BY <2>2, <2>3, FromSome
  <2>. QED
    BY <2>1, <2>2, <2>4 DEF GroupSound
<1>3. /\ Len(f) \in Nat /\ DOMAIN f = 1..Len(f) /\ 1 \in DOMAIN f
      /\ \A i \in DOMAIN f : f[i] \in Nat
  <2>. DEFINE n == Len(rows)
  <2>1. f \in Seq(1..n) /\ n \in Nat
    BY <1>2
  <2>. HIDE DEF n
  <2>2. Len(f) \in Nat /\ DOMAIN f = 1..Len(f) /\ \A i \in DOMAIN f : f[i] \in Nat
    BY <2>1
  <2>3. DOMAIN f # {}
    BY <1>2 DEF ToSet
  <2>. QED
    BY <2>2, <2>3
<1>4. ASSUME NEW q \in ToSet(f) PROVE f[1] <= q
  <2>1. PICK i \in DOMAIN f : f[i] = q
    BY <1>4 DEF ToSet
  <2>. QED
    BY <1>2, <1>3, <2>1 DEF Rising
<1>5. f[1] \in ToSet(f)
  BY <1>3 DEF ToSet
<1>. QED
  BY <1>1, <1>4, <1>5 DEF IdsOf

LEMMA InboxTakesThem ==
  ASSUME CoalesceTypeOK, NEW steer, NEW big \in [Nat -> BOOLEAN]
  PROVE  InboxTakes(steer, big)
<1>. DEFINE D == 1..Directs
            G == (Directs + 1)..(Directs + Len(Acc.order))
            out(k) == Outline(Batches[k], steer, big)
            msg == [i \in Positions |-> [source |-> rows[i].source, mode |-> rows[i].mode, big |-> big[i]]]
            dirs == {i \in Positions : rows[i].source = Direct}
            sources == {rows[i].source : i \in Positions} \ {Direct}
<1>1. DOMAIN Batches = D \cup G /\ Partition /\ DOMAIN rows = Positions /\ DOMAIN Batches \subseteq Nat
  BY BatchesAre, PartitionHolds, RowFields
<1>2. \A k \in D : \E i \in dirs : /\ Batches[k].source = Direct /\ IdsOf(Batches[k]) = {i}
                                   /\ Batches[k].ids[1] = i /\ Batches[k].mode = rows[i].mode
  BY DirectIs
<1>3. \A k \in G : Batches[k].source \in sources /\ IdsOf(Batches[k]) = From(Batches[k].source, Len(rows))
  <2>. SUFFICES ASSUME NEW k \in G
                PROVE  /\ Batches[k].source \in sources
                       /\ IdsOf(Batches[k]) = From(Batches[k].source, Len(rows))
    OBVIOUS
  <2>1. /\ Batches[k].source \in DOMAIN Acc.groups /\ Batches[k].source # Direct
        /\ IdsOf(Batches[k]) = From(Batches[k].source, Len(rows))
    BY GroupIs
  <2>2. DOMAIN Acc.groups = {rows[i].source : i \in 1..Len(rows)} \ {Direct}
    BY LoopSound DEF AccSound, GroupsSound, Acc
  <2>. QED
    BY <2>1, <2>2 DEF Positions
<1>4. \A i \in Positions : \E k \in DOMAIN Batches : i \in IdsOf(Batches[k])
  BY <1>1 DEF Partition
<1>5. \A k \in D : \E i \in dirs : out(k) = Queue(big)!DirectBatch(i) /\ IdsOf(Batches[k]) = {i}
  <2>. SUFFICES ASSUME NEW k \in D
                PROVE  \E i \in dirs : out(k) = Queue(big)!DirectBatch(i) /\ IdsOf(Batches[k]) = {i}
    OBVIOUS
  <2>1. PICK i \in dirs : /\ Batches[k].source = Direct /\ IdsOf(Batches[k]) = {i}
                          /\ Batches[k].mode = rows[i].mode
    BY <1>2
  <2>2. k \in DOMAIN Batches /\ i \in Positions
    BY <1>1
  <2>3. out(k) = Queue(big)!DirectBatch(i)
    BY <2>1, <2>2, OutlineOfDirect
  <2>. QED
    BY <2>1, <2>3
<1>6. \A k \in G : out(k) = Queue(big)!GroupBatch(Positions, Batches[k].source, steer)
  BY OutlineOfGroup
<1>7. ASSUME NEW i \in dirs PROVE \E k \in D : out(k) = Queue(big)!DirectBatch(i)
  <2>1. PICK k \in DOMAIN Batches : i \in IdsOf(Batches[k])
    BY <1>4
  <2>2. k \notin G
    BY <1>3, <2>1 DEF From
  <2>3. k \in D
    BY <1>1, <2>1, <2>2
  <2>. QED
    BY <1>5, <2>1, <2>3
<1>8. ASSUME NEW s \in sources PROVE \E k \in G : Batches[k].source = s
  <2>1. PICK i \in Positions : rows[i].source = s /\ s # Direct
    OBVIOUS
  <2>2. PICK k \in DOMAIN Batches : i \in IdsOf(Batches[k])
    BY <1>4
  <2>3. k \notin D
    BY <1>2, <2>1, <2>2
  <2>4. k \in G
    BY <1>1, <2>2, <2>3
  <2>. QED
    BY <1>3, <2>1, <2>2, <2>4 DEF From
<1>9. Queue(big)!Coalesce(Positions, steer) =
        {Queue(big)!DirectBatch(i) : i \in dirs} \cup {Queue(big)!GroupBatch(Positions, s, steer) : s \in sources}
  <2>1. dirs = {i \in Positions : msg[i].source = ""} /\ sources = {msg[i].source : i \in Positions} \ {""}
    BY DEF Direct
  <2>. QED
    BY <2>1, Zenon DEF Queue!Coalesce, Queue!Direct
<1>10. {out(k) : k \in DOMAIN Batches} = Queue(big)!Coalesce(Positions, steer)
  <2>. HIDE DEF out, dirs, sources, D, G
  <2>. QED
    BY <1>1, <1>5, <1>6, <1>3, <1>7, <1>8, <1>9
<1>11. ASSUME NEW k \in DOMAIN Batches, NEW j \in DOMAIN Batches, k < j
       PROVE  Queue(big)!Before(out(k), out(j))
  <2>1. \A l \in DOMAIN Batches : out(l).source = Batches[l].source /\ out(l).ids = IdsOf(Batches[l])
    BY DEF Outline
  <2>2. \A l \in DOMAIN Batches : (Batches[l].source = Direct) <=> l \in D
    BY <1>1, <1>2, <1>3
  <2>3. \A l \in DOMAIN Batches : /\ Batches[l].ids[1] \in IdsOf(Batches[l])
                                  /\ \A q \in IdsOf(Batches[l]) : Batches[l].ids[1] <= q
    <3>1. \A l \in D : Batches[l].ids[1] \in IdsOf(Batches[l]) /\ \A q \in IdsOf(Batches[l]) : Batches[l].ids[1] <= q
      <4>1. dirs \subseteq Nat
        BY DEF Positions
      <4>. QED
        BY <1>2, <4>1
    <3>. QED
      BY <1>1, <3>1, GroupLeast
  <2>4. \/ k \in D /\ j \in G
        \/ (k \in D <=> j \in D) /\ Batches[k].ids[1] < Batches[j].ids[1]
    BY <1>11, BatchOrder
  <2>5. Batches[j].source = Direct => Batches[k].source = Direct
    BY <1>1, <2>2, <2>4
  <2>6. CASE k \in D /\ j \in G
    <3>1. Batches[k].source = Direct /\ Batches[j].source # Direct
      BY <1>1, <1>3, <2>2, <2>6
    <3>. QED
      BY <2>1, <3>1 DEF Queue!Before, Queue!Direct, Direct
  <2>7. CASE Batches[k].ids[1] < Batches[j].ids[1]
    <3>1. \A l \in DOMAIN Batches : IdsOf(Batches[l]) \subseteq Nat
      <4>1. dirs \subseteq Nat /\ \A s : From(s, Len(rows)) \subseteq Nat
        BY RowFields DEF From, Positions
      <4>2. \A l \in D : IdsOf(Batches[l]) \subseteq Nat
        BY <1>2, <4>1
      <4>3. \A l \in G : IdsOf(Batches[l]) \subseteq Nat
        BY <1>3, <4>1
      <4>. QED
        BY <1>1, <4>2, <4>3
    <3>2. Batches[k].ids[1] \in Nat /\ Batches[j].ids[1] \in Nat
      BY <2>3, <3>1
    <3>3. \A q \in IdsOf(Batches[j]) : Batches[k].ids[1] < q
      BY <2>3, <2>7, <3>1, <3>2
    <3>. QED
      BY <2>1, <2>3, <2>5, <3>3 DEF Queue!Before, Queue!Direct, Direct
  <2>. QED
    BY <2>4, <2>6, <2>7
<1>. QED
  BY <1>10, <1>11 DEF InboxTakes

(* What Inbox takes Coalesce (coalesce.go) to return is what the code's    *)
(* fold returns, for every queue, every mode of the flush and every choice *)
(* of the messages that are big: the same batches, once deliver (queue.go) *)
(* has made a steered flush's groups steers, in the order Before gives     *)
(* them.                                                                   *)
THEOREM InboxModelsCoalesce ==
  ASSUME NEW steer \in BOOLEAN, NEW big \in [Nat -> BOOLEAN]
  PROVE  CoalesceSpec => []InboxTakes(steer, big)
<1>1. CoalesceTypeOK => InboxTakes(steer, big)
  BY InboxTakesThem
<1>. QED
  BY <1>1, Types, PTL

=============================================================================

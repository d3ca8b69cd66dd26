------------------------------ MODULE Coalesce ------------------------------
(***************************************************************************)
(* pkg/inbox/coalesce.go: the batches a child's pending rows become, as    *)
(* the code folds them, and what they must amount to.  Module Inbox uses   *)
(* the partition this module checks.  A row is known by its position in    *)
(* the queue, which stands for its id and for its text.                    *)
(***************************************************************************)
EXTENDS Integers, SequencesExt

CONSTANTS RowShapes,   \* [source, key, mode, len] of the rows that may arrive
          MaxQueue,    \* bound on the pending rows
          FragCaps,    \* values of BatchConfig.MaxFragments, 0 for unlimited
          ByteCaps     \* values of BatchConfig.MaxBytesPerFlush, likewise

ASSUME CoalesceAssumption ==
  /\ RowShapes \subseteq [source : STRING, key : STRING, mode : {"prompt", "steer", "abort"}, len : Nat]
  /\ MaxQueue \in Nat /\ FragCaps \subseteq Nat /\ ByteCaps \subseteq Nat

VARIABLES rows, cfg

coalesceVars == <<rows, cfg>>

Direct == ""

-----------------------------------------------------------------------------
(* The loop over the rows: direct messages go straight out, fragments into *)
(* the group of their source.                                              *)

NoGroup == [mode |-> "prompt", ids |-> <<>>, keyed |-> <<>>, keyOrder |-> <<>>, unkeyed |-> <<>>]
NoRows  == [out |-> <<>>, order |-> <<>>, groups |-> <<>>]

Known(f, x) == x \in DOMAIN f
Put(f, x, v) == [y \in DOMAIN f \cup {x} |-> IF y = x THEN v ELSE f[y]]

JoinGroup_first(g, i) ==
  LET r == rows[i]
      steered == [g EXCEPT !.ids = Append(@, i),
                           !.mode = IF r.mode = "steer" THEN "steer" ELSE @]
  IN  IF r.key = "" THEN [steered EXCEPT !.unkeyed = Append(@, i)]
      ELSE IF Known(g.keyed, r.key) THEN steered
      ELSE [steered EXCEPT !.keyed = Put(@, r.key, i), !.keyOrder = Append(@, r.key)]

JoinGroup_modes(g, i) ==
  LET r == rows[i]
      steered == [g EXCEPT !.ids = Append(@, i), !.mode = IF r.mode = "steer" THEN "steer" ELSE "prompt"]
  IN  IF r.key = "" THEN [steered EXCEPT !.unkeyed = Append(@, i)]
      ELSE [steered EXCEPT
              !.keyed = Put(@, r.key, i),
              !.keyOrder = IF Known(g.keyed, r.key) THEN @ ELSE Append(@, r.key)]

(* A key is last-write-wins and keeps the place of its first write; a      *)
(* group with any steer in it is a steer.                                  *)
JoinGroup(g, i) ==
  LET r == rows[i]
      steered == [g EXCEPT !.ids = Append(@, i),
                           !.mode = IF r.mode = "steer" THEN "steer" ELSE @]
  IN  IF r.key = "" THEN [steered EXCEPT !.unkeyed = Append(@, i)]
      ELSE [steered EXCEPT
              !.keyed = Put(@, r.key, i),
              !.keyOrder = IF Known(g.keyed, r.key) THEN @ ELSE Append(@, r.key)]

(* An abort carries no text.                                               *)
DirectBatch(i) ==
  [source |-> Direct, mode |-> rows[i].mode, ids |-> <<i>>,
   frags |-> IF rows[i].mode = "abort" THEN <<>> ELSE <<i>>, omitted |-> 0]

AddRow(acc, i) ==
  LET s == rows[i].source
      g == IF Known(acc.groups, s) THEN acc.groups[s] ELSE NoGroup
  IN  IF s = Direct THEN [acc EXCEPT !.out = Append(@, DirectBatch(i))]
      ELSE [acc EXCEPT
              !.groups = Put(@, s, JoinGroup(g, i)),
              !.order = IF Known(acc.groups, s) THEN @ ELSE Append(@, s)]

(* What the loop has built from the first k rows.                          *)
Loop[k \in 0..Len(rows)] == IF k = 0 THEN NoRows ELSE AddRow(Loop[k - 1], k)

-----------------------------------------------------------------------------
(* applyCaps: the fragment cap, then the byte budget, then the marker that *)
(* tells how many were omitted.  Used(frags)[k] is the running count of    *)
(* bytes after k fragments.                                                *)

Used(frags) ==
  LET used[k \in 0..Len(frags)] == IF k = 0 THEN 0 ELSE used[k - 1] + rows[frags[k]].len
  IN  used

Bytes(frags) == Used(frags)[Len(frags)]

FragCap(all) ==
  IF cfg.frags > 0 /\ Len(all) > cfg.frags THEN SubSeq(all, 1, cfg.frags - 1) ELSE all

ByteCap(all) ==
  LET over == {i \in 1..Len(all) : Used(all)[i] > cfg.bytes}
  IN  IF cfg.bytes = 0 \/ over = {} THEN all
      ELSE SubSeq(all, 1, (CHOOSE i \in over : \A j \in over : i <= j) - 1)

ApplyCaps_early(all) ==
  LET kept == IF FragCap(all) # all THEN FragCap(all) ELSE ByteCap(all)
  IN  [kept |-> kept, omitted |-> Len(all) - Len(kept)]

ApplyCaps(all) ==
  LET kept == ByteCap(FragCap(all))
  IN  [kept |-> kept, omitted |-> Len(all) - Len(kept)]

GroupFrags(g) == [j \in 1..Len(g.keyOrder) |-> g.keyed[g.keyOrder[j]]] \o g.unkeyed

GroupBatch(s, g) ==
  LET capped == ApplyCaps(GroupFrags(g))
  IN  [source |-> s, mode |-> g.mode, ids |-> g.ids,
       frags |-> capped.kept, omitted |-> capped.omitted]

CoalesceRows ==
  LET acc == Loop[Len(rows)]
  IN  acc.out \o [j \in 1..Len(acc.order) |-> GroupBatch(acc.order[j], acc.groups[acc.order[j]])]

-----------------------------------------------------------------------------
(* Rows arrive one at a time, under any configuration.                     *)
CoalesceInit == rows = <<>> /\ cfg \in [frags : FragCaps, bytes : ByteCaps]

Accept(r) ==
  /\ Len(rows) < MaxQueue
  /\ rows' = Append(rows, r)
  /\ UNCHANGED cfg

CoalesceNext == \E r \in RowShapes : Accept(r)

CoalesceSpec == CoalesceInit /\ [][CoalesceNext]_coalesceVars

-----------------------------------------------------------------------------
(* Properties.                                                             *)

Batches  == CoalesceRows
IdsOf(b) == ToSet(b.ids)

(* Every pending row is accounted for by exactly one batch, so that none   *)
(* is delivered twice and none stays pending for ever: each direct message *)
(* alone, in arrival order and before the groups; one group per source,    *)
(* in the order the sources first appear; any steer makes the group one.   *)
Partition ==
  LET sources == {rows[i].source : i \in DOMAIN rows} \ {Direct}
      since(b) == b.ids[1]
  IN  /\ \A i \in DOMAIN rows : \E k \in DOMAIN Batches :
           \A j \in DOMAIN Batches : i \in IdsOf(Batches[j]) <=> j = k
      /\ \A k \in DOMAIN Batches : LET b == Batches[k] IN
           IF b.source = Direct
             THEN \E i \in DOMAIN rows : b.ids = <<i>> /\ b.mode = rows[i].mode
             ELSE /\ IdsOf(b) = {i \in DOMAIN rows : rows[i].source = b.source}
                  /\ b.mode = "steer" <=> \E i \in IdsOf(b) : rows[i].mode = "steer"
      /\ \A k \in DOMAIN Batches, j \in DOMAIN Batches : k < j =>
           \/ Batches[k].source = Direct /\ Batches[j].source # Direct
           \/ /\ Batches[k].source = Direct <=> Batches[j].source = Direct
              /\ since(Batches[k]) < since(Batches[j])

(* The rows of a group whose text counts: the last of each key, and every  *)
(* row without one.                                                        *)
Counting(b) ==
  {i \in IdsOf(b) : rows[i].key = "" \/ \A j \in IdsOf(b) : rows[j].key = rows[i].key => j <= i}

(* What a batch says is some of the text that counts: never a stale        *)
(* write of a key, never the same text twice, and what is left out is told *)
(* (coalesce.go, the comment on Batch).                                    *)
LatestWins ==
  \A k \in DOMAIN Batches : LET b == Batches[k] IN b.source # Direct =>
    /\ ToSet(b.frags) \subseteq Counting(b)
    /\ \A i \in DOMAIN b.frags, j \in DOMAIN b.frags : b.frags[i] = b.frags[j] => i = j
    /\ Len(b.frags) + b.omitted = Cardinality(Counting(b))

(* Both caps hold at once, the marker counted as a fragment but not in     *)
(* bytes, and fragments are left out only of a group that exceeds a cap    *)
(* as a whole (coalesce.go, applyCaps).                                    *)
CapsHold ==
  \A k \in DOMAIN Batches : LET b == Batches[k] IN b.source # Direct =>
    /\ cfg.frags > 0 => Len(b.frags) + (IF b.omitted > 0 THEN 1 ELSE 0) <= cfg.frags
    /\ cfg.bytes > 0 => Bytes(b.frags) <= cfg.bytes
    /\ b.omitted > 0 =>
         \/ cfg.frags > 0 /\ Cardinality(Counting(b)) > cfg.frags
         \/ cfg.bytes > 0 /\ Bytes(SetToSeq(Counting(b))) > cfg.bytes
=============================================================================

---------------------------- MODULE FleetProofs ----------------------------
(***************************************************************************)
(* Theorems about Fleet, for any number of daemons and incarnations.  Over *)
(* every set of adverse events: the shape of the state, and the fencing of *)
(* conversation writes.  With one daemon, or with an operator who waits    *)
(* for an exit to be over: one engine, in the manager's slot, under a      *)
(* tracked lease and a row that a restart resumes.                         *)
(***************************************************************************)
EXTENDS Fleet, TLAPS

(* A renewal pass never carries the token of no lease.                     *)
Calm(m) == m.rpc = "renew" => m.ren # 0

MemoryInv == dm \in [Daemons -> Memory] /\ \A d \in Daemons : Calm(dm[d])

(* An incarnation that exists belongs to a daemon.                         *)
Placed(l) == l.d \in Daemons \/ l = NoInc

LaunchInv == inc \in [Incs -> Launch] /\ \A i \in Incs : Placed(inc[i])

(* Why the fence works: tokens only grow, a lease that is live has a       *)
(* token, and the last write is no newer than the lease in force.          *)
FenceInv ==
  /\ LeaseOK /\ minted \in Nat /\ wrote \in Tok
  /\ lease.tok <= minted /\ wrote <= minted
  /\ lease.live => lease.tok # 0
  /\ lease.tok # 0 => wrote <= lease.tok

RowInv == row \in Row /\ inbox \in 0..MaxInc /\ ended \in BOOLEAN /\ hits \in Nat

(* The inductive invariant.                                                *)
FleetInv == MemoryInv /\ LaunchInv /\ FenceInv /\ RowInv

LEMMA FleetInvTypes == FleetInv => FleetTypeOK
  BY DEF FleetInv, MemoryInv, LaunchInv, FenceInv, RowInv, FleetTypeOK

-----------------------------------------------------------------------------
(* What the pieces of an action return, and what one update keeps.         *)

LEMMA OffIsMemory == ASSUME NEW r \in Row PROVE Off(r) \in Memory /\ Calm(Off(r))
  BY FleetAssumption DEF Off, Memory, Tok, Calm

LEMMA NoIncIsLaunch == NoInc \in Launch /\ Placed(NoInc)
  BY DEF NoInc, Launch, Tok, Placed

LEMMA IncSlot == 0 \in 0..MaxInc /\ \A i \in Incs : i \in 0..MaxInc
  BY FleetAssumption DEF Incs

LEMMA UpsertIsRow ==
  ASSUME NEW d \in Daemons, NEW s \in {"live", "exited"} PROVE Upsert(d, s) \in Row
  BY DEF Upsert, Row

LEMMA MemorySet ==
  ASSUME MemoryInv, NEW d \in Daemons, NEW m \in Memory, Calm(m), dm' = [dm EXCEPT ![d] = m]
  PROVE  MemoryInv'
  BY DEF MemoryInv

LEMMA LaunchSet ==
  ASSUME LaunchInv, NEW i \in Incs, NEW l \in Launch, Placed(l), inc' = [inc EXCEPT ![i] = l]
  PROVE  LaunchInv'
  BY DEF LaunchInv

LEMMA MemoryKept == MemoryInv /\ UNCHANGED dm => MemoryInv'
  BY DEF MemoryInv

LEMMA LaunchKept == LaunchInv /\ UNCHANGED inc => LaunchInv'
  BY DEF LaunchInv

LEMMA FenceKept == FenceInv /\ UNCHANGED <<lease, minted, wrote>> => FenceInv'
  BY DEF FenceInv, LeaseOK

LEMMA RowKept == RowInv /\ UNCHANGED <<row, inbox, ended>> /\ hits' \in Nat => RowInv'
  BY DEF RowInv

(* A launch of any kind starts in the building phase.                      *)
LEMMA NewLaunch ==
  ASSUME NEW d \in Daemons
  PROVE  [NoInc EXCEPT !.d = d, !.phase = "building"] \in Launch
         /\ Placed([NoInc EXCEPT !.d = d, !.phase = "building"])
  BY DEF NoInc, Launch, Tok, Placed

(* The engine of a launch that exists runs under one of the daemons.       *)
LEMMA LaunchHasDaemon ==
  ASSUME LaunchInv, NEW i \in Incs, inc[i].phase # "gone" \/ inc[i].x # "none"
  PROVE  inc[i].d \in Daemons
  BY DEF LaunchInv, Placed, NoInc

LEMMA PhaseSet ==
  ASSUME LaunchInv, NEW i \in Incs, inc[i].d \in Daemons,
         NEW p \in {"gone", "building", "running", "dead"},
         inc' = [inc EXCEPT ![i].phase = p]
  PROVE  LaunchInv'
<1>1. [inc[i] EXCEPT !.phase = p] \in Launch /\ Placed([inc[i] EXCEPT !.phase = p])
  BY DEF LaunchInv, Launch, Placed
<1>2. inc' = [inc EXCEPT ![i] = [inc[i] EXCEPT !.phase = p]]
  OBVIOUS
<1>. QED
  BY <1>1, <1>2, LaunchSet

LEMMA ExitSet ==
  ASSUME LaunchInv, NEW i \in Incs, inc[i].d \in Daemons,
         NEW p \in {"none", "row", "inbox", "lease", "remove"},
         inc' = [inc EXCEPT ![i].x = p]
  PROVE  LaunchInv'
<1>1. [inc[i] EXCEPT !.x = p] \in Launch /\ Placed([inc[i] EXCEPT !.x = p])
  BY DEF LaunchInv, Launch, Placed
<1>2. inc' = [inc EXCEPT ![i] = [inc[i] EXCEPT !.x = p]]
  OBVIOUS
<1>. QED
  BY <1>1, <1>2, LaunchSet

LEMMA VanishSet ==
  ASSUME LaunchInv, NEW d \in Daemons, inc' = Vanish(d)
  PROVE  LaunchInv'
  BY NoIncIsLaunch DEF LaunchInv, Vanish

LEMMA ReapKeeps ==
  ASSUME FleetInv, NEW d \in Daemons, Reap(d)
  PROVE  LaunchInv' /\ row' \in Row
<1>1. dm[d].cm \in 0..MaxInc
  BY DEF FleetInv, MemoryInv, Memory
<1>2. CASE dm[d].cm = 0 \/ ~Alive(dm[d].cm)
  BY <1>2, LaunchKept DEF Reap, FleetInv, RowInv
<1>3. CASE ~(dm[d].cm = 0 \/ ~Alive(dm[d].cm))
  <2>1. dm[d].cm \in Incs /\ inc[dm[d].cm].d \in Daemons
    BY <1>1, <1>3, LaunchHasDaemon, FleetAssumption DEF FleetInv, Incs, Alive
  <2>2. LaunchInv'
    BY <1>3, <2>1, PhaseSet DEF Reap, FleetInv
  <2>3. row' \in Row
    BY <1>3, UpsertIsRow DEF Reap, Unwritten, FleetInv, RowInv
  <2>. QED
    BY <2>2, <2>3
<1>. QED
  BY <1>2, <1>3

LEMMA WriteRecordKeeps ==
  ASSUME RowInv, MemoryInv, NEW d \in Daemons, NEW s \in {"absent", "live", "exited"},
         WriteRecord(d, s)
  PROVE  row' \in Row /\ Labelled(d, s) \in Daemons \cup {Nobody}
  BY UpsertIsRow DEF WriteRecord, Unwritten, Labelled, RowInv, MemoryInv, Memory

LEMMA ReleaseKeeps ==
  ASSUME FenceInv, NEW d \in Daemons, lease' = Released(d), UNCHANGED <<minted, wrote>>
  PROVE  FenceInv'
<1>1. CASE lease' = lease
  BY <1>1, FenceKept
<1>2. CASE lease' = NoLease
  <2>1. lease' = [tok |-> 0, holder |-> Nobody, live |-> FALSE]
    BY <1>2 DEF NoLease
  <2>2. LeaseOK' /\ lease'.tok = 0 /\ lease'.live = FALSE
    BY <2>1 DEF LeaseOK, Tok
  <2>. QED
    BY <2>2 DEF FenceInv, Tok
<1>. QED
  BY <1>1, <1>2 DEF Released

SpawnedMemory(m, d, t, k) ==
  [m EXCEPT !.up = "up", !.st = "live", !.label = d, !.cm = 1, !.held = t, !.start = k]

LEMMA SpawnedIsMemory ==
  ASSUME NEW m \in Memory, Calm(m), NEW d \in Daemons, NEW t \in Tok, NEW k \in 0..1
  PROVE  SpawnedMemory(m, d, t, k) \in Memory /\ Calm(SpawnedMemory(m, d, t, k))
<1>1. 1 \in 0..MaxInc /\ k \in 0..MaxInc
  BY FleetAssumption
<1>2. SpawnedMemory(m, d, t, k) \in Memory
  BY <1>1 DEF SpawnedMemory, Memory
<1>. QED
  BY <1>2 DEF SpawnedMemory, Memory, Calm

LEMMA InitHolds == Init => FleetInv
<1>. SUFFICES ASSUME Init PROVE FleetInv
  OBVIOUS
<1>1. PICK d \in Daemons, built \in BOOLEAN :
    /\ lease = IF built THEN [tok |-> 1, holder |-> d, live |-> TRUE] ELSE NoLease
    /\ minted = IF built THEN 1 ELSE 0
    /\ row = Upsert(d, "live")
    /\ inbox = 0
    /\ dm = [e \in Daemons |->
               IF e # d THEN Off(row)
               ELSE [Off(row) EXCEPT !.up = "up", !.st = "live", !.label = d, !.cm = 1,
                                     !.held = minted, !.start = IF built THEN 0 ELSE 1]]
    /\ inc = [i \in Incs |->
                IF i # 1 THEN NoInc
                ELSE [d |-> d, phase |-> IF built THEN "running" ELSE "building",
                      tok |-> minted, mon |-> built, x |-> "none"]]
    /\ wrote = 0 /\ ended = FALSE /\ hits = 0
  BY DEF Init
<1>2. row \in Row /\ minted \in Tok
  BY <1>1, UpsertIsRow DEF Tok
<1>3. Off(row) \in Memory /\ Calm(Off(row))
  BY <1>2, OffIsMemory
<1>4. \A k \in 0..1 : SpawnedMemory(Off(row), d, minted, k) \in Memory
                      /\ Calm(SpawnedMemory(Off(row), d, minted, k))
  BY <1>2, <1>3, SpawnedIsMemory
<1>5. MemoryInv
  <2>1. dm = [e \in Daemons |-> IF e # d THEN Off(row)
                                ELSE SpawnedMemory(Off(row), d, minted, IF built THEN 0 ELSE 1)]
    BY <1>1, Zenon DEF SpawnedMemory
  <2>2. (IF built THEN 0 ELSE 1) \in 0..1
    OBVIOUS
  <2>. QED
    BY <1>3, <1>4, <2>1, <2>2 DEF MemoryInv
<1>6. LaunchInv
  BY <1>1, <1>2, NoIncIsLaunch DEF LaunchInv, Launch, Placed
<1>7. FenceInv
  <2>1. CASE built
    BY <1>1, <2>1 DEF LeaseOK, FenceInv, Tok
  <2>2. CASE ~built
    BY <1>1, <2>2 DEF LeaseOK, FenceInv, NoLease, Tok
  <2>. QED
    BY <2>1, <2>2
<1>8. inbox \in 0..MaxInc /\ hits \in Nat
  BY <1>1, FleetAssumption
<1>9. ended \in BOOLEAN
  BY <1>1, Zenon
<1>. QED
  BY <1>2, <1>5, <1>6, <1>7, <1>8, <1>9, Zenon DEF FleetInv, RowInv


-----------------------------------------------------------------------------
(* Every action keeps the invariant.  Renewal first.                       *)

LEMMA RenewSnapshotHolds == ASSUME FleetInv, NEW d \in Daemons, RenewSnapshot(d) PROVE FleetInv'
<1>0. dm[d] \in Memory /\ Calm(dm[d])
  BY DEF FleetInv, MemoryInv
<1>00. dm[d].held # 0
  BY DEF RenewSnapshot
<1>1. MemoryInv'
  <2>1. [dm[d] EXCEPT !.rpc = "renew", !.ren = dm[d].held] \in Memory
        /\ Calm([dm[d] EXCEPT !.rpc = "renew", !.ren = dm[d].held])
    BY <1>0, <1>00 DEF Memory, Calm
  <2>2. dm' = [dm EXCEPT ![d] = [dm[d] EXCEPT !.rpc = "renew", !.ren = dm[d].held]]
    BY <1>0 DEF RenewSnapshot
  <2>. QED
    BY <1>0, <2>1, <2>2, MemorySet DEF FleetInv
<1>2. LaunchInv'
  BY LaunchKept DEF RenewSnapshot, FleetInv
<1>3. FenceInv'
  BY FenceKept DEF RenewSnapshot, FleetInv
<1>4. RowInv'
  BY RowKept DEF RenewSnapshot, FleetInv, RowInv
<1>. QED
  BY <1>1, <1>2, <1>3, <1>4 DEF FleetInv

LEMMA RenewHolds == ASSUME FleetInv, NEW d \in Daemons, Renew(d) PROVE FleetInv'
<1>0. dm[d] \in Memory /\ Calm(dm[d])
  BY DEF FleetInv, MemoryInv
<1>1. MemoryInv'
  <2>1. CASE lease.tok = dm[d].ren
    <3>1. [dm[d] EXCEPT !.rpc = "idle", !.ren = 0] \in Memory
          /\ Calm([dm[d] EXCEPT !.rpc = "idle", !.ren = 0])
      BY <1>0 DEF Memory, Calm, Tok
    <3>2. dm' = [dm EXCEPT ![d] = [dm[d] EXCEPT !.rpc = "idle", !.ren = 0]]
      BY <1>0, <2>1 DEF Renew
    <3>. QED
      BY <3>1, <3>2, MemorySet DEF FleetInv
  <2>2. CASE lease.tok # dm[d].ren
    <3>1. [dm[d] EXCEPT !.rpc = "lost"] \in Memory /\ Calm([dm[d] EXCEPT !.rpc = "lost"])
      BY <1>0 DEF Memory, Calm
    <3>2. dm' = [dm EXCEPT ![d] = [dm[d] EXCEPT !.rpc = "lost"]]
      BY <1>0, <2>2 DEF Renew
    <3>. QED
      BY <3>1, <3>2, MemorySet DEF FleetInv
  <2>. QED
    BY <2>1, <2>2
<1>2. LaunchInv'
  BY LaunchKept DEF Renew, FleetInv
<1>3. FenceInv'
  <2>1. CASE lease.tok = dm[d].ren
    <3>1. lease.tok # 0
      BY <1>0, <2>1 DEF Renew, Calm
    <3>2. lease' = [lease EXCEPT !.live = TRUE] /\ minted' = minted /\ wrote' = wrote
      BY <2>1 DEF Renew
    <3>3. LeaseOK' /\ lease'.tok = lease.tok
      BY <3>2 DEF FleetInv, FenceInv, LeaseOK
    <3>. QED
      BY <3>1, <3>2, <3>3 DEF FleetInv, FenceInv
  <2>2. CASE lease.tok # dm[d].ren
    BY <2>2, FenceKept DEF Renew, FleetInv
  <2>. QED
    BY <2>1, <2>2
<1>4. RowInv'
  BY RowKept DEF Renew, FleetInv, RowInv
<1>. QED
  BY <1>1, <1>2, <1>3, <1>4 DEF FleetInv

LEMMA RenewErrorHolds == ASSUME FleetInv, NEW d \in Daemons, RenewError(d) PROVE FleetInv'
<1>0. dm[d] \in Memory /\ Calm(dm[d])
  BY DEF FleetInv, MemoryInv
<1>1. MemoryInv'
  <2>1. [dm[d] EXCEPT !.rpc = "idle", !.ren = 0] \in Memory
        /\ Calm([dm[d] EXCEPT !.rpc = "idle", !.ren = 0])
    BY <1>0 DEF Memory, Calm, Tok
  <2>2. dm' = [dm EXCEPT ![d] = [dm[d] EXCEPT !.rpc = "idle", !.ren = 0]]
    BY <1>0 DEF RenewError
  <2>. QED
    BY <1>0, <2>1, <2>2, MemorySet DEF FleetInv
<1>2. LaunchInv'
  BY LaunchKept DEF RenewError, FleetInv
<1>3. FenceInv'
  BY FenceKept DEF RenewError, FleetInv
<1>4. RowInv'
  BY RowKept DEF RenewError, FleetInv, RowInv, Hit
<1>. QED
  BY <1>1, <1>2, <1>3, <1>4 DEF FleetInv

LEMMA DropLostHolds == ASSUME FleetInv, NEW d \in Daemons, DropLost(d) PROVE FleetInv'
<1>0. dm[d] \in Memory /\ Calm(dm[d])
  BY DEF FleetInv, MemoryInv
<1>1. MemoryInv'
  <2>1. [dm[d] EXCEPT !.held = 0, !.ren = 0,
                 !.rpc = IF dm[d].st = "absent" THEN "idle" ELSE "kill"] \in Memory
        /\ Calm([dm[d] EXCEPT !.held = 0, !.ren = 0,
                 !.rpc = IF dm[d].st = "absent" THEN "idle" ELSE "kill"])
    BY <1>0 DEF Memory, Calm, Tok
  <2>2. dm' = [dm EXCEPT ![d] = [dm[d] EXCEPT !.held = 0, !.ren = 0,
                 !.rpc = IF dm[d].st = "absent" THEN "idle" ELSE "kill"]]
    BY <1>0 DEF DropLost
  <2>. QED
    BY <1>0, <2>1, <2>2, MemorySet DEF FleetInv
<1>2. LaunchInv'
  BY LaunchKept DEF DropLost, FleetInv
<1>3. FenceInv'
  BY FenceKept DEF DropLost, FleetInv
<1>4. RowInv'
  BY RowKept DEF DropLost, FleetInv, RowInv
<1>. QED
  BY <1>1, <1>2, <1>3, <1>4 DEF FleetInv

LEMMA KillLostHolds == ASSUME FleetInv, NEW d \in Daemons, KillLost(d) PROVE FleetInv'
<1>0. dm[d] \in Memory /\ Calm(dm[d])
  BY DEF FleetInv, MemoryInv
<1>1. MemoryInv'
  <2>1. [dm[d] EXCEPT !.rpc = "idle", !.pend = FALSE] \in Memory
        /\ Calm([dm[d] EXCEPT !.rpc = "idle", !.pend = FALSE])
    BY <1>0 DEF Memory, Calm
  <2>2. dm' = [dm EXCEPT ![d] = [dm[d] EXCEPT !.rpc = "idle", !.pend = FALSE]]
    BY <1>0 DEF KillLost
  <2>. QED
    BY <1>0, <2>1, <2>2, MemorySet DEF FleetInv
<1>2. LaunchInv' /\ row' \in Row
  BY ReapKeeps DEF KillLost
<1>3. FenceInv'
  BY FenceKept DEF KillLost, FleetInv
<1>4. RowInv'
  BY <1>2 DEF KillLost, FleetInv, RowInv
<1>. QED
  BY <1>1, <1>2, <1>3, <1>4 DEF FleetInv

(* Boot, launches and resumes.                                             *)

LEMMA BootListHolds == ASSUME FleetInv, NEW d \in Daemons, BootList(d) PROVE FleetInv'
<1>0. dm[d] \in Memory /\ Calm(dm[d])
  BY DEF FleetInv, MemoryInv
<1>00. Off(row) \in Memory
  BY OffIsMemory DEF FleetInv, RowInv
<1>1. MemoryInv'
  <2>1. [Off(row) EXCEPT !.up = "boot", !.leased = lease.live] \in Memory
        /\ Calm([Off(row) EXCEPT !.up = "boot", !.leased = lease.live])
    <3>1. lease.live \in BOOLEAN
      BY DEF FleetInv, FenceInv, LeaseOK
    <3>. QED
      BY <1>00, <3>1, OffIsMemory DEF Memory, Calm, FleetInv, RowInv
  <2>. QED
    BY <2>1, MemorySet DEF BootList, FleetInv
<1>2. LaunchInv'
  BY LaunchKept DEF BootList, FleetInv
<1>3. FenceInv'
  BY FenceKept DEF BootList, FleetInv
<1>4. RowInv'
  BY RowKept DEF BootList, FleetInv, RowInv
<1>. QED
  BY <1>1, <1>2, <1>3, <1>4 DEF FleetInv

LEMMA BootFailsHolds == ASSUME FleetInv, NEW d \in Daemons, BootFails(d) PROVE FleetInv'
<1>0. dm[d] \in Memory /\ Calm(dm[d])
  BY DEF FleetInv, MemoryInv
<1>. DEFINE u == [dm[d] EXCEPT !.up = "up", !.leased = FALSE]
            l == [u EXCEPT !.st = "exited", !.label = dm[d].rec.owner]
<1>1. MemoryInv'
  <2>1. u \in Memory /\ Calm(u) /\ l \in Memory /\ Calm(l)
    BY <1>0 DEF Memory, Calm, Row
  <2>2. dm' = [dm EXCEPT ![d] = u] \/ dm' = [dm EXCEPT ![d] = l]
    BY <1>0, Zenon DEF BootFails
  <2>. HIDE DEF u, l
  <2>. QED
    BY <2>1, <2>2, MemorySet DEF FleetInv
<1>2. LaunchInv'
  BY LaunchKept DEF BootFails, FleetInv
<1>3. FenceInv'
  BY FenceKept DEF BootFails, FleetInv
<1>4. RowInv'
  BY RowKept DEF BootFails, Hit, FleetInv, RowInv
<1>. QED
  BY <1>1, <1>2, <1>3, <1>4 DEF FleetInv

LEMMA ResumeHolds == ASSUME FleetInv, NEW d \in Daemons, Resume(d) PROVE FleetInv'
<1>0. dm[d] \in Memory /\ Calm(dm[d])
  BY DEF FleetInv, MemoryInv
<1>00. PICK i \in Incs :
          /\ inc' = [inc EXCEPT ![i] = [NoInc EXCEPT !.d = d, !.phase = "building"]]
          /\ dm' = [dm EXCEPT ![d].start = i, ![d].how = "manual"]
  BY DEF Resume
<1>1. MemoryInv'
  <2>1. [dm[d] EXCEPT !.start = i, !.how = "manual"] \in Memory
        /\ Calm([dm[d] EXCEPT !.start = i, !.how = "manual"])
    BY <1>0, IncSlot DEF Memory, Calm
  <2>2. dm' = [dm EXCEPT ![d] = [dm[d] EXCEPT !.start = i, !.how = "manual"]]
    BY <1>00
  <2>. QED
    BY <2>1, <2>2, MemorySet DEF FleetInv
<1>2. LaunchInv'
  BY <1>00, NewLaunch, LaunchSet DEF FleetInv
<1>3. FenceInv'
  BY FenceKept DEF Resume, FleetInv
<1>4. RowInv'
  BY RowKept DEF Resume, FleetInv, RowInv, Hit
<1>. QED
  BY <1>1, <1>2, <1>3, <1>4 DEF FleetInv

LEMMA PendHolds == ASSUME FleetInv, NEW d \in Daemons, Pend(d) PROVE FleetInv'
<1>0. dm[d] \in Memory /\ Calm(dm[d])
  BY DEF FleetInv, MemoryInv
<1>1. MemoryInv'
  <2>1. [dm[d] EXCEPT !.start = 0, !.pend = TRUE] \in Memory
        /\ Calm([dm[d] EXCEPT !.start = 0, !.pend = TRUE])
    BY <1>0, IncSlot DEF Memory, Calm
  <2>2. dm' = [dm EXCEPT ![d] = [dm[d] EXCEPT !.start = 0, !.pend = TRUE]]
    BY <1>0 DEF Pend
  <2>. QED
    BY <1>0, <2>1, <2>2, MemorySet DEF FleetInv
<1>2. LaunchInv'
  <2>1. dm[d].start \in Incs
    BY <1>0 DEF Pend, Memory, Incs
  <2>. QED
    BY <2>1, NoIncIsLaunch, LaunchSet DEF Pend, FleetInv
<1>3. FenceInv'
  BY FenceKept DEF Pend, FleetInv
<1>4. RowInv'
  BY RowKept DEF Pend, FleetInv, RowInv, Hit
<1>. QED
  BY <1>1, <1>2, <1>3, <1>4 DEF FleetInv

LEMMA SweepPendingHolds == ASSUME FleetInv, NEW d \in Daemons, SweepPending(d) PROVE FleetInv'
<1>0. dm[d] \in Memory /\ Calm(dm[d])
  BY DEF FleetInv, MemoryInv
<1>1. MemoryInv' /\ LaunchInv'
  <2>1. CASE dm[d].st = "exited"
    <3>1. PICK i \in Incs :
            /\ inc' = [inc EXCEPT ![i] = [NoInc EXCEPT !.d = d, !.phase = "building"]]
            /\ dm' = [dm EXCEPT ![d].pend = FALSE, ![d].start = i, ![d].how = "auto"]
      BY <2>1 DEF SweepPending
    <3>2. [dm[d] EXCEPT !.pend = FALSE, !.start = i, !.how = "auto"] \in Memory
          /\ Calm([dm[d] EXCEPT !.pend = FALSE, !.start = i, !.how = "auto"])
      BY <1>0, IncSlot DEF Memory, Calm
    <3>3. dm' = [dm EXCEPT ![d] = [dm[d] EXCEPT !.pend = FALSE, !.start = i, !.how = "auto"]]
      BY <3>1
    <3>. QED
      BY <3>1, <3>2, <3>3, MemorySet, NewLaunch, LaunchSet DEF FleetInv
  <2>2. CASE dm[d].st # "exited"
    <3>1. [dm[d] EXCEPT !.pend = FALSE, !.held = 0] \in Memory
          /\ Calm([dm[d] EXCEPT !.pend = FALSE, !.held = 0])
      BY <1>0 DEF Memory, Calm, Tok
    <3>2. dm' = [dm EXCEPT ![d] = [dm[d] EXCEPT !.pend = FALSE, !.held = 0]] /\ UNCHANGED inc
      BY <2>2 DEF SweepPending
    <3>. QED
      BY <3>1, <3>2, MemorySet, LaunchKept DEF FleetInv
  <2>. QED
    BY <2>1, <2>2
<1>2. LaunchInv'
  BY <1>1
<1>3. FenceInv'
  BY FenceKept DEF SweepPending, FleetInv
<1>4. RowInv'
  BY RowKept DEF SweepPending, FleetInv, RowInv
<1>. QED
  BY <1>1, <1>2, <1>3, <1>4 DEF FleetInv

LEMMA RecoverHolds == ASSUME FleetInv, NEW d \in Daemons, Recover(d) PROVE FleetInv'
<1>0. dm[d] \in Memory /\ Calm(dm[d])
  BY DEF FleetInv, MemoryInv
<1>00. PICK adopted \in Adopts(d) : RecoverAs(d, adopted)
  BY DEF Recover
<1>. DEFINE entry == RecoveredEntry(d, adopted)
<1>01. entry \in Memory /\ Calm(entry)
  BY <1>0 DEF RecoveredEntry, Memory, Calm, Row
<1>02. \A i \in Incs : /\ [entry EXCEPT !.start = i, !.how = "auto"] \in Memory
                      /\ Calm([entry EXCEPT !.start = i, !.how = "auto"])
  <2>. HIDE DEF entry
  <2>. QED
    BY <1>01, IncSlot DEF Memory, Calm
<1>03. CASE dm[d].rec.closed
  <2>1. [dm[d] EXCEPT !.up = "up", !.leased = FALSE] \in Memory
        /\ Calm([dm[d] EXCEPT !.up = "up", !.leased = FALSE])
    BY <1>0 DEF Memory, Calm
  <2>2. /\ dm' = [dm EXCEPT ![d] = [dm[d] EXCEPT !.up = "up", !.leased = FALSE]]
        /\ UNCHANGED <<row, inbox, inc>>
    BY <1>00, <1>03, Zenon DEF RecoverAs
  <2>3. MemoryInv' /\ LaunchInv'
    BY <2>1, <2>2, MemorySet, LaunchKept DEF FleetInv
  <2>. QED
    BY <2>2, <2>3, FenceKept, RowKept DEF FleetInv, Recover, RowInv
<1>04. CASE ~dm[d].rec.closed
  <2>1. row' \in Row
    <3>1. row' = row \/ row' = [row EXCEPT !.owner = d, !.fresh = TRUE]
      BY <1>00, <1>04 DEF RecoverAs
    <3>. QED
      BY <3>1 DEF FleetInv, RowInv, Row
  <2>2. inbox' \in 0..MaxInc
    BY <1>00, <1>04, IncSlot DEF RecoverAs, FleetInv, RowInv
  <2>3. \/ /\ dm' = [dm EXCEPT ![d] = entry] /\ UNCHANGED inc
        \/ \E i \in Incs :
             /\ inc' = [inc EXCEPT ![i] = [NoInc EXCEPT !.d = d, !.phase = "building"]]
             /\ dm' = [dm EXCEPT ![d] = [entry EXCEPT !.start = i, !.how = "auto"]]
    BY <1>00, <1>04, Zenon DEF RecoverAs
  <2>4. MemoryInv' /\ LaunchInv'
    <3>. HIDE DEF entry
    <3>. QED
      BY <1>01, <1>02, <2>3, MemorySet, LaunchKept, NewLaunch, LaunchSet DEF FleetInv
  <2>5. FenceInv'
    BY FenceKept DEF Recover, FleetInv
  <2>6. ended' \in BOOLEAN /\ hits' \in Nat
    BY Zenon DEF Recover, FleetInv, RowInv
  <2>. QED
    BY <2>1, <2>2, <2>4, <2>5, <2>6 DEF FleetInv, RowInv
<1>. QED
  BY <1>03, <1>04

LEMMA ActivateHolds == ASSUME FleetInv, NEW d \in Daemons, Activate(d) PROVE FleetInv'
<1>0. dm[d] \in Memory /\ Calm(dm[d])
  BY DEF FleetInv, MemoryInv
<1>. DEFINE i  == dm[d].start
            st == IF i # 0 /\ inc[i].phase = "dead" THEN "exited" ELSE "live"
            to == IF dm[d].how = "spawn" THEN dm[d].st ELSE st
            m  == [dm[d] EXCEPT !.st = to, !.start = 0, !.label = Labelled(d, to),
                                !.cm = IF dm[d].how = "spawn" THEN @ ELSE i]
<1>01. i \in Incs /\ to \in {"absent", "live", "exited"} /\ i \in 0..MaxInc
  BY <1>0 DEF Activate, Memory, Incs
<1>02. row' \in Row /\ Labelled(d, to) \in Daemons \cup {Nobody}
  BY <1>01, WriteRecordKeeps DEF Activate, FleetInv
<1>1. MemoryInv'
  <2>1. m \in Memory /\ Calm(m)
    <3>. HIDE DEF to
    <3>. QED
      BY <1>0, <1>01, <1>02, IncSlot DEF Memory, Calm
  <2>2. dm' = [dm EXCEPT ![d] = m]
    BY Zenon DEF Activate
  <2>. QED
    BY <2>1, <2>2, MemorySet DEF FleetInv
<1>2. LaunchInv'
  <2>1. inc[i].d \in Daemons
    BY <1>01, LaunchHasDaemon DEF Activate, FleetInv
  <2>2. [inc[i] EXCEPT !.mon = TRUE] \in Launch /\ Placed([inc[i] EXCEPT !.mon = TRUE])
    <3>1. inc[i] \in Launch
      BY <1>01 DEF FleetInv, LaunchInv
    <3>. HIDE DEF i
    <3>2. [inc[i] EXCEPT !.mon = TRUE] \in Launch
      BY <3>1 DEF Launch
    <3>3. [inc[i] EXCEPT !.mon = TRUE].d = inc[i].d
      BY <3>1 DEF Launch
    <3>. QED
      BY <3>2, <3>3, <2>1 DEF Placed
  <2>3. inc' = [inc EXCEPT ![i] = [inc[i] EXCEPT !.mon = TRUE]]
    BY DEF Activate
  <2>. QED
    BY <1>01, <2>2, <2>3, LaunchSet DEF FleetInv
<1>3. FenceInv'
  BY FenceKept DEF Activate, FleetInv
<1>4. RowInv'
  BY <1>02 DEF Activate, FleetInv, RowInv
<1>. QED
  BY <1>1, <1>2, <1>3, <1>4 DEF FleetInv

LEMMA KillHolds == ASSUME FleetInv, NEW d \in Daemons, Kill(d) PROVE FleetInv'
<1>0. dm[d] \in Memory /\ Calm(dm[d])
  BY DEF FleetInv, MemoryInv
<1>1. MemoryInv'
  <2>1. [dm[d] EXCEPT !.pend = FALSE] \in Memory
        /\ Calm([dm[d] EXCEPT !.pend = FALSE])
    BY <1>0 DEF Memory, Calm
  <2>2. dm' = [dm EXCEPT ![d] = [dm[d] EXCEPT !.pend = FALSE]]
    BY <1>0 DEF Kill
  <2>. QED
    BY <1>0, <2>1, <2>2, MemorySet DEF FleetInv
<1>2. LaunchInv' /\ row' \in Row
  BY ReapKeeps DEF Kill
<1>3. FenceInv'
  BY FenceKept DEF Kill, FleetInv
<1>5. ended' \in BOOLEAN /\ inbox' = inbox
  BY Zenon DEF Kill
<1>4. RowInv'
  BY <1>2, <1>5 DEF Kill, Hit, FleetInv, RowInv
<1>. QED
  BY <1>1, <1>2, <1>3, <1>4 DEF FleetInv

LEMMA CloseHolds == ASSUME FleetInv, NEW d \in Daemons, Close(d) PROVE FleetInv'
<1>0. dm[d] \in Memory /\ Calm(dm[d])
  BY DEF FleetInv, MemoryInv
<1>1. MemoryInv'
  <2>1. [dm[d] EXCEPT !.st = "absent", !.label = Nobody, !.pend = FALSE] \in Memory
        /\ Calm([dm[d] EXCEPT !.st = "absent", !.label = Nobody, !.pend = FALSE])
    BY <1>0 DEF Memory, Calm
  <2>2. dm' = [dm EXCEPT ![d] = [dm[d] EXCEPT !.st = "absent", !.label = Nobody, !.pend = FALSE]]
    BY <1>0 DEF Close
  <2>. QED
    BY <1>0, <2>1, <2>2, MemorySet DEF FleetInv
<1>2. LaunchInv'
  BY LaunchKept DEF Close, FleetInv
<1>3. FenceInv'
  BY FenceKept DEF Close, FleetInv
<1>4. RowInv'
  <2>1. [Upsert(d, "exited") EXCEPT !.closed = TRUE] \in Row /\ Upsert(d, "exited") \in Row
    BY DEF Upsert, Row
  <2>2. row' \in Row /\ inbox' \in 0..MaxInc
    BY <2>1, IncSlot DEF Close, FleetInv, RowInv
  <2>. QED
    BY <2>2 DEF Close, Hit, FleetInv, RowInv
<1>. QED
  BY <1>1, <1>2, <1>3, <1>4 DEF FleetInv

LEMMA StopHolds == ASSUME FleetInv, NEW d \in Daemons, Stop(d) PROVE FleetInv'
<1>0. dm[d] \in Memory /\ Calm(dm[d])
  BY DEF FleetInv, MemoryInv
<1>1. MemoryInv'
  <2>1. [dm[d] EXCEPT !.up = "stopping", !.rpc = "idle", !.ren = 0] \in Memory
        /\ Calm([dm[d] EXCEPT !.up = "stopping", !.rpc = "idle", !.ren = 0])
    BY <1>0 DEF Memory, Calm, Tok
  <2>2. dm' = [dm EXCEPT ![d] = [dm[d] EXCEPT !.up = "stopping", !.rpc = "idle", !.ren = 0]]
    BY <1>0 DEF Stop
  <2>. QED
    BY <1>0, <2>1, <2>2, MemorySet DEF FleetInv
<1>2. LaunchInv' /\ row' \in Row
  BY ReapKeeps DEF Stop
<1>3. FenceInv'
  BY FenceKept DEF Stop, FleetInv
<1>4. RowInv'
  BY <1>2 DEF Stop, Hit, FleetInv, RowInv
<1>. QED
  BY <1>1, <1>2, <1>3, <1>4 DEF FleetInv

LEMMA HaltHolds == ASSUME FleetInv, NEW d \in Daemons, Halt(d) PROVE FleetInv'
<1>0. dm[d] \in Memory /\ Calm(dm[d])
  BY DEF FleetInv, MemoryInv
<1>1. MemoryInv'
  <2>1. Off(dm[d].rec) \in Memory /\ Calm(Off(dm[d].rec))
    BY <1>0, OffIsMemory DEF Memory
  <2>. QED
    BY <2>1, MemorySet DEF Halt, FleetInv
<1>2. LaunchInv'
  BY VanishSet DEF Halt, FleetInv
<1>3. FenceInv'
  BY ReleaseKeeps DEF Halt, FleetInv
<1>4. RowInv'
  BY RowKept DEF Halt, FleetInv, RowInv
<1>. QED
  BY <1>1, <1>2, <1>3, <1>4 DEF FleetInv

LEMMA CrashHolds == ASSUME FleetInv, NEW d \in Daemons, Crash(d) PROVE FleetInv'
<1>0. dm[d] \in Memory /\ Calm(dm[d])
  BY DEF FleetInv, MemoryInv
<1>1. MemoryInv'
  <2>1. Off(dm[d].rec) \in Memory /\ Calm(Off(dm[d].rec))
    BY <1>0, OffIsMemory DEF Memory
  <2>. QED
    BY <2>1, MemorySet DEF Crash, FleetInv
<1>2. LaunchInv'
  BY VanishSet DEF Crash, FleetInv
<1>3. FenceInv'
  BY FenceKept DEF Crash, FleetInv
<1>4. RowInv'
  BY RowKept DEF Crash, FleetInv, RowInv, Hit
<1>. QED
  BY <1>1, <1>2, <1>3, <1>4 DEF FleetInv

(* The engines.                                                            *)

LEMMA ResolvedKeeps ==
  ASSUME FleetInv, NEW d \in Daemons, OnConversationResolved(d), wrote' = wrote
  PROVE  MemoryInv' /\ FenceInv' /\ row' \in Row /\ inbox' \in 0..MaxInc
<1>0. dm[d] \in Memory /\ Calm(dm[d])
  BY DEF FleetInv, MemoryInv
<1>01. dm[d].st \in {"absent", "live", "exited"} /\ minted + 1 \in Tok
  BY <1>0 DEF Memory, FleetInv, FenceInv, Tok
<1>02. row' \in Row /\ Labelled(d, dm[d].st) \in Daemons \cup {Nobody}
  BY <1>01, WriteRecordKeeps DEF OnConversationResolved, FleetInv
<1>1. MemoryInv'
  <2>1. [dm[d] EXCEPT !.held = minted + 1, !.label = Labelled(d, dm[d].st)] \in Memory
        /\ Calm([dm[d] EXCEPT !.held = minted + 1, !.label = Labelled(d, dm[d].st)])
    BY <1>0, <1>01, <1>02 DEF Memory, Calm
  <2>2. dm' = [dm EXCEPT ![d] = [dm[d] EXCEPT !.held = minted + 1, !.label = Labelled(d, dm[d].st)]]
    BY Zenon DEF OnConversationResolved
  <2>. QED
    BY <1>0, <2>1, <2>2, MemorySet DEF FleetInv
<1>2. FenceInv'
  <2>1. lease' = [tok |-> minted + 1, holder |-> d, live |-> TRUE] /\ minted' = minted + 1
    BY DEF OnConversationResolved
  <2>2. LeaseOK' /\ lease'.tok = minted + 1
    BY <1>01, <2>1 DEF LeaseOK
  <2>. QED
    BY <2>1, <2>2 DEF FleetInv, FenceInv, Tok
<1>. QED
  BY <1>02, <1>1, <1>2, IncSlot DEF OnConversationResolved

LEMMA BuildHolds == ASSUME FleetInv, NEW i \in Incs, Build(i) PROVE FleetInv'
<1>0. inc[i].d \in Daemons /\ minted + 1 \in Tok
  BY LaunchHasDaemon DEF Build, FleetInv, FenceInv, Tok
<1>1. MemoryInv' /\ FenceInv' /\ row' \in Row /\ inbox' \in 0..MaxInc
  BY <1>0, ResolvedKeeps DEF Build
<1>2. LaunchInv'
  <2>1. [inc[i] EXCEPT !.phase = "running", !.tok = minted + 1] \in Launch
        /\ Placed([inc[i] EXCEPT !.phase = "running", !.tok = minted + 1])
    BY <1>0 DEF FleetInv, LaunchInv, Launch, Placed
  <2>2. inc' = [inc EXCEPT ![i] = [inc[i] EXCEPT !.phase = "running", !.tok = minted + 1]]
    BY Zenon DEF Build
  <2>. QED
    BY <2>1, <2>2, LaunchSet DEF FleetInv
<1>. QED
  BY <1>1, <1>2 DEF Build, FleetInv, RowInv

LEMMA BuildFailsHolds == ASSUME FleetInv, NEW i \in Incs, BuildFails(i) PROVE FleetInv'
<1>0. inc[i].d \in Daemons
  BY LaunchHasDaemon DEF BuildFails, FleetInv
<1>1. MemoryInv' /\ FenceInv' /\ row' \in Row /\ inbox' \in 0..MaxInc
  BY <1>0, ResolvedKeeps DEF BuildFails
<1>2. LaunchInv'
  BY <1>0, PhaseSet DEF BuildFails, FleetInv
<1>. QED
  BY <1>1, <1>2 DEF BuildFails, Hit, FleetInv, RowInv

LEMMA AcquireFailsHolds == ASSUME FleetInv, NEW i \in Incs, AcquireFails(i) PROVE FleetInv'
<1>0. inc[i].d \in Daemons
  BY LaunchHasDaemon DEF AcquireFails, FleetInv
<1>1. MemoryInv'
  BY MemoryKept DEF AcquireFails, FleetInv
<1>2. LaunchInv'
  BY <1>0, PhaseSet DEF AcquireFails, FleetInv
<1>3. FenceInv'
  BY FenceKept DEF AcquireFails, FleetInv
<1>4. RowInv'
  BY RowKept DEF AcquireFails, Hit, FleetInv, RowInv
<1>. QED
  BY <1>1, <1>2, <1>3, <1>4 DEF FleetInv

LEMMA BuildRefusedHolds == ASSUME FleetInv, NEW i \in Incs, BuildRefused(i) PROVE FleetInv'
<1>0. inc[i].d \in Daemons /\ dm[inc[i].d] \in Memory /\ Calm(dm[inc[i].d])
  BY LaunchHasDaemon DEF BuildRefused, FleetInv, MemoryInv
<1>1. MemoryInv'
  BY MemoryKept DEF BuildRefused, FleetInv
<1>2. LaunchInv'
  BY <1>0, PhaseSet DEF BuildRefused, FleetInv
<1>3. FenceInv'
  BY FenceKept DEF BuildRefused, FleetInv
<1>4. RowInv'
  BY RowKept DEF BuildRefused, FleetInv, RowInv
<1>. QED
  BY <1>1, <1>2, <1>3, <1>4 DEF FleetInv

LEMMA WriteHolds == ASSUME FleetInv, NEW i \in Incs, Write(i) PROVE FleetInv'
<1>1. MemoryInv'
  BY MemoryKept DEF Write, FleetInv
<1>2. LaunchInv'
  BY LaunchKept DEF Write, FleetInv
<1>3. FenceInv'
  <2>1. wrote' = lease.tok /\ UNCHANGED <<lease, minted>>
    BY DEF Write, Fenced
  <2>. QED
    BY <2>1 DEF FleetInv, FenceInv, LeaseOK, Tok
<1>4. RowInv'
  BY RowKept DEF Write, FleetInv, RowInv
<1>. QED
  BY <1>1, <1>2, <1>3, <1>4 DEF FleetInv

LEMMA DeliverHolds == ASSUME FleetInv, NEW i \in Incs, Deliver(i) PROVE FleetInv'
<1>1. MemoryInv'
  BY MemoryKept DEF Deliver, FleetInv
<1>2. LaunchInv'
  BY LaunchKept DEF Deliver, FleetInv
<1>3. FenceInv'
  BY FenceKept DEF Deliver, FleetInv
<1>4. RowInv'
  BY IncSlot DEF Deliver, FleetInv, RowInv
<1>. QED
  BY <1>1, <1>2, <1>3, <1>4 DEF FleetInv

LEMMA StatusChangeHolds == ASSUME FleetInv, NEW i \in Incs, StatusChange(i) PROVE FleetInv'
<1>0. inc[i].d \in Daemons /\ dm[inc[i].d] \in Memory /\ Calm(dm[inc[i].d])
  BY LaunchHasDaemon DEF StatusChange, FleetInv, MemoryInv, Running
<1>1. MemoryInv'
  BY MemoryKept DEF StatusChange, FleetInv
<1>2. LaunchInv'
  BY LaunchKept DEF StatusChange, FleetInv
<1>3. FenceInv'
  BY FenceKept DEF StatusChange, FleetInv
<1>4. RowInv'
  BY <1>0, UpsertIsRow DEF StatusChange, FleetInv, RowInv
<1>. QED
  BY <1>1, <1>2, <1>3, <1>4 DEF FleetInv

LEMMA FatalHolds == ASSUME FleetInv, NEW i \in Incs, Fatal(i) PROVE FleetInv'
<1>0. inc[i].d \in Daemons /\ dm[inc[i].d] \in Memory /\ Calm(dm[inc[i].d])
  BY LaunchHasDaemon DEF Fatal, FleetInv, MemoryInv, Running
<1>1. MemoryInv'
  BY MemoryKept DEF Fatal, FleetInv
<1>2. LaunchInv'
  BY <1>0, PhaseSet DEF Fatal, FleetInv
<1>3. FenceInv'
  BY FenceKept DEF Fatal, FleetInv
<1>5. ended' \in BOOLEAN
  BY Zenon DEF Fatal
<1>4. RowInv'
  BY <1>5 DEF Fatal, Hit, FleetInv, RowInv
<1>. QED
  BY <1>1, <1>2, <1>3, <1>4 DEF FleetInv

LEMMA MarkExitedHolds == ASSUME FleetInv, NEW i \in Incs, MarkExited(i) PROVE FleetInv'
<1>0. inc[i].d \in Daemons /\ dm[inc[i].d] \in Memory /\ Calm(dm[inc[i].d])
  BY LaunchHasDaemon DEF MarkExited, FleetInv, MemoryInv, Exiting
<1>1. MemoryInv'
  <2>1. [dm[inc[i].d] EXCEPT !.st = IF @ = "absent" THEN @ ELSE "exited"] \in Memory
        /\ Calm([dm[inc[i].d] EXCEPT !.st = IF @ = "absent" THEN @ ELSE "exited"])
    BY <1>0 DEF Memory, Calm
  <2>2. dm' = [dm EXCEPT ![inc[i].d] = [dm[inc[i].d] EXCEPT !.st = IF @ = "absent" THEN @ ELSE "exited"]]
    BY <1>0 DEF MarkExited
  <2>. QED
    BY <1>0, <2>1, <2>2, MemorySet DEF FleetInv
<1>2. LaunchInv'
  BY <1>0, ExitSet DEF MarkExited, FleetInv
<1>3. FenceInv'
  BY FenceKept DEF MarkExited, FleetInv
<1>4. RowInv'
  BY RowKept DEF MarkExited, FleetInv, RowInv
<1>. QED
  BY <1>1, <1>2, <1>3, <1>4 DEF FleetInv

LEMMA ExitRowHolds == ASSUME FleetInv, NEW i \in Incs, ExitRow(i) PROVE FleetInv'
<1>0. inc[i].d \in Daemons /\ dm[inc[i].d] \in Memory /\ Calm(dm[inc[i].d])
  BY LaunchHasDaemon DEF ExitRow, FleetInv, MemoryInv
<1>. DEFINE d == inc[i].d
<1>1. MemoryInv' /\ row' \in Row
  <2>1. CASE dm[d].up = "stopping"
    BY <2>1, MemoryKept DEF ExitRow, FleetInv, RowInv
  <2>2. CASE dm[d].up # "stopping"
    <3>1. WriteRecord(d, dm[d].st) /\ dm' = [dm EXCEPT ![d].label = Labelled(d, dm[d].st)]
      BY <2>2 DEF ExitRow
    <3>2. dm[d].st \in {"absent", "live", "exited"}
      BY <1>0 DEF Memory
    <3>3. row' \in Row /\ Labelled(d, dm[d].st) \in Daemons \cup {Nobody}
      BY <1>0, <3>1, <3>2, WriteRecordKeeps DEF FleetInv
    <3>4. [dm[d] EXCEPT !.label = Labelled(d, dm[d].st)] \in Memory
          /\ Calm([dm[d] EXCEPT !.label = Labelled(d, dm[d].st)])
      BY <1>0, <3>3 DEF Memory, Calm
    <3>5. dm' = [dm EXCEPT ![d] = [dm[d] EXCEPT !.label = Labelled(d, dm[d].st)]]
      BY <3>1, Zenon
    <3>. QED
      BY <1>0, <3>3, <3>4, <3>5, MemorySet DEF FleetInv
  <2>. QED
    BY <2>1, <2>2
<1>2. LaunchInv'
  BY <1>0, ExitSet DEF ExitRow, FleetInv
<1>3. FenceInv'
  BY FenceKept DEF ExitRow, FleetInv
<1>4. RowInv'
  BY <1>1 DEF ExitRow, FleetInv, RowInv
<1>. QED
  BY <1>1, <1>2, <1>3, <1>4 DEF FleetInv

LEMMA ExitInboxHolds == ASSUME FleetInv, NEW i \in Incs, ExitInbox(i) PROVE FleetInv'
<1>0. inc[i].d \in Daemons /\ dm[inc[i].d] \in Memory /\ Calm(dm[inc[i].d])
  BY LaunchHasDaemon DEF ExitInbox, FleetInv, MemoryInv
<1>1. MemoryInv'
  BY MemoryKept DEF ExitInbox, FleetInv
<1>2. LaunchInv'
  BY <1>0, ExitSet DEF ExitInbox, FleetInv
<1>3. FenceInv'
  BY FenceKept DEF ExitInbox, FleetInv
<1>4. RowInv'
  BY IncSlot DEF ExitInbox, FleetInv, RowInv
<1>. QED
  BY <1>1, <1>2, <1>3, <1>4 DEF FleetInv

LEMMA ExitLeaseHolds == ASSUME FleetInv, NEW i \in Incs, ExitLease(i) PROVE FleetInv'
<1>0. inc[i].d \in Daemons /\ dm[inc[i].d] \in Memory /\ Calm(dm[inc[i].d])
  BY LaunchHasDaemon DEF ExitLease, FleetInv, MemoryInv
<1>1. MemoryInv'
  <2>1. [dm[inc[i].d] EXCEPT !.held = 0] \in Memory
        /\ Calm([dm[inc[i].d] EXCEPT !.held = 0])
    BY <1>0 DEF Memory, Calm, Tok
  <2>2. dm' = [dm EXCEPT ![inc[i].d] = [dm[inc[i].d] EXCEPT !.held = 0]]
    BY <1>0 DEF ExitLease
  <2>. QED
    BY <1>0, <2>1, <2>2, MemorySet DEF FleetInv
<1>2. LaunchInv'
  BY <1>0, ExitSet DEF ExitLease, FleetInv
<1>3. FenceInv'
  BY <1>0, ReleaseKeeps DEF ExitLease, FleetInv
<1>4. RowInv'
  BY RowKept DEF ExitLease, FleetInv, RowInv
<1>. QED
  BY <1>1, <1>2, <1>3, <1>4 DEF FleetInv

LEMMA ExitRemoveHolds == ASSUME FleetInv, NEW i \in Incs, ExitRemove(i) PROVE FleetInv'
<1>0. inc[i].d \in Daemons /\ dm[inc[i].d] \in Memory /\ Calm(dm[inc[i].d])
  BY LaunchHasDaemon DEF ExitRemove, FleetInv, MemoryInv
<1>1. MemoryInv'
  <2>1. [dm[inc[i].d] EXCEPT !.cm = 0] \in Memory
        /\ Calm([dm[inc[i].d] EXCEPT !.cm = 0])
    BY <1>0, IncSlot DEF Memory, Calm
  <2>2. dm' = [dm EXCEPT ![inc[i].d] = [dm[inc[i].d] EXCEPT !.cm = 0]]
    BY <1>0 DEF ExitRemove
  <2>. QED
    BY <1>0, <2>1, <2>2, MemorySet DEF FleetInv
<1>2. LaunchInv'
  BY NoIncIsLaunch, LaunchSet DEF ExitRemove, FleetInv
<1>3. FenceInv'
  BY FenceKept DEF ExitRemove, FleetInv
<1>4. RowInv'
  BY RowKept DEF ExitRemove, FleetInv, RowInv
<1>. QED
  BY <1>1, <1>2, <1>3, <1>4 DEF FleetInv

LEMMA LapseHolds == ASSUME FleetInv, Lapse PROVE FleetInv'
<1>1. MemoryInv'
  BY MemoryKept DEF Lapse, FleetInv
<1>2. LaunchInv'
  BY LaunchKept DEF Lapse, FleetInv
<1>3. FenceInv'
  <2>1. lease' = [lease EXCEPT !.live = FALSE] /\ UNCHANGED <<minted, wrote>>
    BY DEF Lapse
  <2>2. LeaseOK' /\ lease'.tok = lease.tok /\ lease'.live = FALSE
    BY <2>1 DEF FleetInv, FenceInv, LeaseOK
  <2>. QED
    BY <2>1, <2>2 DEF FleetInv, FenceInv
<1>4. RowInv'
  BY RowKept DEF Lapse, FleetInv, RowInv, Hit
<1>. QED
  BY <1>1, <1>2, <1>3, <1>4 DEF FleetInv

LEMMA AgeHolds == ASSUME FleetInv, Age PROVE FleetInv'
<1>1. MemoryInv'
  BY MemoryKept DEF Age, FleetInv
<1>2. LaunchInv'
  BY LaunchKept DEF Age, FleetInv
<1>3. FenceInv'
  BY FenceKept DEF Age, FleetInv
<1>4. RowInv'
  <2>1. row' \in Row
    BY DEF Age, FleetInv, RowInv, Row
  <2>. QED
    BY <2>1 DEF Age, FleetInv, RowInv
<1>. QED
  BY <1>1, <1>2, <1>3, <1>4 DEF FleetInv

-----------------------------------------------------------------------------
LEMMA NextHolds == FleetInv /\ [Next]_vars => FleetInv'
<1>. SUFFICES ASSUME FleetInv, [Next]_vars PROVE FleetInv'
  OBVIOUS
<1>1. CASE UNCHANGED vars
  BY <1>1, MemoryKept, LaunchKept, FenceKept, RowKept DEF vars, FleetInv, RowInv
<1>2. ASSUME NEW d \in Daemons,
             \/ BootList(d) \/ BootFails(d) \/ Recover(d) \/ Resume(d) \/ Pend(d) \/ SweepPending(d)
             \/ Activate(d) \/ Kill(d) \/ RenewStep(d) \/ RenewError(d) \/ Close(d) \/ Stop(d) \/ Halt(d) \/ Crash(d)
      PROVE  FleetInv'
  BY <1>2, BootListHolds, BootFailsHolds, RecoverHolds, ResumeHolds, PendHolds, SweepPendingHolds, ActivateHolds,
     KillHolds, RenewSnapshotHolds, RenewHolds, DropLostHolds, KillLostHolds, RenewErrorHolds,
     CloseHolds, StopHolds, HaltHolds, CrashHolds
     DEF RenewStep
<1>3. ASSUME NEW i \in Incs,
             \/ Build(i) \/ BuildRefused(i) \/ AcquireFails(i) \/ BuildFails(i) \/ Write(i) \/ Deliver(i) \/ StatusChange(i) \/ Fatal(i)
             \/ ExitStep(i)
      PROVE  FleetInv'
  BY <1>3, BuildHolds, BuildRefusedHolds, AcquireFailsHolds, BuildFailsHolds, WriteHolds, DeliverHolds, StatusChangeHolds, FatalHolds,
     MarkExitedHolds, ExitRowHolds, ExitInboxHolds, ExitLeaseHolds, ExitRemoveHolds
     DEF ExitStep
<1>. QED
  BY <1>1, <1>2, <1>3, LapseHolds, AgeHolds DEF Next

(* The state of the fleet keeps its shape, and the invariant of the fence  *)
(* holds, for every number of daemons, every number of incarnations and    *)
(* every set of adverse events.                                            *)
THEOREM FenceHeld == Spec => []FleetInv
  BY InitHolds, NextHolds, PTL DEF Spec

(* Every reachable state of the fleet has the shape FleetTypeOK states:     *)
(* rows, leases, each daemon's memory and each incarnation.                *)
THEOREM FleetTypeCorrect == Spec => []FleetTypeOK
  BY FenceHeld, FleetInvTypes, PTL

(* Conversation writes are committed in the order their leases were        *)
(* acquired, whoever paused, died or was taken over (tree.go, fenceLease). *)
THEOREM WritesStayInOrder == Spec => WritesInOrder
<1>1. FleetInv /\ [Next]_vars => [wrote' >= wrote]_vars
  <2>. SUFFICES ASSUME FleetInv, Next PROVE wrote' >= wrote
    OBVIOUS
  <2>1. wrote \in Nat /\ wrote >= wrote
    BY DEF FleetInv, FenceInv, Tok
  <2>2. ASSUME NEW i \in Incs, Write(i) PROVE wrote' >= wrote
    BY <2>1, <2>2 DEF Write, Fenced, FleetInv, FenceInv, LeaseOK, Tok
  <2>3. CASE ~\E i \in Incs : Write(i)
    <3>1. ASSUME NEW d \in Daemons,
                 \/ BootList(d) \/ BootFails(d) \/ Recover(d) \/ Resume(d) \/ Pend(d) \/ SweepPending(d)
                 \/ Activate(d) \/ Kill(d) \/ RenewStep(d) \/ RenewError(d) \/ Close(d) \/ Stop(d)
                 \/ Halt(d) \/ Crash(d)
          PROVE  wrote' = wrote
      BY <3>1
        DEF RenewStep, BootList, BootFails, Recover, Resume, Pend, SweepPending, Activate,
            Kill, RenewSnapshot, Renew, DropLost, KillLost, RenewError, Close, Stop, Halt, Crash
    <3>2. ASSUME NEW i \in Incs,
                 \/ Build(i) \/ BuildRefused(i) \/ AcquireFails(i) \/ BuildFails(i) \/ Deliver(i)
                 \/ StatusChange(i) \/ Fatal(i) \/ ExitStep(i)
          PROVE  wrote' = wrote
      BY <3>2
        DEF ExitStep, Build, BuildRefused, AcquireFails, BuildFails, Deliver, StatusChange, Fatal,
            MarkExited, ExitRow, ExitInbox, ExitLease, ExitRemove
    <3>3. Lapse \/ Age => wrote' = wrote
      BY DEF Lapse, Age
    <3>. QED
      BY <2>1, <2>3, <3>1, <3>2, <3>3 DEF Next
  <2>. QED
    BY <2>2, <2>3
<1>. QED
  BY <1>1, FenceHeld, PTL DEF Spec, WritesInOrder

-----------------------------------------------------------------------------
(* One engine per daemon.                                                  *)

(* The scenarios the theorems below are about: a child no other daemon     *)
(* shares; an operator who waits for the exit to be over before a resume   *)
(* or a close, with no recovery parked.                                    *)
Alone   == \A d, e \in Daemons : d = e
Patient == "impatient" \notin Adverse /\ "pend" \notin Adverse

Exists(i) == inc[i].phase # "gone"

(* A launch that exists has a daemon that is up, exits only once it is     *)
(* watched and dead, and until it is watched is the one its daemon starts. *)
LaunchSeat(i) ==
  /\ Exists(i) => dm[inc[i].d].up \in {"up", "stopping"}
  /\ inc[i].x # "none" => inc[i].phase = "dead" /\ inc[i].mon
  /\ Exists(i) /\ ~inc[i].mon => dm[inc[i].d].start = i

(* The launch in flight and the manager's slot are launches of the daemon. *)
(* A spawn took the slot and the store entry when it forked, and is alone. *)
DaemonSeat(d) ==
  /\ dm[d].start # 0 =>
       /\ Exists(dm[d].start) /\ inc[dm[d].start].d = d /\ ~inc[dm[d].start].mon
       /\ dm[d].how = "spawn" =>
            /\ dm[d].cm = dm[d].start /\ dm[d].st = "live"
            /\ \A i \in Incs : Exists(i) /\ inc[i].d = d => i = dm[d].start
  /\ dm[d].cm # 0 =>
       /\ Exists(dm[d].cm) /\ inc[dm[d].cm].d = d
       /\ ~inc[dm[d].cm].mon => dm[d].how = "spawn"

Seats == (\A i \in Incs : LaunchSeat(i)) /\ (\A d \in Daemons : DaemonSeat(d))

(* What a step does to launches and to what a daemon keeps of them, the    *)
(* rest left out: the shapes the actions come in.                          *)
SameLaunch(i) ==
  /\ inc'[i].d = inc[i].d /\ inc'[i].phase = inc[i].phase
  /\ inc'[i].mon = inc[i].mon /\ inc'[i].x = inc[i].x

Stays(d) ==
  /\ dm'[d].start = dm[d].start /\ dm'[d].cm = dm[d].cm /\ dm'[d].how = dm[d].how
  /\ dm'[d].st = dm[d].st /\ (dm'[d].pend => dm[d].pend)
  /\ dm'[d].up = dm[d].up \/ (dm[d].up = "up" /\ dm'[d].up = "stopping")

OtherLaunches(i) == \A j \in Incs : j # i => SameLaunch(j)
OtherDaemons(d)  == \A e \in Daemons : e # d => Stays(e)

AllStay == \A d \in Daemons : Stays(d)
Quiet   == AllStay /\ \A i \in Incs : SameLaunch(i)

(* One launch, all daemons as they were: the engine is built; it dies; its *)
(* exit goes on.                                                           *)
Changes(i, phase, x) ==
  /\ AllStay /\ OtherLaunches(i)
  /\ inc'[i].d = inc[i].d /\ inc'[i].mon = inc[i].mon
  /\ inc'[i].phase = phase /\ inc'[i].x = x

Builds(i) == inc[i].phase = "building" /\ Changes(i, "running", inc[i].x)
Dies(i)   == /\ Alive(i) /\ Changes(i, "dead", inc[i].x)
             /\ \/ inc[i].mon \/ dm[inc[i].d].cm = i
                \/ ~Acquirable(inc[i].d) \/ "query" \in Adverse
Leaves(i) == /\ inc[i].x \in {"row", "inbox", "lease"}
             /\ \E x \in {"inbox", "lease", "remove"} : Changes(i, inc[i].phase, x)

Marks(i) ==
  /\ inc[i].phase = "dead" /\ inc[i].mon /\ inc[i].x = "none" /\ OtherLaunches(i)
  /\ inc'[i].d = inc[i].d /\ inc'[i].phase = "dead" /\ inc'[i].mon /\ inc'[i].x = "row"
  /\ LET d == inc[i].d
     IN  /\ OtherDaemons(d)
         /\ dm'[d].start = dm[d].start /\ dm'[d].cm = dm[d].cm /\ dm'[d].how = dm[d].how
         /\ dm'[d].up = dm[d].up /\ (dm'[d].pend => dm[d].pend)
         /\ dm'[d].st \in {"absent", "exited"}

Removes(i) ==
  /\ inc[i].x = "remove" /\ OtherLaunches(i) /\ inc'[i].phase = "gone" /\ inc'[i].x = "none"
  /\ LET d == inc[i].d
     IN  /\ OtherDaemons(d)
         /\ dm'[d].start = dm[d].start /\ dm'[d].cm = 0 /\ dm'[d].how = dm[d].how
         /\ dm'[d].up = dm[d].up /\ (dm'[d].pend => dm[d].pend) /\ dm'[d].st = dm[d].st

(* One daemon: it boots, recovers nothing, starts a launch, parks one,     *)
(* puts one under watch, closes the child, or is gone with its launches.   *)
Boots(d) ==
  /\ dm[d].up = "down" /\ OtherDaemons(d) /\ \A i \in Incs : SameLaunch(i)
  /\ dm'[d].start = 0 /\ dm'[d].cm = 0 /\ ~dm'[d].pend

Comes(d) ==
  /\ dm[d].up = "boot" /\ OtherDaemons(d) /\ \A i \in Incs : SameLaunch(i)
  /\ dm'[d].start = dm[d].start /\ dm'[d].cm = dm[d].cm /\ (dm'[d].pend => dm[d].pend)

Starts(d, i) ==
  /\ dm[d].up = "boot" \/ (dm[d].st = "exited" /\ dm[d].start = 0)
  /\ Patient => dm[d].up = "boot" \/ dm[d].cm = 0 \/ dm[d].pend
  /\ OtherDaemons(d) /\ OtherLaunches(i) /\ inc[i].phase = "gone"
  /\ inc'[i].d = d /\ inc'[i].phase = "building" /\ ~inc'[i].mon /\ inc'[i].x = "none"
  /\ dm'[d].start = i /\ dm'[d].cm = dm[d].cm /\ dm'[d].how \in {"manual", "auto"}
  /\ dm'[d].up \in {"up", "stopping"} /\ (dm'[d].pend => dm[d].pend)

Parks(d) ==
  /\ dm[d].how = "auto" /\ dm[d].start # 0 /\ ~Patient
  /\ OtherDaemons(d) /\ OtherLaunches(dm[d].start) /\ inc'[dm[d].start].phase = "gone"
  /\ inc'[dm[d].start].x = "none"
  /\ dm'[d].start = 0 /\ dm'[d].cm = dm[d].cm /\ dm'[d].how = dm[d].how /\ dm'[d].st = dm[d].st
  /\ dm'[d].up = dm[d].up

Watches(d) ==
  LET i == dm[d].start
  IN  /\ i # 0 /\ Exists(i) /\ OtherDaemons(d) /\ OtherLaunches(i)
      /\ inc'[i].d = inc[i].d /\ inc'[i].phase = inc[i].phase /\ inc'[i].mon /\ inc'[i].x = inc[i].x
      /\ dm'[d].start = 0 /\ dm'[d].how = dm[d].how /\ dm'[d].up = dm[d].up
      /\ dm'[d].pend => dm[d].pend
      /\ IF dm[d].how = "spawn" THEN dm'[d].cm = dm[d].cm /\ dm'[d].st = dm[d].st
         ELSE dm'[d].cm = i /\ (inc[i].phase # "dead" => dm'[d].st = "live")

Closes(d) ==
  /\ dm[d].st = "exited" /\ OtherDaemons(d) /\ \A i \in Incs : SameLaunch(i)
  /\ dm'[d].start = dm[d].start /\ dm'[d].cm = dm[d].cm /\ dm'[d].how = dm[d].how
  /\ dm'[d].up = dm[d].up /\ ~dm'[d].pend

Goes(d) ==
  /\ OtherDaemons(d) /\ dm'[d].start = 0 /\ dm'[d].cm = 0 /\ ~dm'[d].pend
  /\ \A i \in Incs : IF inc[i].d = d THEN inc'[i].phase = "gone" /\ inc'[i].x = "none"
                     ELSE SameLaunch(i)

Shape ==
  \/ Quiet
  \/ \E i \in Incs : Builds(i) \/ Dies(i) \/ Leaves(i) \/ Marks(i) \/ Removes(i)
  \/ \E d \in Daemons : \/ Boots(d) \/ Comes(d) \/ Parks(d) \/ Watches(d) \/ Closes(d) \/ Goes(d)
                        \/ \E i \in Incs : Starts(d, i)

(* A reaped launch, or none.                                               *)
LEMMA ReapShape ==
  ASSUME FleetInv, Seats, NEW d \in Daemons, Reap(d), AllStay
  PROVE  Quiet \/ \E i \in Incs : Dies(i)
<1>1. dm[d].cm \in 0..MaxInc /\ inc \in [Incs -> Launch]
  BY DEF FleetInv, MemoryInv, Memory, LaunchInv
<1>2. CASE dm[d].cm = 0 \/ ~Alive(dm[d].cm)
  BY <1>2 DEF Reap, Quiet, SameLaunch
<1>3. CASE ~(dm[d].cm = 0 \/ ~Alive(dm[d].cm))
  <2>0. dm[d].cm \in Incs
    BY <1>1, <1>3 DEF Incs
  <2>1. PICK i \in Incs : i = dm[d].cm /\ Alive(i)
    BY <1>3, <2>0
  <2>2. inc' = [inc EXCEPT ![i].phase = "dead"]
    BY <1>3, <2>1 DEF Reap
  <2>3. Changes(i, "dead", inc[i].x)
    BY <1>1, <2>2 DEF Changes, OtherLaunches, SameLaunch, Launch
  <2>4. inc[i].d = d
    BY <1>3, <2>1 DEF Seats, DaemonSeat
  <2>. QED
    BY <2>1, <2>3, <2>4 DEF Dies
<1>. QED
  BY <1>2, <1>3

LEMMA NextShape == FleetInv /\ Seats /\ [Next]_vars => Shape
<1>. SUFFICES ASSUME FleetInv, Seats, [Next]_vars PROVE Shape
  OBVIOUS
<1>0. /\ dm \in [Daemons -> Memory] /\ inc \in [Incs -> Launch]
      /\ \A d \in Daemons : dm[d].start # 0 => dm[d].start \in Incs
      /\ \A i \in Incs : Exists(i) \/ inc[i].x # "none" => inc[i].d \in Daemons
  <2>1. dm \in [Daemons -> Memory] /\ inc \in [Incs -> Launch] /\ LaunchInv
    BY DEF FleetInv, MemoryInv, LaunchInv
  <2>2. \A d \in Daemons : dm[d].start # 0 => dm[d].start \in Incs
    BY <2>1 DEF Memory, Incs
  <2>. QED
    BY <2>1, <2>2, LaunchHasDaemon DEF Exists
<1>1. CASE UNCHANGED vars
  BY <1>1 DEF vars, Shape, Quiet, AllStay, Stays, SameLaunch
<1>2. ASSUME NEW d \in Daemons, RenewSnapshot(d) PROVE Shape
  BY <1>0, <1>2 DEF RenewSnapshot, Shape, Quiet, AllStay, Stays, SameLaunch, Memory
<1>3. ASSUME NEW d \in Daemons, Renew(d) PROVE Shape
  BY <1>0, <1>3 DEF Renew, Shape, Quiet, AllStay, Stays, SameLaunch, Memory
<1>4. ASSUME NEW d \in Daemons, DropLost(d) PROVE Shape
  BY <1>0, <1>4 DEF DropLost, Shape, Quiet, AllStay, Stays, SameLaunch, Memory
<1>5. ASSUME NEW d \in Daemons, RenewError(d) PROVE Shape
  BY <1>0, <1>5 DEF RenewError, Shape, Quiet, AllStay, Stays, SameLaunch, Memory
<1>6. ASSUME NEW i \in Incs, Write(i) \/ Deliver(i) \/ StatusChange(i) PROVE Shape
  BY <1>6 DEF Write, Deliver, StatusChange, Shape, Quiet, AllStay, Stays, SameLaunch
<1>7. CASE Lapse \/ Age
  BY <1>7 DEF Lapse, Age, Shape, Quiet, AllStay, Stays, SameLaunch
<1>8. ASSUME NEW d \in Daemons, Kill(d) PROVE Shape
  <2>1. AllStay
    BY <1>0, <1>8 DEF Kill, AllStay, Stays, Memory, Up
  <2>. QED
    BY <1>8, <2>1, ReapShape DEF Kill, Shape
<1>9. ASSUME NEW d \in Daemons, KillLost(d) PROVE Shape
  <2>1. AllStay
    BY <1>0, <1>9 DEF KillLost, AllStay, Stays, Memory, Up
  <2>. QED
    BY <1>9, <2>1, ReapShape DEF KillLost, Shape
<1>10. ASSUME NEW d \in Daemons, Stop(d) PROVE Shape
  <2>1. AllStay
    BY <1>0, <1>10 DEF Stop, AllStay, Stays, Memory, Up
  <2>. QED
    BY <1>10, <2>1, ReapShape DEF Stop, Shape
<1>11. ASSUME NEW d \in Daemons, BootList(d) PROVE Shape
  <2>1. Boots(d)
    BY <1>0, <1>11 DEF BootList, Boots, OtherDaemons, Stays, SameLaunch, Off, Memory
  <2>. QED
    BY <2>1 DEF Shape
<1>11a. ASSUME NEW d \in Daemons, BootFails(d) PROVE Shape
  <2>1. Comes(d)
    BY <1>0, <1>11a DEF BootFails, Comes, OtherDaemons, Stays, SameLaunch, Memory
  <2>. QED
    BY <2>1 DEF Shape
<1>12. ASSUME NEW d \in Daemons, Recover(d) PROVE Shape
  <2>0. PICK adopted \in Adopts(d) : RecoverAs(d, adopted)
    BY <1>12 DEF Recover
  <2>. DEFINE entry == RecoveredEntry(d, adopted)
  <2>1. /\ entry.start = dm[d].start /\ entry.cm = dm[d].cm /\ entry.pend = dm[d].pend
        /\ entry.up = "up" /\ entry \in Memory
    <3>. DEFINE l == IF adopted THEN d ELSE dm[d].rec.owner
    <3>1. l \in Daemons /\ dm[d] \in Memory
      BY <1>0 DEF Memory, Row
    <3>2. entry = [dm[d] EXCEPT !.up = "up", !.leased = FALSE, !.st = "exited", !.label = l]
      BY DEF RecoveredEntry
    <3>. HIDE DEF l, entry
    <3>. QED
      BY <3>1, <3>2 DEF Memory
  <2>2. CASE dm[d].rec.closed
    <3>1. /\ \A e \in Daemons : e # d => dm'[e] = dm[e]
          /\ dm'[d].start = dm[d].start /\ dm'[d].cm = dm[d].cm /\ dm'[d].pend = dm[d].pend
          /\ UNCHANGED inc
      BY <1>0, <2>0, <2>2 DEF RecoverAs, Memory
    <3>2. Comes(d)
      BY <1>12, <3>1 DEF Recover, Comes, OtherDaemons, Stays, SameLaunch
    <3>. QED
      BY <3>2 DEF Shape
  <2>3. CASE ~dm[d].rec.closed /\ dm' = [dm EXCEPT ![d] = entry] /\ UNCHANGED inc
    <3>. HIDE DEF entry
    <3>1. /\ \A e \in Daemons : e # d => dm'[e] = dm[e]
          /\ dm'[d] = entry
      BY <1>0, <2>3
    <3>2. Comes(d)
      BY <1>12, <2>1, <2>3, <3>1 DEF Recover, Comes, OtherDaemons, Stays, SameLaunch
    <3>. QED
      BY <3>2 DEF Shape
  <2>4. ASSUME NEW i \in Incs, inc[i].phase = "gone",
               inc' = [inc EXCEPT ![i] = [NoInc EXCEPT !.d = d, !.phase = "building"]],
               dm' = [dm EXCEPT ![d] = [entry EXCEPT !.start = i, !.how = "auto"]]
        PROVE  Shape
    <3>. HIDE DEF entry
    <3>1. /\ \A e \in Daemons : e # d => dm'[e] = dm[e]
          /\ dm'[d].start = i /\ dm'[d].how = "auto" /\ dm'[d].cm = dm[d].cm /\ dm'[d].up = "up"
          /\ dm'[d].pend = dm[d].pend
      BY <1>0, <2>1, <2>4 DEF Memory
    <3>2. OtherLaunches(i) /\ inc'[i].d = d /\ inc'[i].phase = "building" /\ ~inc'[i].mon /\ inc'[i].x = "none"
      BY <1>0, <2>4 DEF OtherLaunches, SameLaunch, NoInc
    <3>3. Starts(d, i)
      BY <1>12, <2>4, <3>1, <3>2 DEF Recover, Starts, OtherDaemons, Stays
    <3>. QED
      BY <3>3 DEF Shape
  <2>5. \/ dm[d].rec.closed
        \/ ~dm[d].rec.closed /\ dm' = [dm EXCEPT ![d] = entry] /\ UNCHANGED inc
        \/ \E i \in Incs :
             /\ inc[i].phase = "gone"
             /\ inc' = [inc EXCEPT ![i] = [NoInc EXCEPT !.d = d, !.phase = "building"]]
             /\ dm' = [dm EXCEPT ![d] = [entry EXCEPT !.start = i, !.how = "auto"]]
    BY <2>0, Zenon DEF RecoverAs
  <2>. QED
    BY <2>2, <2>3, <2>4, <2>5
<1>13. ASSUME NEW d \in Daemons, Resume(d) PROVE Shape
  <2>1. PICK i \in Incs :
          /\ inc[i].phase = "gone"
          /\ inc' = [inc EXCEPT ![i] = [NoInc EXCEPT !.d = d, !.phase = "building"]]
          /\ dm' = [dm EXCEPT ![d].start = i, ![d].how = "manual"]
    BY <1>13 DEF Resume
  <2>2. /\ \A e \in Daemons : e # d => dm'[e] = dm[e]
       /\ dm'[d].start = i /\ dm'[d].cm = dm[d].cm /\ dm'[d].how \in {"manual", "auto"}
       /\ dm'[d].up = dm[d].up /\ (dm'[d].pend => dm[d].pend)
    BY <1>0, <2>1 DEF Memory
  <2>3. /\ OtherLaunches(i) /\ inc[i].phase = "gone"
       /\ inc'[i].d = d /\ inc'[i].phase = "building" /\ ~inc'[i].mon /\ inc'[i].x = "none"
    BY <1>0, <2>1 DEF OtherLaunches, SameLaunch, NoInc
  <2>4. Starts(d, i)
    BY <1>13, <2>2, <2>3 DEF Resume, Serving, Patient, Starts, OtherDaemons, Stays
  <2>. QED
    BY <2>4 DEF Shape
<1>14. ASSUME NEW d \in Daemons, Pend(d) PROVE Shape
  <2>1. Parks(d)
    BY <1>0, <1>14 DEF Pend, Hit, Patient, Parks, OtherDaemons, OtherLaunches, Stays, SameLaunch, Memory, NoInc
  <2>. QED
    BY <2>1 DEF Shape
<1>15. ASSUME NEW d \in Daemons, SweepPending(d) PROVE Shape
  <2>1. CASE dm[d].st = "exited"
    <3>1. PICK i \in Incs :
            /\ inc[i].phase = "gone"
            /\ inc' = [inc EXCEPT ![i] = [NoInc EXCEPT !.d = d, !.phase = "building"]]
            /\ dm' = [dm EXCEPT ![d].pend = FALSE, ![d].start = i, ![d].how = "auto"]
      BY <1>15, <2>1 DEF SweepPending
    <3>2. /\ \A e \in Daemons : e # d => dm'[e] = dm[e]
         /\ dm'[d].start = i /\ dm'[d].cm = dm[d].cm /\ dm'[d].how \in {"manual", "auto"}
         /\ dm'[d].up = dm[d].up /\ (dm'[d].pend => dm[d].pend)
      BY <1>0, <3>1 DEF Memory
    <3>3. /\ OtherLaunches(i) /\ inc[i].phase = "gone"
         /\ inc'[i].d = d /\ inc'[i].phase = "building" /\ ~inc'[i].mon /\ inc'[i].x = "none"
      BY <1>0, <3>1 DEF OtherLaunches, SameLaunch, NoInc
    <3>4. Starts(d, i)
      BY <1>15, <2>1, <3>2, <3>3 DEF SweepPending, Up, Starts, OtherDaemons, Stays
    <3>. QED
      BY <3>4 DEF Shape
  <2>2. CASE dm[d].st # "exited"
    BY <1>0, <1>15, <2>2 DEF SweepPending, Shape, Quiet, AllStay, Stays, SameLaunch, Memory
  <2>. QED
    BY <2>1, <2>2
<1>16. ASSUME NEW d \in Daemons, Activate(d) PROVE Shape
  <2>0. dm[d].start # 0 /\ dm[d].start \in Incs
    BY <1>0, <1>16 DEF Activate
  <2>1. PICK i \in Incs : i = dm[d].start /\ i # 0
    BY <2>0
  <2>2. /\ \A e \in Daemons : e # d => dm'[e] = dm[e]
        /\ dm'[d].start = 0 /\ dm'[d].how = dm[d].how /\ dm'[d].up = dm[d].up /\ dm'[d].pend = dm[d].pend
        /\ dm'[d].cm = IF dm[d].how = "spawn" THEN dm[d].cm ELSE i
        /\ dm'[d].st = IF dm[d].how = "spawn" THEN dm[d].st
                       ELSE IF inc[i].phase = "dead" THEN "exited" ELSE "live"
    BY <1>0, <1>16, <2>1, SMTT(30) DEF Activate, Memory
  <2>3. /\ OtherLaunches(i) /\ Exists(i)
        /\ inc'[i].d = inc[i].d /\ inc'[i].phase = inc[i].phase /\ inc'[i].mon /\ inc'[i].x = inc[i].x
    BY <1>0, <1>16, <2>1 DEF Activate, Exists, OtherLaunches, SameLaunch, Launch
  <2>4. Watches(d)
    BY <2>1, <2>2, <2>3 DEF Watches, OtherDaemons, Stays
  <2>. QED
    BY <2>4 DEF Shape
<1>17. ASSUME NEW d \in Daemons, Close(d) PROVE Shape
  <2>1. Closes(d)
    BY <1>0, <1>17 DEF Close, Closes, OtherDaemons, Stays, SameLaunch, Memory
  <2>. QED
    BY <2>1 DEF Shape
<1>18. ASSUME NEW d \in Daemons, Halt(d) \/ Crash(d) PROVE Shape
  <2>1. Goes(d)
    BY <1>0, <1>18 DEF Halt, Crash, Goes, Vanish, OtherDaemons, Stays, SameLaunch, Off, NoInc, Memory
  <2>. QED
    BY <2>1 DEF Shape
<1>19. ASSUME NEW i \in Incs, Build(i) PROVE Shape
  <2>1. AllStay
    BY <1>0, <1>19 DEF Build, OnConversationResolved, Exists, AllStay, Stays, Memory
  <2>2. Builds(i)
    BY <1>0, <1>19, <2>1 DEF Build, Builds, Changes, OtherLaunches, SameLaunch, Launch
  <2>. QED
    BY <2>2 DEF Shape
<1>19a. ASSUME NEW i \in Incs, AcquireFails(i) \/ BuildFails(i) PROVE Shape
  <2>1. AllStay
    <3>1. CASE AcquireFails(i)
      BY <3>1 DEF AcquireFails, AllStay, Stays
    <3>2. CASE BuildFails(i)
      BY <1>0, <3>2 DEF BuildFails, OnConversationResolved, Exists, AllStay, Stays, Memory
    <3>. QED
      BY <1>19a, <3>1, <3>2
  <2>2. Dies(i)
    BY <1>0, <1>19a, <2>1 DEF AcquireFails, BuildFails, Hit, Alive, Dies, Changes, OtherLaunches, SameLaunch, Launch
  <2>. QED
    BY <2>2 DEF Shape
<1>20. ASSUME NEW i \in Incs, BuildRefused(i) \/ Fatal(i) PROVE Shape
  <2>1. AllStay
    BY <1>20 DEF BuildRefused, Fatal, AllStay, Stays
  <2>2. Dies(i)
    BY <1>0, <1>20, <2>1 DEF BuildRefused, Fatal, Running, Alive, Dies, Changes, OtherLaunches, SameLaunch, Launch
  <2>. QED
    BY <2>2 DEF Shape
<1>21. ASSUME NEW i \in Incs, MarkExited(i) PROVE Shape
  <2>1. Marks(i)
    BY <1>0, <1>21 DEF MarkExited, Exiting, Exists, Marks, OtherDaemons, OtherLaunches, Stays, SameLaunch, Launch, Memory
  <2>. QED
    BY <2>1 DEF Shape
<1>22. ASSUME NEW i \in Incs, ExitRow(i) PROVE Shape
  <2>1. AllStay
    BY <1>0, <1>22 DEF ExitRow, AllStay, Stays, Memory
  <2>2. Changes(i, inc[i].phase, "inbox")
    BY <1>0, <1>22, <2>1 DEF ExitRow, Changes, OtherLaunches, SameLaunch, Launch
  <2>3. Leaves(i)
    BY <1>22, <2>2 DEF ExitRow, Leaves
  <2>. QED
    BY <2>3 DEF Shape
<1>23. ASSUME NEW i \in Incs, ExitInbox(i) PROVE Shape
  <2>1. AllStay
    BY <1>0, <1>23 DEF ExitInbox, AllStay, Stays, Memory
  <2>2. Changes(i, inc[i].phase, "lease")
    BY <1>0, <1>23, <2>1 DEF ExitInbox, Changes, OtherLaunches, SameLaunch, Launch
  <2>3. Leaves(i)
    BY <1>23, <2>2 DEF ExitInbox, Leaves
  <2>. QED
    BY <2>3 DEF Shape
<1>24. ASSUME NEW i \in Incs, ExitLease(i) PROVE Shape
  <2>1. AllStay
    BY <1>0, <1>24 DEF ExitLease, AllStay, Stays, Memory
  <2>2. Changes(i, inc[i].phase, "remove")
    BY <1>0, <1>24, <2>1 DEF ExitLease, Changes, OtherLaunches, SameLaunch, Launch
  <2>3. Leaves(i)
    BY <1>24, <2>2 DEF ExitLease, Leaves
  <2>. QED
    BY <2>3 DEF Shape
<1>25. ASSUME NEW i \in Incs, ExitRemove(i) PROVE Shape
  <2>1. Removes(i)
    BY <1>0, <1>25 DEF ExitRemove, Removes, OtherDaemons, OtherLaunches, Stays, SameLaunch, Launch, Memory, NoInc
  <2>. QED
    BY <2>1 DEF Shape
<1>. QED
  BY <1>1, <1>2, <1>3, <1>4, <1>5, <1>6, <1>7, <1>8, <1>9, <1>10, <1>11, <1>11a, <1>12, <1>13, <1>14, <1>15, <1>16, <1>17, <1>18, <1>19, <1>19a, <1>20, <1>21, <1>22, <1>23, <1>24, <1>25 DEF Next, RenewStep, ExitStep

(* Slots and launches name launches and daemons.                           *)
Placing ==
  /\ 0 \notin Incs
  /\ \A i \in Incs : Exists(i) => inc[i].d \in Daemons
  /\ \A d \in Daemons : (dm[d].start # 0 => dm[d].start \in Incs) /\ (dm[d].cm # 0 => dm[d].cm \in Incs)

LEMMA Places == FleetInv => Placing
<1>. SUFFICES ASSUME FleetInv PROVE Placing
  OBVIOUS
<1>1. \A d \in Daemons : dm[d].start \in 0..MaxInc /\ dm[d].cm \in 0..MaxInc
  BY DEF FleetInv, MemoryInv, Memory
<1>2. \A i \in Incs : Exists(i) => inc[i].d \in Daemons
  BY LaunchHasDaemon DEF FleetInv, Exists
<1>. QED
  BY <1>1, <1>2, FleetAssumption DEF Placing, Incs

LEMMA SeatsKept ==
  ASSUME FleetInv, Seats, Shape
  PROVE  Seats'
<1>0. Placing
  BY Places
<1>1. CASE Quiet
  BY <1>0, <1>1 DEF Placing, Quiet, AllStay, Stays, SameLaunch, Seats, LaunchSeat, DaemonSeat, Exists
<1>2. ASSUME NEW i \in Incs, Builds(i) PROVE Seats'
  BY <1>0, <1>2 DEF Placing, Builds, Changes, AllStay, Alive, OtherLaunches, OtherDaemons, Stays, SameLaunch, Seats, LaunchSeat, DaemonSeat, Exists
<1>3. ASSUME NEW i \in Incs, Dies(i) PROVE Seats'
  BY <1>0, <1>3 DEF Placing, Dies, Changes, AllStay, Alive, OtherLaunches, OtherDaemons, Stays, SameLaunch, Seats, LaunchSeat, DaemonSeat, Exists
<1>4. ASSUME NEW i \in Incs, Leaves(i) PROVE Seats'
  BY <1>0, <1>4 DEF Placing, Leaves, Changes, AllStay, OtherLaunches, OtherDaemons, Stays, SameLaunch, Seats, LaunchSeat, DaemonSeat, Exists
<1>5. ASSUME NEW i \in Incs, Marks(i) PROVE Seats'
  BY <1>0, <1>5, SMTT(30) DEF Placing, Marks, OtherLaunches, OtherDaemons, Stays, SameLaunch, Seats, LaunchSeat, DaemonSeat, Exists
<1>6. ASSUME NEW i \in Incs, Removes(i) PROVE Seats'
  BY <1>0, <1>6, SMTT(30) DEF Placing, Removes, OtherLaunches, OtherDaemons, Stays, SameLaunch, Seats, LaunchSeat, DaemonSeat, Exists
<1>7. ASSUME NEW d \in Daemons, Boots(d) PROVE Seats'
  BY <1>0, <1>7 DEF Placing, Boots, OtherLaunches, OtherDaemons, Stays, SameLaunch, Seats, LaunchSeat, DaemonSeat, Exists
<1>8. ASSUME NEW d \in Daemons, Comes(d) PROVE Seats'
  BY <1>0, <1>8 DEF Placing, Comes, OtherLaunches, OtherDaemons, Stays, SameLaunch, Seats, LaunchSeat, DaemonSeat, Exists
<1>9. ASSUME NEW d \in Daemons, Parks(d) PROVE Seats'
  <2>1. PICK i \in Incs : i = dm[d].start /\ Exists(i) /\ inc[i].d = d /\ ~inc[i].mon /\ dm[d].cm # i
    BY <1>0, <1>9 DEF Placing, Parks, Seats, DaemonSeat
  <2>2. OtherDaemons(d) /\ OtherLaunches(i) /\ inc'[i].phase = "gone" /\ inc'[i].x = "none"
    BY <1>9, <2>1 DEF Parks
  <2>3. \A j \in Incs : LaunchSeat(j)'
    BY <1>0, <1>9, <2>1, <2>2 DEF Placing, Parks, OtherLaunches, OtherDaemons, Stays, SameLaunch, Seats, LaunchSeat, Exists
  <2>4. \A e \in Daemons : DaemonSeat(e)'
    <3>1. DaemonSeat(d)'
      BY <1>0, <1>9, <2>1, <2>2 DEF Placing, Parks, OtherLaunches, SameLaunch, Seats, DaemonSeat, Exists
    <3>2. ASSUME NEW e \in Daemons, e # d PROVE DaemonSeat(e)'
      <4>1. Stays(e) /\ DaemonSeat(e)
        BY <2>2, <3>2 DEF OtherDaemons, Seats
      <4>2. dm[e].start # i /\ dm[e].cm # i
        BY <1>0, <2>1, <3>2, <4>1 DEF DaemonSeat, Placing, Exists
      <4>. QED
        BY <1>0, <2>1, <2>2, <3>2, <4>1, <4>2 DEF Placing, OtherLaunches, Stays, SameLaunch, DaemonSeat, Exists
    <3>. QED
      BY <3>1, <3>2
  <2>. QED
    BY <2>3, <2>4 DEF Seats
<1>10. ASSUME NEW d \in Daemons, Watches(d) PROVE Seats'
  BY <1>0, <1>10, SMTT(30) DEF Placing, Watches, OtherLaunches, OtherDaemons, Stays, SameLaunch, Seats, LaunchSeat, DaemonSeat, Exists
<1>11. ASSUME NEW d \in Daemons, Closes(d) PROVE Seats'
  BY <1>0, <1>11 DEF Placing, Closes, OtherLaunches, OtherDaemons, Stays, SameLaunch, Seats, LaunchSeat, DaemonSeat, Exists
<1>12. ASSUME NEW d \in Daemons, Goes(d) PROVE Seats'
  BY <1>0, <1>12 DEF Placing, Goes, OtherLaunches, OtherDaemons, Stays, SameLaunch, Seats, LaunchSeat, DaemonSeat, Exists
<1>13. ASSUME NEW d \in Daemons, NEW i \in Incs, Starts(d, i) PROVE Seats'
  BY <1>0, <1>13 DEF Placing, Starts, OtherLaunches, OtherDaemons, Stays, SameLaunch, Seats, LaunchSeat, DaemonSeat, Exists
<1>. QED
  BY <1>1, <1>2, <1>3, <1>4, <1>5, <1>6, <1>7, <1>8, <1>9, <1>10, <1>11, <1>12, <1>13 DEF Shape

(* A launch whose exit is not marked yet: the store entry speaks of it.    *)
Unmarked(i) == Exists(i) /\ inc[i].x = "none"

(* Alone, a daemon has one unmarked launch at a time: while it is watched  *)
(* the store does not say exited, so no resume starts another.             *)
AloneInv ==
  /\ \A i, j \in Incs : Unmarked(i) /\ Unmarked(j) /\ inc[i].d = inc[j].d => i = j
  /\ \A i \in Incs : Unmarked(i) =>
       /\ inc[i].mon => dm[inc[i].d].st = "live"
       /\ ~inc[i].mon /\ inc[i].phase = "dead" => dm[inc[i].d].how = "spawn"

LEMMA AloneKept ==
  ASSUME FleetInv, Seats, AloneInv, "query" \notin Adverse, \A d \in Daemons : Acquirable(d), Shape
  PROVE  AloneInv'
<1>0. Placing
  BY Places
<1>1. CASE Quiet
  BY <1>0, <1>1 DEF Placing, Seats, LaunchSeat, DaemonSeat, Quiet, AllStay, Stays, SameLaunch, AloneInv, Unmarked, Exists
<1>2. ASSUME NEW i \in Incs, Builds(i) PROVE AloneInv'
  BY <1>0, <1>2 DEF Placing, Seats, LaunchSeat, DaemonSeat, Builds, Changes, AllStay, Alive, OtherLaunches, OtherDaemons, Stays, SameLaunch, AloneInv, Unmarked, Exists
<1>3. ASSUME NEW i \in Incs, Dies(i) PROVE AloneInv'
  BY <1>0, <1>3 DEF Placing, Seats, LaunchSeat, DaemonSeat, Dies, Changes, AllStay, Alive, OtherLaunches, OtherDaemons, Stays, SameLaunch, AloneInv, Unmarked, Exists
<1>4. ASSUME NEW i \in Incs, Leaves(i) PROVE AloneInv'
  BY <1>0, <1>4 DEF Placing, Seats, LaunchSeat, DaemonSeat, Leaves, Changes, AllStay, OtherLaunches, OtherDaemons, Stays, SameLaunch, AloneInv, Unmarked, Exists
<1>5. ASSUME NEW i \in Incs, Marks(i) PROVE AloneInv'
  BY <1>0, <1>5 DEF Placing, Seats, LaunchSeat, DaemonSeat, Marks, OtherLaunches, OtherDaemons, Stays, SameLaunch, AloneInv, Unmarked, Exists
<1>6. ASSUME NEW i \in Incs, Removes(i) PROVE AloneInv'
  BY <1>0, <1>6 DEF Placing, Seats, LaunchSeat, DaemonSeat, Removes, OtherLaunches, OtherDaemons, Stays, SameLaunch, AloneInv, Unmarked, Exists
<1>7. ASSUME NEW d \in Daemons, Boots(d) PROVE AloneInv'
  BY <1>0, <1>7 DEF Placing, Seats, LaunchSeat, DaemonSeat, Boots, OtherLaunches, OtherDaemons, Stays, SameLaunch, AloneInv, Unmarked, Exists
<1>8. ASSUME NEW d \in Daemons, Comes(d) PROVE AloneInv'
  BY <1>0, <1>8 DEF Placing, Seats, LaunchSeat, DaemonSeat, Comes, OtherLaunches, OtherDaemons, Stays, SameLaunch, AloneInv, Unmarked, Exists
<1>9. ASSUME NEW d \in Daemons, Parks(d) PROVE AloneInv'
  BY <1>0, <1>9 DEF Placing, Seats, LaunchSeat, DaemonSeat, Parks, OtherLaunches, OtherDaemons, Stays, SameLaunch, AloneInv, Unmarked, Exists
<1>10. ASSUME NEW d \in Daemons, Watches(d) PROVE AloneInv'
  BY <1>0, <1>10 DEF Placing, Seats, LaunchSeat, DaemonSeat, Watches, OtherLaunches, OtherDaemons, Stays, SameLaunch, AloneInv, Unmarked, Exists
<1>11. ASSUME NEW d \in Daemons, Closes(d) PROVE AloneInv'
  BY <1>0, <1>11 DEF Placing, Seats, LaunchSeat, DaemonSeat, Closes, OtherLaunches, OtherDaemons, Stays, SameLaunch, AloneInv, Unmarked, Exists
<1>12. ASSUME NEW d \in Daemons, Goes(d) PROVE AloneInv'
  BY <1>0, <1>12 DEF Placing, Seats, LaunchSeat, DaemonSeat, Goes, OtherLaunches, OtherDaemons, Stays, SameLaunch, AloneInv, Unmarked, Exists
<1>13. ASSUME NEW d \in Daemons, NEW i \in Incs, Starts(d, i) PROVE AloneInv'
  BY <1>0, <1>13 DEF Placing, Seats, LaunchSeat, DaemonSeat, Starts, OtherLaunches, OtherDaemons, Stays, SameLaunch, AloneInv, Unmarked, Exists
<1>. QED
  BY <1>1, <1>2, <1>3, <1>4, <1>5, <1>6, <1>7, <1>8, <1>9, <1>10, <1>11, <1>12, <1>13 DEF Shape

(* Patient, a daemon has one launch at a time, in the slot once watched.   *)
PatientInv ==
  /\ \A d \in Daemons : ~dm[d].pend
  /\ \A i, j \in Incs : Exists(i) /\ Exists(j) /\ inc[i].d = inc[j].d => i = j
  /\ \A i \in Incs : Exists(i) /\ inc[i].mon => dm[inc[i].d].cm = i

LEMMA PatientKept ==
  ASSUME FleetInv, Seats, PatientInv, Patient, Shape
  PROVE  PatientInv'
<1>0. Placing
  BY Places
<1>1. CASE Quiet
  BY <1>0, <1>1 DEF Placing, Seats, LaunchSeat, DaemonSeat, Quiet, AllStay, Stays, SameLaunch, PatientInv, Exists
<1>2. ASSUME NEW i \in Incs, Builds(i) PROVE PatientInv'
  BY <1>0, <1>2 DEF Placing, Seats, LaunchSeat, DaemonSeat, Builds, Changes, AllStay, Alive, OtherLaunches, OtherDaemons, Stays, SameLaunch, PatientInv, Exists
<1>3. ASSUME NEW i \in Incs, Dies(i) PROVE PatientInv'
  BY <1>0, <1>3 DEF Placing, Seats, LaunchSeat, DaemonSeat, Dies, Changes, AllStay, Alive, OtherLaunches, OtherDaemons, Stays, SameLaunch, PatientInv, Exists
<1>4. ASSUME NEW i \in Incs, Leaves(i) PROVE PatientInv'
  BY <1>0, <1>4 DEF Placing, Seats, LaunchSeat, DaemonSeat, Leaves, Changes, AllStay, OtherLaunches, OtherDaemons, Stays, SameLaunch, PatientInv, Exists
<1>5. ASSUME NEW i \in Incs, Marks(i) PROVE PatientInv'
  BY <1>0, <1>5 DEF Placing, Seats, LaunchSeat, DaemonSeat, Marks, OtherLaunches, OtherDaemons, Stays, SameLaunch, PatientInv, Exists
<1>6. ASSUME NEW i \in Incs, Removes(i) PROVE PatientInv'
  BY <1>0, <1>6 DEF Placing, Seats, LaunchSeat, DaemonSeat, Removes, OtherLaunches, OtherDaemons, Stays, SameLaunch, PatientInv, Exists
<1>7. ASSUME NEW d \in Daemons, Boots(d) PROVE PatientInv'
  BY <1>0, <1>7 DEF Placing, Seats, LaunchSeat, DaemonSeat, Boots, OtherLaunches, OtherDaemons, Stays, SameLaunch, PatientInv, Exists
<1>8. ASSUME NEW d \in Daemons, Comes(d) PROVE PatientInv'
  BY <1>0, <1>8 DEF Placing, Seats, LaunchSeat, DaemonSeat, Comes, OtherLaunches, OtherDaemons, Stays, SameLaunch, PatientInv, Exists
<1>9. ASSUME NEW d \in Daemons, Parks(d) PROVE PatientInv'
  BY <1>0, <1>9 DEF Placing, Seats, LaunchSeat, DaemonSeat, Parks, OtherLaunches, OtherDaemons, Stays, SameLaunch, PatientInv, Exists
<1>10. ASSUME NEW d \in Daemons, Watches(d) PROVE PatientInv'
  BY <1>0, <1>10 DEF Placing, Seats, LaunchSeat, DaemonSeat, Watches, OtherLaunches, OtherDaemons, Stays, SameLaunch, PatientInv, Exists
<1>11. ASSUME NEW d \in Daemons, Closes(d) PROVE PatientInv'
  BY <1>0, <1>11 DEF Placing, Seats, LaunchSeat, DaemonSeat, Closes, OtherLaunches, OtherDaemons, Stays, SameLaunch, PatientInv, Exists
<1>12. ASSUME NEW d \in Daemons, Goes(d) PROVE PatientInv'
  BY <1>0, <1>12 DEF Placing, Seats, LaunchSeat, DaemonSeat, Goes, OtherLaunches, OtherDaemons, Stays, SameLaunch, PatientInv, Exists
<1>13. ASSUME NEW d \in Daemons, NEW i \in Incs, Starts(d, i) PROVE PatientInv'
  BY <1>0, <1>13 DEF Placing, Seats, LaunchSeat, DaemonSeat, Starts, OtherLaunches, OtherDaemons, Stays, SameLaunch, PatientInv, Exists
<1>. QED
  BY <1>1, <1>2, <1>3, <1>4, <1>5, <1>6, <1>7, <1>8, <1>9, <1>10, <1>11, <1>12, <1>13 DEF Shape

(* Initially one daemon has one launch, a spawn or built.                  *)
LEMMA InitSeats == Init => Seats /\ AloneInv /\ PatientInv
<1>. SUFFICES ASSUME Init PROVE Seats /\ AloneInv /\ PatientInv
  OBVIOUS
<1>1. PICK d \in Daemons, built \in BOOLEAN :
    /\ minted = IF built THEN 1 ELSE 0
    /\ row = Upsert(d, "live")
    /\ dm = [e \in Daemons |->
               IF e # d THEN Off(row)
               ELSE [Off(row) EXCEPT !.up = "up", !.st = "live", !.label = d, !.cm = 1,
                                     !.held = minted, !.start = IF built THEN 0 ELSE 1]]
    /\ inc = [i \in Incs |->
                IF i # 1 THEN NoInc
                ELSE [d |-> d, phase |-> IF built THEN "running" ELSE "building",
                      tok |-> minted, mon |-> built, x |-> "none"]]
  BY DEF Init
<1>2. /\ \A e \in Daemons : e # d => dm[e].start = 0 /\ dm[e].cm = 0 /\ ~dm[e].pend
      /\ dm[d].up = "up" /\ dm[d].st = "live" /\ dm[d].cm = 1 /\ dm[d].how = "spawn" /\ ~dm[d].pend
      /\ dm[d].start = IF built THEN 0 ELSE 1
  BY <1>1 DEF Off
<1>3. /\ 1 \in Incs /\ 0 \notin Incs
      /\ \A i \in Incs : i # 1 => inc[i].phase = "gone" /\ inc[i].x = "none"
      /\ inc[1].d = d /\ inc[1].phase \in {"running", "building"} /\ inc[1].x = "none"
      /\ inc[1].mon <=> built
  <2>1. 1 \in Incs /\ 0 \notin Incs
    BY FleetAssumption DEF Incs
  <2>2. inc[1] = [d |-> d, phase |-> IF built THEN "running" ELSE "building",
                  tok |-> minted, mon |-> built, x |-> "none"]
    BY <1>1, <2>1
  <2>3. \A i \in Incs : i # 1 => inc[i] = NoInc
    BY <1>1
  <2>. QED
    BY <2>1, <2>2, <2>3 DEF NoInc
<1>4. Seats
  BY <1>2, <1>3 DEF Seats, LaunchSeat, DaemonSeat, Exists
<1>5. AloneInv
  BY <1>2, <1>3 DEF AloneInv, Unmarked, Exists
<1>6. PatientInv
  BY <1>2, <1>3 DEF PatientInv, Exists
<1>. QED
  BY <1>4, <1>5, <1>6

(* A lease is some daemon's, and with one daemon nobody is refused it.     *)
HolderInv == lease.tok # 0 => lease.holder \in Daemons

LEMMA InitHolder == Init => HolderInv
<1>. SUFFICES ASSUME Init PROVE HolderInv
  OBVIOUS
<1>1. PICK d \in Daemons, built \in BOOLEAN :
        lease = IF built THEN [tok |-> 1, holder |-> d, live |-> TRUE] ELSE NoLease
  BY DEF Init
<1>2. CASE built
  BY <1>1, <1>2 DEF HolderInv
<1>3. CASE ~built
  BY <1>1, <1>3 DEF HolderInv, NoLease
<1>. QED
  BY <1>2, <1>3

LEMMA HolderKept == FleetInv /\ HolderInv /\ [Next]_vars => HolderInv'
<1>. SUFFICES ASSUME FleetInv, HolderInv, [Next]_vars PROVE HolderInv'
  OBVIOUS
<1>0. LeaseOK
  BY DEF FleetInv, FenceInv
<1>1. ASSUME NEW i \in Incs, Build(i) PROVE HolderInv'
  <2>1. inc[i].d \in Daemons
    BY <1>1, LaunchHasDaemon DEF Build, FleetInv
  <2>. QED
    BY <1>1, <2>1 DEF Build, OnConversationResolved, HolderInv
<1>1a. ASSUME NEW i \in Incs, BuildFails(i) PROVE HolderInv'
  <2>1. inc[i].d \in Daemons
    BY <1>1a, LaunchHasDaemon DEF BuildFails, FleetInv
  <2>. QED
    BY <1>1a, <2>1 DEF BuildFails, OnConversationResolved, HolderInv
<1>2. ASSUME NEW d \in Daemons, lease' = Released(d) PROVE HolderInv'
  <2>1. CASE lease' = lease
    BY <2>1 DEF HolderInv
  <2>2. CASE lease' = NoLease
    BY <2>2 DEF HolderInv, NoLease
  <2>. QED
    BY <1>2, <2>1, <2>2 DEF Released
<1>3. ASSUME NEW b \in BOOLEAN, lease' = [lease EXCEPT !.live = b] PROVE HolderInv'
  BY <1>0, <1>3 DEF HolderInv, LeaseOK
<1>4. CASE UNCHANGED lease
  BY <1>4 DEF HolderInv
<1>5. ASSUME NEW d \in Daemons, Renew(d) PROVE HolderInv'
  BY <1>3, <1>4, <1>5 DEF Renew
<1>6. ASSUME NEW d \in Daemons, Halt(d) PROVE HolderInv'
  BY <1>2, <1>6 DEF Halt
<1>7. ASSUME NEW i \in Incs, ExitLease(i) PROVE HolderInv'
  <2>1. inc[i].d \in Daemons
    BY <1>7, LaunchHasDaemon DEF ExitLease, FleetInv
  <2>. QED
    BY <1>2, <1>7, <2>1 DEF ExitLease
<1>8. CASE Lapse
  BY <1>3, <1>8 DEF Lapse
<1>9. ASSUME NEW d \in Daemons,
             \/ BootList(d) \/ BootFails(d) \/ Recover(d) \/ Resume(d) \/ Pend(d) \/ SweepPending(d)
             \/ Activate(d) \/ Kill(d) \/ RenewSnapshot(d) \/ DropLost(d) \/ KillLost(d) \/ RenewError(d) \/ Close(d)
             \/ Stop(d) \/ Crash(d)
      PROVE  UNCHANGED lease
  BY <1>9 DEF BootList, BootFails, Recover, Resume, Pend, SweepPending, Activate, Kill, RenewSnapshot, DropLost,
              KillLost, RenewError, Close, Stop, Crash
<1>10. ASSUME NEW i \in Incs,
              \/ BuildRefused(i) \/ AcquireFails(i) \/ Write(i) \/ Deliver(i) \/ StatusChange(i) \/ Fatal(i)
              \/ MarkExited(i) \/ ExitRow(i) \/ ExitInbox(i) \/ ExitRemove(i)
       PROVE  UNCHANGED lease
  BY <1>10 DEF BuildRefused, AcquireFails, Write, Deliver, StatusChange, Fatal, MarkExited, ExitRow, ExitInbox, ExitRemove
<1>11. CASE Age \/ UNCHANGED vars
  BY <1>4, <1>11 DEF Age, vars
<1>. QED
  BY <1>1, <1>1a, <1>4, <1>5, <1>6, <1>7, <1>8, <1>9, <1>10, <1>11 DEF Next, RenewStep, ExitStep

LEMMA SeatsHeld == Spec => []Seats
<1>1. FleetInv /\ Seats /\ [Next]_vars => Seats'
  BY NextShape, SeatsKept
<1>2. Init => Seats
  BY InitSeats
<1>. QED
  BY <1>1, <1>2, FenceHeld, PTL DEF Spec

(* A daemon that shares the child with no other never runs two engines of  *)
(* it, whatever resumes, closes, parked recoveries and late exits meet     *)
(* (controller.go, childClaimSet and resumeClaimed), as long as no launch  *)
(* fails on a query of its own.                                            *)
THEOREM OneEngineAlone ==
  ASSUME Alone, "query" \notin Adverse
  PROVE  Spec => []OneEngine
<1>1. HolderInv => \A d \in Daemons : Acquirable(d)
  BY DEF HolderInv, Acquirable, Alone
<1>2. FleetInv /\ Seats /\ HolderInv /\ AloneInv /\ [Next]_vars => AloneInv'
  BY <1>1, NextShape, AloneKept
<1>3. Init => AloneInv
  BY InitSeats
<1>4. Seats /\ AloneInv => OneEngine
  BY DEF Seats, LaunchSeat, AloneInv, Unmarked, Exists, OneEngine, Alive
<1>. QED
  BY <1>2, <1>3, <1>4, FenceHeld, SeatsHeld, InitHolder, HolderKept, PTL DEF Spec

LEMMA PatientHeld == ASSUME Patient PROVE Spec => []PatientInv
<1>1. FleetInv /\ Seats /\ PatientInv /\ [Next]_vars => PatientInv'
  BY NextShape, PatientKept
<1>2. Init => PatientInv
  BY InitSeats
<1>. QED
  BY <1>1, <1>2, FenceHeld, SeatsHeld, PTL DEF Spec

(* With an operator who waits for an exit to be over, and nothing parked,  *)
(* no daemon of any number runs two engines of the child (controller.go,   *)
(* resumeClaimed; load_children.go, recoverOne).                           *)
THEOREM OneEnginePatient == ASSUME Patient PROVE Spec => []OneEngine
<1>1. PatientInv => OneEngine
  BY DEF PatientInv, Exists, OneEngine, Alive
<1>. QED
  BY <1>1, PatientHeld, PTL

(* With such an operator the engine that runs is in the manager's slot,    *)
(* where a send, a kill and the shutdown find it (child_manager.go; the    *)
(* exit handler's Remove in controller.go).                                *)
THEOREM SlotsStayHeld == ASSUME Patient PROVE Spec => []SlotHeld
<1>1. PatientInv => SlotHeld
  BY DEF PatientInv, Exists, SlotHeld, Alive
<1>. QED
  BY <1>1, PatientHeld, PTL

-----------------------------------------------------------------------------
(* The engine that may write: its daemon tracks its token, and no renewal  *)
(* pass holds a verdict on another.                                        *)
TokensKnown ==
  \A i \in Incs : inc[i].tok <= minted /\ (Running(i) => inc[i].tok # 0)

Follows(i, m) ==
  /\ m.held = inc[i].tok /\ m.rpc \in {"idle", "renew"} /\ (m.rpc = "renew" => m.ren = inc[i].tok)

TrackedInv == TokensKnown /\ \A i \in Incs : Owner(i) => Follows(i, dm[inc[i].d])

(* A step that builds no engine and leaves the owner's daemon's records.   *)
SameTracking(d) ==
  dm'[d].held = dm[d].held /\ dm'[d].rpc = dm[d].rpc /\ dm'[d].ren = dm[d].ren

SameToken(i) == inc'[i].tok \in {inc[i].tok, 0}

NoNewEngine ==
  /\ minted' = minted /\ lease'.tok \in {lease.tok, 0}
  /\ \A i \in Incs : SameToken(i)
  /\ \A i \in Incs : Running(i)' =>
       Running(i) /\ inc'[i].tok = inc[i].tok /\ inc'[i].d = inc[i].d

LEMMA TrackedStill ==
  ASSUME FleetInv, TrackedInv, NoNewEngine,
         \A i \in Incs : Owner(i) /\ Running(i)' /\ lease'.tok = lease.tok => Follows(i, dm'[inc[i].d])
  PROVE  TrackedInv'
<1>0. \A i \in Incs : inc[i].tok \in Nat /\ minted \in Nat
  BY DEF FleetInv, LaunchInv, FenceInv, Launch, Tok
<1>1. TokensKnown'
  BY <1>0 DEF TrackedInv, TokensKnown, NoNewEngine, SameToken
<1>2. ASSUME NEW i \in Incs, Owner(i)' PROVE Follows(i, dm[inc[i].d])'
  <2>1. Running(i)' /\ inc'[i].tok = lease'.tok
    BY <1>2 DEF Owner
  <2>2. Running(i) /\ inc'[i].tok = inc[i].tok /\ inc'[i].d = inc[i].d /\ inc[i].tok # 0
    BY <2>1 DEF NoNewEngine, TrackedInv, TokensKnown
  <2>3. lease'.tok = lease.tok /\ Owner(i)
    BY <2>1, <2>2 DEF NoNewEngine, Owner
  <2>. QED
    BY <2>1, <2>2, <2>3 DEF Follows
<1>. QED
  BY <1>1, <1>2 DEF TrackedInv

LEMMA TrackedKept ==
  ASSUME FleetInv, Seats, PatientInv, TrackedInv, Patient, "slow" \notin Adverse, [Next]_vars
  PROVE  TrackedInv'
<1>0. /\ dm \in [Daemons -> Memory] /\ inc \in [Incs -> Launch] /\ Placing /\ LeaseOK
      /\ \A i \in Incs : inc[i].x # "none" => inc[i].d \in Daemons
  BY Places, LaunchHasDaemon DEF FleetInv, MemoryInv, LaunchInv, FenceInv
<1>00. \A i \in Incs : Owner(i) => /\ Follows(i, dm[inc[i].d]) /\ inc[i].d \in Daemons
                                    /\ inc[i].phase = "running" /\ inc[i].x = "none"
  BY <1>0 DEF TrackedInv, Owner, Running, Placing, Exists, Seats, LaunchSeat
<1>1. CASE UNCHANGED vars \/ Age
  BY <1>00, <1>1, TrackedStill DEF vars, Age, NoNewEngine, SameToken, Running
<1>2. CASE Lapse
  <2>1. NoNewEngine
    BY <1>0, <1>2 DEF Lapse, NoNewEngine, SameToken, Running, LeaseOK
  <2>. QED
    BY <1>00, <1>2, <2>1, TrackedStill DEF Lapse
<1>3. ASSUME NEW i \in Incs, Write(i) \/ Deliver(i) \/ StatusChange(i) PROVE TrackedInv'
  BY <1>00, <1>3, TrackedStill DEF Write, Deliver, StatusChange, NoNewEngine, SameToken, Running
<1>4. ASSUME NEW i \in Incs, BuildRefused(i) \/ AcquireFails(i) \/ Fatal(i) PROVE TrackedInv'
  <2>1. NoNewEngine
    BY <1>0, <1>4 DEF BuildRefused, AcquireFails, Fatal, NoNewEngine, SameToken, Running, Launch
  <2>. QED
    BY <1>00, <1>4, <2>1, TrackedStill DEF BuildRefused, AcquireFails, Fatal
<1>5. ASSUME NEW i \in Incs, MarkExited(i) PROVE TrackedInv'
  <2>1. NoNewEngine
    BY <1>0, <1>5 DEF MarkExited, NoInc, NoNewEngine, SameToken, Running, Launch
  <2>2. \A j \in Incs : Owner(j) /\ Running(j)' => Follows(j, dm'[inc[j].d])
    BY <1>0, <1>00, <1>5 DEF MarkExited, Follows, Running, Memory
  <2>. QED
    BY <2>1, <2>2, TrackedStill
<1>6. ASSUME NEW i \in Incs, ExitRow(i) PROVE TrackedInv'
  <2>1. NoNewEngine
    BY <1>0, <1>6 DEF ExitRow, NoInc, NoNewEngine, SameToken, Running, Launch
  <2>2. \A j \in Incs : Owner(j) /\ Running(j)' => Follows(j, dm'[inc[j].d])
    BY <1>0, <1>00, <1>6 DEF ExitRow, Follows, Running, Memory
  <2>. QED
    BY <2>1, <2>2, TrackedStill
<1>7. ASSUME NEW i \in Incs, ExitInbox(i) PROVE TrackedInv'
  <2>1. NoNewEngine
    BY <1>0, <1>7 DEF ExitInbox, NoInc, NoNewEngine, SameToken, Running, Launch
  <2>2. \A j \in Incs : Owner(j) /\ Running(j)' => Follows(j, dm'[inc[j].d])
    BY <1>0, <1>00, <1>7 DEF ExitInbox, Follows, Running, Memory
  <2>. QED
    BY <2>1, <2>2, TrackedStill
<1>8. ASSUME NEW i \in Incs, ExitRemove(i) PROVE TrackedInv'
  <2>1. NoNewEngine
    BY <1>0, <1>8 DEF ExitRemove, NoInc, NoNewEngine, SameToken, Running, Launch
  <2>2. \A j \in Incs : Owner(j) /\ Running(j)' => Follows(j, dm'[inc[j].d])
    BY <1>0, <1>00, <1>8 DEF ExitRemove, Follows, Running, Memory
  <2>. QED
    BY <2>1, <2>2, TrackedStill
<1>9. ASSUME NEW i \in Incs, ExitLease(i) PROVE TrackedInv'
  <2>1. NoNewEngine
    BY <1>0, <1>9 DEF ExitLease, Released, NoLease, NoNewEngine, SameToken, Running, Launch
  <2>2. \A j \in Incs : Owner(j) /\ Running(j)' => Follows(j, dm'[inc[j].d])
    BY <1>0, <1>00, <1>9 DEF ExitLease, PatientInv, Exists, Seats, LaunchSeat, Follows, Running, Memory
  <2>. QED
    BY <2>1, <2>2, TrackedStill
<1>10. ASSUME NEW d \in Daemons, BootList(d) PROVE TrackedInv'
  <2>1. NoNewEngine
    BY <1>0, <1>10 DEF BootList, NoNewEngine, SameToken, Running, Launch
  <2>2. \A j \in Incs : Owner(j) /\ Running(j)' => Follows(j, dm'[inc[j].d])
    BY <1>0, <1>00, <1>10 DEF BootList, Seats, LaunchSeat, Exists, Follows, Running, Memory
  <2>. QED
    BY <2>1, <2>2, TrackedStill
<1>10a. ASSUME NEW d \in Daemons, BootFails(d) PROVE TrackedInv'
  <2>1. NoNewEngine
    BY <1>0, <1>10a DEF BootFails, NoNewEngine, SameToken, Running, Launch
  <2>2. \A j \in Incs : Owner(j) /\ Running(j)' => Follows(j, dm'[inc[j].d])
    BY <1>0, <1>00, <1>10a DEF BootFails, Seats, LaunchSeat, Exists, Follows, Running, Memory
  <2>. QED
    BY <2>1, <2>2, TrackedStill
<1>11. ASSUME NEW d \in Daemons, Resume(d) PROVE TrackedInv'
  <2>1. NoNewEngine
    BY <1>0, <1>11 DEF Resume, NoInc, NoNewEngine, SameToken, Running, Launch
  <2>2. \A j \in Incs : Owner(j) /\ Running(j)' => Follows(j, dm'[inc[j].d])
    BY <1>0, <1>00, <1>11 DEF Resume, Follows, Running, Memory
  <2>. QED
    BY <2>1, <2>2, TrackedStill
<1>12. ASSUME NEW d \in Daemons, Activate(d) PROVE TrackedInv'
  <2>0. PICK i \in Incs : i = dm[d].start
    BY <1>0, <1>12 DEF Activate, Placing
  <2>a. inc' = [inc EXCEPT ![i].mon = TRUE] /\ UNCHANGED <<minted, lease>>
    BY <1>12, <2>0 DEF Activate
  <2>1. NoNewEngine
    BY <1>0, <2>a DEF NoNewEngine, SameToken, Running, Launch
  <2>2. \A e \in Daemons : SameTracking(e)
    <3>. DEFINE to == IF dm[d].how = "spawn" THEN dm[d].st
                      ELSE IF dm[d].start # 0 /\ inc[dm[d].start].phase = "dead" THEN "exited" ELSE "live"
                lb == Labelled(d, to)
                cm == IF dm[d].how = "spawn" THEN dm[d].cm ELSE dm[d].start
    <3>1. dm' = [dm EXCEPT ![d].st = to, ![d].start = 0, ![d].label = lb, ![d].cm = cm]
      BY <1>0, <1>12 DEF Activate
    <3>. HIDE DEF to, lb, cm
    <3>. QED
      BY <1>0, <3>1 DEF SameTracking, Memory
  <2>3. \A j \in Incs : Owner(j) /\ Running(j)' => Follows(j, dm'[inc[j].d])
    BY <1>00, <2>2 DEF Follows, SameTracking
  <2>. QED
    BY <2>1, <2>3, TrackedStill
<1>13. ASSUME NEW d \in Daemons, RenewSnapshot(d) PROVE TrackedInv'
  <2>1. NoNewEngine
    BY <1>0, <1>13 DEF RenewSnapshot, NoNewEngine, SameToken, Running, Launch
  <2>2. \A j \in Incs : Owner(j) /\ Running(j)' => Follows(j, dm'[inc[j].d])
    BY <1>0, <1>00, <1>13 DEF RenewSnapshot, Follows, Running, Memory
  <2>. QED
    BY <2>1, <2>2, TrackedStill
<1>14. ASSUME NEW d \in Daemons, Renew(d) PROVE TrackedInv'
  <2>1. NoNewEngine
    BY <1>0, <1>14 DEF Renew, LeaseOK, NoNewEngine, SameToken, Running, Launch
  <2>2. \A j \in Incs : Owner(j) /\ Running(j)' => Follows(j, dm'[inc[j].d])
    BY <1>0, <1>00, <1>14 DEF Renew, Owner, Follows, Running, Memory
  <2>. QED
    BY <2>1, <2>2, TrackedStill
<1>15. ASSUME NEW d \in Daemons, RenewError(d) PROVE TrackedInv'
  <2>1. NoNewEngine
    BY <1>0, <1>15 DEF RenewError, NoNewEngine, SameToken, Running, Launch
  <2>2. \A j \in Incs : Owner(j) /\ Running(j)' => Follows(j, dm'[inc[j].d])
    BY <1>0, <1>00, <1>15 DEF RenewError, Follows, Running, Memory
  <2>. QED
    BY <2>1, <2>2, TrackedStill
<1>16. ASSUME NEW d \in Daemons, DropLost(d) PROVE TrackedInv'
  <2>1. NoNewEngine
    BY <1>0, <1>16 DEF DropLost, NoNewEngine, SameToken, Running, Launch
  <2>2. \A j \in Incs : Owner(j) /\ Running(j)' => Follows(j, dm'[inc[j].d])
    BY <1>0, <1>00, <1>16 DEF DropLost, Follows, Running, Memory
  <2>. QED
    BY <2>1, <2>2, TrackedStill
<1>17. ASSUME NEW d \in Daemons, Close(d) PROVE TrackedInv'
  <2>1. NoNewEngine
    BY <1>0, <1>17 DEF Close, NoNewEngine, SameToken, Running, Launch
  <2>2. \A j \in Incs : Owner(j) /\ Running(j)' => Follows(j, dm'[inc[j].d])
    BY <1>0, <1>00, <1>17 DEF Close, Follows, Running, Memory
  <2>. QED
    BY <2>1, <2>2, TrackedStill
<1>18. ASSUME NEW d \in Daemons, Recover(d) PROVE TrackedInv'
  <2>0. UNCHANGED <<minted, lease>> /\ dm[d].up = "boot"
    BY <1>18 DEF Recover
  <2>a. \A e \in Daemons : e # d => dm'[e] = dm[e]
    BY <1>0, <1>18 DEF Recover, RecoverAs
  <2>b. UNCHANGED inc \/ \E i \in Incs :
          inc[i].phase = "gone" /\ inc' = [inc EXCEPT ![i] = [NoInc EXCEPT !.d = d, !.phase = "building"]]
    BY <1>18 DEF Recover, RecoverAs
  <2>1. NoNewEngine
    <3>1. CASE UNCHANGED inc
      BY <2>0, <3>1 DEF NoNewEngine, SameToken, Running
    <3>2. ASSUME NEW i \in Incs, inc[i].phase = "gone",
                 inc' = [inc EXCEPT ![i] = [NoInc EXCEPT !.d = d, !.phase = "building"]]
          PROVE  NoNewEngine
      BY <1>0, <2>0, <3>2 DEF NoInc, NoNewEngine, SameToken, Running
    <3>. QED
      BY <2>b, <3>1, <3>2
  <2>2. \A j \in Incs : Owner(j) /\ Running(j)' => Follows(j, dm'[inc[j].d])
    BY <1>00, <2>0, <2>a DEF Seats, LaunchSeat, Exists
  <2>. QED
    BY <2>1, <2>2, TrackedStill
<1>19. ASSUME NEW d \in Daemons, Kill(d) PROVE TrackedInv'
  <2>1. NoNewEngine
    BY <1>0, <1>19 DEF Kill, Reap, Alive, Placing, NoNewEngine, SameToken, Running, Launch
  <2>2. \A j \in Incs : Owner(j) /\ Running(j)' => Follows(j, dm'[inc[j].d])
    BY <1>0, <1>00, <1>19 DEF Kill, Follows, Running, Memory
  <2>. QED
    BY <2>1, <2>2, TrackedStill
<1>20. ASSUME NEW d \in Daemons, KillLost(d) PROVE TrackedInv'
  <2>1. NoNewEngine
    BY <1>0, <1>20 DEF KillLost, Reap, Alive, Placing, NoNewEngine, SameToken, Running, Launch
  <2>2. \A j \in Incs : Owner(j) /\ Running(j)' => Follows(j, dm'[inc[j].d])
    BY <1>0, <1>00, <1>20 DEF KillLost, Follows, Running, Memory
  <2>. QED
    BY <2>1, <2>2, TrackedStill
<1>21. ASSUME NEW d \in Daemons, Stop(d) PROVE TrackedInv'
  <2>1. NoNewEngine
    BY <1>0, <1>21 DEF Stop, Reap, Alive, Placing, NoNewEngine, SameToken, Running, Launch
  <2>2. \A j \in Incs : Owner(j) /\ Running(j)' => Follows(j, dm'[inc[j].d])
    BY <1>0, <1>00, <1>21 DEF Stop, Follows, Running, Memory
  <2>. QED
    BY <2>1, <2>2, TrackedStill
<1>22. ASSUME NEW d \in Daemons, Halt(d) PROVE TrackedInv'
  <2>1. NoNewEngine
    BY <1>0, <1>22 DEF Halt, Vanish, NoInc, Released, NoLease, NoNewEngine, SameToken, Running, Launch
  <2>2. \A j \in Incs : Owner(j) /\ Running(j)' => Follows(j, dm'[inc[j].d])
    BY <1>0, <1>00, <1>22 DEF Halt, Vanish, NoInc, Follows, Running, Memory
  <2>. QED
    BY <2>1, <2>2, TrackedStill
<1>23. ASSUME NEW d \in Daemons, Crash(d) PROVE TrackedInv'
  <2>1. NoNewEngine
    BY <1>0, <1>23 DEF Crash, Vanish, NoInc, NoNewEngine, SameToken, Running, Launch
  <2>2. \A j \in Incs : Owner(j) /\ Running(j)' => Follows(j, dm'[inc[j].d])
    BY <1>0, <1>00, <1>23 DEF Crash, Vanish, NoInc, Follows, Running, Memory
  <2>. QED
    BY <2>1, <2>2, TrackedStill
<1>24. ASSUME NEW d \in Daemons, Pend(d) \/ SweepPending(d) PROVE TrackedInv'
  BY <1>24 DEF Pend, SweepPending, Hit, Patient, PatientInv
<1>25. ASSUME NEW i \in Incs, Build(i) PROVE TrackedInv'
  <2>0. inc[i].d \in Daemons /\ minted \in Nat /\ \A j \in Incs : inc[j].tok \in Nat
    BY <1>0, <1>25 DEF Build, Placing, Exists, FleetInv, FenceInv, Launch, Tok
  <2>1. /\ minted' = minted + 1 /\ lease'.tok = minted + 1
        /\ \A j \in Incs : j # i => inc'[j] = inc[j]
        /\ inc'[i].tok = minted + 1 /\ inc'[i].d = inc[i].d
    BY <1>0, <1>25 DEF Build, OnConversationResolved, Launch
  <2>2. /\ dm'[inc[i].d].held = minted + 1 /\ dm'[inc[i].d].rpc = "idle"
    BY <1>0, <1>25, <2>0 DEF Build, OnConversationResolved, Memory
  <2>3. TokensKnown'
    BY <2>0, <2>1 DEF TrackedInv, TokensKnown, Running
  <2>4. ASSUME NEW j \in Incs, Owner(j)' PROVE Follows(j, dm[inc[j].d])'
    <3>1. j = i
      BY <2>0, <2>1, <2>4 DEF Owner, TrackedInv, TokensKnown
    <3>. QED
      BY <2>1, <2>2, <3>1 DEF Follows
  <2>. QED
    BY <2>3, <2>4 DEF TrackedInv
<1>26. ASSUME NEW i \in Incs, BuildFails(i) PROVE TrackedInv'
  <2>0. minted \in Nat /\ \A j \in Incs : inc[j].tok \in Nat
    BY <1>0 DEF FleetInv, FenceInv, Launch, Tok
  <2>1. /\ minted' = minted + 1 /\ lease'.tok = minted + 1
        /\ \A j \in Incs : inc'[j].tok = inc[j].tok /\ (Running(j)' => Running(j))
    BY <1>0, <1>26 DEF BuildFails, OnConversationResolved, Running, Launch
  <2>2. TokensKnown'
    BY <2>0, <2>1 DEF TrackedInv, TokensKnown
  <2>3. \A j \in Incs : ~Owner(j)'
    BY <2>0, <2>1 DEF Owner, TrackedInv, TokensKnown
  <2>. QED
    BY <2>2, <2>3 DEF TrackedInv
<1>. QED
  BY <1>1, <1>2, <1>3, <1>4, <1>5, <1>6, <1>7, <1>8, <1>9, <1>10, <1>10a, <1>26, <1>11, <1>12, <1>13, <1>14, <1>15, <1>16, <1>17, <1>18, <1>19, <1>20, <1>21, <1>22, <1>23, <1>24, <1>25 DEF Next, RenewStep, ExitStep

LEMMA InitTracked == Init => TrackedInv
<1>. SUFFICES ASSUME Init PROVE TrackedInv
  OBVIOUS
<1>1. PICK d \in Daemons, built \in BOOLEAN :
    /\ lease = IF built THEN [tok |-> 1, holder |-> d, live |-> TRUE] ELSE NoLease
    /\ minted = IF built THEN 1 ELSE 0
    /\ row = Upsert(d, "live")
    /\ dm = [e \in Daemons |->
               IF e # d THEN Off(row)
               ELSE [Off(row) EXCEPT !.up = "up", !.st = "live", !.label = d, !.cm = 1,
                                     !.held = minted, !.start = IF built THEN 0 ELSE 1]]
    /\ inc = [i \in Incs |->
                IF i # 1 THEN NoInc
                ELSE [d |-> d, phase |-> IF built THEN "running" ELSE "building",
                      tok |-> minted, mon |-> built, x |-> "none"]]
  BY DEF Init
<1>2. minted \in Nat /\ dm[d].held = minted /\ dm[d].rpc = "idle"
  BY <1>1 DEF Off
<1>3. /\ \A i \in Incs : i # 1 => inc[i].phase = "gone" /\ inc[i].tok = 0
      /\ 1 \in Incs => /\ inc[1].d = d /\ inc[1].tok = minted
                       /\ inc[1].phase = IF built THEN "running" ELSE "building"
  BY <1>1 DEF NoInc
<1>4. TokensKnown
  BY <1>1, <1>2, <1>3 DEF TokensKnown, Running
<1>. QED
  BY <1>2, <1>3, <1>4 DEF TrackedInv, Owner, Running, Follows

(* With an operator who waits, and launches that do not fit into one       *)
(* renewal pass, the engine that may write has its lease tracked and       *)
(* renewed, whatever errors, pauses, crashes and takeovers by other        *)
(* daemons happen (lease_renew.go, renewLeases and onLeaseLost).           *)
THEOREM LeasesStayTracked ==
  ASSUME Patient, "slow" \notin Adverse
  PROVE  Spec => []Tracked
<1>1. FleetInv /\ Seats /\ PatientInv /\ TrackedInv /\ [Next]_vars => TrackedInv'
  BY TrackedKept
<1>2. TrackedInv => Tracked
  BY DEF TrackedInv, Follows, Tracked
<1>. QED
  BY <1>1, <1>2, InitTracked, FenceHeld, SeatsHeld, PatientHeld, PTL DEF Spec

-----------------------------------------------------------------------------
(* A watched engine's store entry says live, and so does the row.          *)
RowTruthInv ==
  \A i \in Incs : Alive(i) /\ inc[i].mon =>
    row.status = "live" /\ ~row.closed /\ dm[inc[i].d].st = "live"

(* Alone and with a patient operator, there is one launch at a time.       *)
Single == \A i, j \in Incs : Exists(i) /\ Exists(j) => i = j

LEMMA RowTruthKept ==
  ASSUME FleetInv, Seats, PatientInv, RowTruthInv, Patient, Alone, "store" \notin Adverse, [Next]_vars
  PROVE  RowTruthInv'
<1>0. /\ dm \in [Daemons -> Memory] /\ inc \in [Incs -> Launch] /\ Placing
      /\ \A i \in Incs : inc[i].x # "none" => inc[i].d \in Daemons
  BY Places, LaunchHasDaemon DEF FleetInv, MemoryInv, LaunchInv
<1>00. Single
  BY <1>0 DEF Single, PatientInv, Alone, Placing
<1>1. CASE UNCHANGED vars \/ Age \/ Lapse
  <2>1. row'.status = row.status /\ row'.closed = row.closed /\ inc' = inc /\ dm' = dm
    BY <1>1 DEF vars, Age, Lapse, FleetInv, RowInv, Row
  <2>. QED
    BY <2>1 DEF RowTruthInv, Alive
<1>2. ASSUME NEW i \in Incs, Build(i) PROVE RowTruthInv'
  BY <1>0, <1>00, <1>2
    DEF Build, OnConversationResolved, WriteRecord, Unwritten, Upsert, RowTruthInv, Alive, Single, Exists, Placing, Alone, Launch, Memory
<1>2a. ASSUME NEW i \in Incs, BuildFails(i) PROVE RowTruthInv'
  <2>1. \A j \in Incs : ~(Alive(j)')
    BY <1>0, <1>00, <1>2a DEF BuildFails, Alive, Single, Exists, Launch
  <2>. QED
    BY <2>1 DEF RowTruthInv, Alive
<1>3. ASSUME NEW i \in Incs, BuildRefused(i) \/ AcquireFails(i) PROVE RowTruthInv'
  BY <1>0, <1>00, <1>3 DEF BuildRefused, AcquireFails, RowTruthInv, Alive, Single, Exists, Placing, Alone, Launch, Memory
<1>4. ASSUME NEW i \in Incs, Write(i) PROVE RowTruthInv'
  BY <1>0, <1>00, <1>4 DEF Write, RowTruthInv, Alive, Single, Exists, Placing, Alone, Launch, Memory
<1>5. ASSUME NEW i \in Incs, Deliver(i) PROVE RowTruthInv'
  BY <1>0, <1>00, <1>5 DEF Deliver, RowTruthInv, Alive, Single, Exists, Placing, Alone, Launch, Memory
<1>6. ASSUME NEW i \in Incs, StatusChange(i) PROVE RowTruthInv'
  BY <1>0, <1>00, <1>6 DEF StatusChange, Upsert, RowTruthInv, Alive, Single, Exists, Placing, Alone, Launch, Memory
<1>7. ASSUME NEW i \in Incs, Fatal(i) PROVE RowTruthInv'
  BY <1>0, <1>00, <1>7 DEF Fatal, RowTruthInv, Alive, Single, Exists, Placing, Alone, Launch, Memory
<1>8. ASSUME NEW i \in Incs, MarkExited(i) PROVE RowTruthInv'
  <2>1. inc[i].phase = "dead" /\ \A j \in Incs : inc'[j].phase = inc[j].phase
    BY <1>0, <1>8 DEF MarkExited, Exiting, Launch
  <2>. QED
    BY <1>00, <2>1 DEF RowTruthInv, Alive, Single, Exists
<1>9. ASSUME NEW i \in Incs, ExitRow(i) PROVE RowTruthInv'
  BY <1>0, <1>00, <1>9 DEF ExitRow, Seats, LaunchSeat, RowTruthInv, Alive, Single, Exists, Placing, Alone, Launch, Memory
<1>10. ASSUME NEW i \in Incs, ExitInbox(i) PROVE RowTruthInv'
  BY <1>0, <1>00, <1>10 DEF ExitInbox, RowTruthInv, Alive, Single, Exists, Placing, Alone, Launch, Memory
<1>11. ASSUME NEW i \in Incs, ExitLease(i) PROVE RowTruthInv'
  BY <1>0, <1>00, <1>11 DEF ExitLease, RowTruthInv, Alive, Single, Exists, Placing, Alone, Launch, Memory
<1>12. ASSUME NEW i \in Incs, ExitRemove(i) PROVE RowTruthInv'
  BY <1>0, <1>00, <1>12 DEF ExitRemove, NoInc, RowTruthInv, Alive, Single, Exists, Placing, Alone, Launch, Memory
<1>13. ASSUME NEW d \in Daemons, BootList(d) PROVE RowTruthInv'
  BY <1>0, <1>00, <1>13 DEF BootList, Seats, LaunchSeat, Off, RowTruthInv, Alive, Single, Exists, Placing, Alone, Launch, Memory
<1>13a. ASSUME NEW d \in Daemons, BootFails(d) PROVE RowTruthInv'
  BY <1>0, <1>00, <1>13a DEF BootFails, Seats, LaunchSeat, RowTruthInv, Alive, Single, Exists, Placing, Alone, Launch, Memory
<1>14. ASSUME NEW d \in Daemons, Recover(d) PROVE RowTruthInv'
  <2>1. \A j \in Incs : ~Exists(j)
    BY <1>0, <1>14 DEF Recover, Seats, LaunchSeat, Placing, Alone
  <2>2. UNCHANGED inc \/ \E i \in Incs : inc' = [inc EXCEPT ![i] = [NoInc EXCEPT !.d = d, !.phase = "building"]]
    BY <1>14 DEF Recover, RecoverAs
  <2>3. \A j \in Incs : ~(Exists(j)' /\ inc'[j].mon)
    <3>1. CASE UNCHANGED inc
      BY <2>1, <3>1 DEF Exists
    <3>2. ASSUME NEW i \in Incs, inc' = [inc EXCEPT ![i] = [NoInc EXCEPT !.d = d, !.phase = "building"]]
          PROVE  \A j \in Incs : ~(Exists(j)' /\ inc'[j].mon)
      BY <1>0, <2>1, <3>2 DEF NoInc, Exists
    <3>. QED
      BY <2>2, <3>1, <3>2
  <2>. QED
    BY <2>3 DEF RowTruthInv, Alive, Exists
<1>15. ASSUME NEW d \in Daemons, Resume(d) PROVE RowTruthInv'
  BY <1>0, <1>00, <1>15 DEF Resume, NoInc, RowTruthInv, Alive, Single, Exists, Placing, Alone, Launch, Memory
<1>16. ASSUME NEW d \in Daemons, Activate(d) PROVE RowTruthInv'
  <2>0. PICK i \in Incs : i = dm[d].start
    BY <1>0, <1>16 DEF Activate, Placing
  <2>1. inc' = [inc EXCEPT ![i].mon = TRUE]
    BY <1>16, <2>0 DEF Activate
  <2>2. Exists(i) /\ inc[i].d = d /\ (dm[d].how = "spawn" => dm[d].st = "live") /\ 0 \notin Incs
    BY <1>0, <2>0 DEF Seats, DaemonSeat, Placing
  <2>3. ASSUME inc[i].phase # "dead"
        PROVE  row' = Upsert(d, "live") /\ dm'[d].st = "live"
    <3>. DEFINE lb == Labelled(d, "live")
                cm == IF dm[d].how = "spawn" THEN dm[d].cm ELSE dm[d].start
    <3>1. row' = Upsert(d, "live")
      BY <1>16, <2>0, <2>2, <2>3 DEF Activate, WriteRecord, Unwritten
    <3>2. dm' = [dm EXCEPT ![d].st = "live", ![d].start = 0, ![d].label = lb, ![d].cm = cm]
      BY <1>0, <1>16, <2>0, <2>2, <2>3 DEF Activate
    <3>. HIDE DEF lb, cm
    <3>. QED
      BY <1>0, <3>1, <3>2 DEF Memory
  <2>4. \A j \in Incs : inc'[j].phase = inc[j].phase /\ inc'[j].d = inc[j].d
    BY <1>0, <2>1 DEF Launch
  <2>. QED
    BY <1>00, <2>2, <2>3, <2>4 DEF RowTruthInv, Alive, Single, Exists, Upsert
<1>17. ASSUME NEW d \in Daemons, RenewSnapshot(d) PROVE RowTruthInv'
  BY <1>0, <1>00, <1>17 DEF RenewSnapshot, RowTruthInv, Alive, Single, Exists, Placing, Alone, Launch, Memory
<1>18. ASSUME NEW d \in Daemons, Renew(d) PROVE RowTruthInv'
  BY <1>0, <1>00, <1>18 DEF Renew, RowTruthInv, Alive, Single, Exists, Placing, Alone, Launch, Memory
<1>19. ASSUME NEW d \in Daemons, DropLost(d) PROVE RowTruthInv'
  BY <1>0, <1>00, <1>19 DEF DropLost, RowTruthInv, Alive, Single, Exists, Placing, Alone, Launch, Memory
<1>20. ASSUME NEW d \in Daemons, RenewError(d) PROVE RowTruthInv'
  BY <1>0, <1>00, <1>20 DEF RenewError, RowTruthInv, Alive, Single, Exists, Placing, Alone, Launch, Memory
<1>21. ASSUME NEW d \in Daemons, Kill(d) PROVE RowTruthInv'
  BY <1>0, <1>00, <1>21 DEF Kill, Reap, Unwritten, Upsert, RowTruthInv, Alive, Single, Exists, Placing, Alone, Launch, Memory
<1>22. ASSUME NEW d \in Daemons, KillLost(d) PROVE RowTruthInv'
  BY <1>0, <1>00, <1>22 DEF KillLost, Reap, Unwritten, Upsert, RowTruthInv, Alive, Single, Exists, Placing, Alone, Launch, Memory
<1>23. ASSUME NEW d \in Daemons, Stop(d) PROVE RowTruthInv'
  BY <1>0, <1>00, <1>23 DEF Stop, Reap, Unwritten, Upsert, RowTruthInv, Alive, Single, Exists, Placing, Alone, Launch, Memory
<1>24. ASSUME NEW d \in Daemons, Close(d) PROVE RowTruthInv'
  BY <1>0, <1>00, <1>24 DEF Close, RowTruthInv, Alive, Single, Exists, Placing, Alone, Launch, Memory
<1>25. ASSUME NEW d \in Daemons, Halt(d) PROVE RowTruthInv'
  BY <1>0, <1>00, <1>25 DEF Halt, Vanish, NoInc, Off, RowTruthInv, Alive, Single, Exists, Placing, Alone, Launch, Memory
<1>26. ASSUME NEW d \in Daemons, Crash(d) PROVE RowTruthInv'
  BY <1>0, <1>00, <1>26 DEF Crash, Vanish, NoInc, Off, RowTruthInv, Alive, Single, Exists, Placing, Alone, Launch, Memory
<1>27. ASSUME NEW d \in Daemons, Pend(d) PROVE RowTruthInv'
  BY <1>0, <1>00, <1>27 DEF Pend, Hit, Patient, RowTruthInv, Alive, Single, Exists, Placing, Alone, Launch, Memory
<1>28. ASSUME NEW d \in Daemons, SweepPending(d) PROVE RowTruthInv'
  BY <1>0, <1>00, <1>28 DEF SweepPending, PatientInv, RowTruthInv, Alive, Single, Exists, Placing, Alone, Launch, Memory
<1>. QED
  BY <1>2a, <1>13a, <1>1, <1>2, <1>3, <1>4, <1>5, <1>6, <1>7, <1>8, <1>9, <1>10, <1>11, <1>12, <1>13, <1>14, <1>15, <1>16, <1>17, <1>18, <1>19, <1>20, <1>21, <1>22, <1>23, <1>24, <1>25, <1>26, <1>27, <1>28 DEF Next, RenewStep, ExitStep

LEMMA InitRowTruth == Init => RowTruthInv
<1>. SUFFICES ASSUME Init PROVE RowTruthInv
  OBVIOUS
<1>1. PICK d \in Daemons, built \in BOOLEAN :
    /\ row = Upsert(d, "live")
    /\ dm = [e \in Daemons |->
               IF e # d THEN Off(row)
               ELSE [Off(row) EXCEPT !.up = "up", !.st = "live", !.label = d, !.cm = 1,
                                     !.held = minted, !.start = IF built THEN 0 ELSE 1]]
    /\ inc = [i \in Incs |->
                IF i # 1 THEN NoInc
                ELSE [d |-> d, phase |-> IF built THEN "running" ELSE "building",
                      tok |-> minted, mon |-> built, x |-> "none"]]
  BY DEF Init
<1>2. /\ dm[d].st = "live" /\ row.status = "live" /\ ~row.closed
  BY <1>1 DEF Off, Upsert
<1>3. \A i \in Incs : inc[i].phase # "gone" => inc[i].d = d
  BY <1>1 DEF NoInc
<1>. QED
  BY <1>2, <1>3 DEF RowTruthInv, Alive

(* A daemon that shares the child with no other, with an operator who      *)
(* waits, has a row a restart resumes for as long as the engine runs:      *)
(* no exit, close or shutdown of an earlier launch overwrites it           *)
(* (controller.go, handleChildExit and writeRecord), given that writes of  *)
(* the row succeed.                                                        *)
THEOREM RowsStayTrue ==
  ASSUME Patient, Alone, "store" \notin Adverse
  PROVE  Spec => []RowTruth
<1>1. FleetInv /\ Seats /\ PatientInv /\ RowTruthInv /\ [Next]_vars => RowTruthInv'
  BY RowTruthKept
<1>2. RowTruthInv => RowTruth
  BY DEF RowTruthInv, RowTruth, Owner, Running, Alive
<1>. QED
  BY <1>1, <1>2, InitRowTruth, FenceHeld, SeatsHeld, PatientHeld, PTL DEF Spec

-----------------------------------------------------------------------------
(* The row in flight is taken from the engine by nobody but its own exit.  *)
LEMMA InboxSteps ==
  ASSUME [Next]_vars, inbox' # inbox
  PROVE  \/ \E i \in Incs : Build(i) \/ BuildFails(i) \/ Deliver(i) \/ ExitInbox(i)
         \/ \E d \in Daemons : Recover(d) \/ Close(d)
<1>1. ASSUME NEW i \in Incs, BuildRefused(i) \/ AcquireFails(i) \/ Write(i) \/ StatusChange(i) \/ Fatal(i) \/ MarkExited(i)
                              \/ ExitRow(i) \/ ExitLease(i) \/ ExitRemove(i)
      PROVE  FALSE
  BY <1>1 DEF BuildRefused, AcquireFails, Write, StatusChange, Fatal, MarkExited, ExitRow, ExitLease, ExitRemove
<1>2. ASSUME NEW d \in Daemons, BootList(d) \/ BootFails(d) \/ Resume(d) \/ Pend(d) \/ SweepPending(d) \/ Activate(d) \/ Kill(d)
      PROVE  FALSE
  BY <1>2 DEF BootList, BootFails, Resume, Pend, SweepPending, Activate, Kill
<1>3. ASSUME NEW d \in Daemons, RenewStep(d) \/ RenewError(d) \/ Stop(d) \/ Halt(d) \/ Crash(d)
      PROVE  FALSE
  BY <1>3 DEF RenewStep, RenewSnapshot, Renew, RenewError, DropLost, KillLost, Stop, Halt, Crash
<1>4. ~Lapse /\ ~Age /\ ~UNCHANGED vars
  BY DEF Lapse, Age, vars
<1>. QED
  BY <1>1, <1>2, <1>3, <1>4, Zenon DEF Next, ExitStep

LEMMA InFlightStep ==
  ASSUME FleetInv, Seats, PatientInv, Patient, Alone, [Next]_vars,
         NEW i \in Incs, inbox = i, inbox' # i, Owner(i), Owner(i)'
  PROVE  FALSE
<1>0. Placing /\ inc \in [Incs -> Launch] /\ dm \in [Daemons -> Memory] /\ Single /\ Exists(i) /\ inc[i].phase = "running" /\ 0 \notin Incs
  <2>1. Placing
    BY Places
  <2>. QED
    BY <2>1 DEF FleetInv, MemoryInv, LaunchInv, Single, PatientInv, Alone, Placing, Owner, Running, Exists
<1>1. ASSUME NEW j \in Incs, Build(j) \/ BuildFails(j) PROVE FALSE
  BY <1>0, <1>1 DEF Build, BuildFails, Single, Exists
<1>2. ASSUME NEW j \in Incs, Deliver(j) PROVE FALSE
  BY <1>0, <1>2 DEF Deliver
<1>3. ASSUME NEW j \in Incs, ExitInbox(j) PROVE FALSE
  BY <1>0, <1>3 DEF ExitInbox, Seats, LaunchSeat, Single, Exists
<1>4. ASSUME NEW d \in Daemons, Recover(d) PROVE FALSE
  BY <1>0, <1>4 DEF Recover, Seats, LaunchSeat, Placing, Alone
<1>5. ASSUME NEW d \in Daemons, Close(d) PROVE FALSE
  <2>1. dm[d].cm = 0 /\ dm[d].start = 0 /\ inc[i].d = d
    BY <1>0, <1>5 DEF Close, Patient, Placing, Alone
  <2>. QED
    BY <1>0, <2>1 DEF PatientInv, Seats, LaunchSeat
<1>. QED
  BY <1>1, <1>2, <1>3, <1>4, <1>5, InboxSteps

(* Nor is the row in flight to a patient operator's engine taken from it   *)
(* by an exit, a boot or a close of the daemon that runs it (controller.go, *)
(* handleChildExit's lease gate).                                          *)
THEOREM RowInFlightStays ==
  ASSUME Patient, Alone
  PROVE  Spec => InFlight
<1>1. FleetInv /\ Seats /\ PatientInv /\ [Next]_vars
      => \A i \in Incs : inbox = i /\ inbox' # i => ~(Owner(i) /\ Owner(i)')
  BY InFlightStep
<1>. QED
  BY <1>1, FenceHeld, SeatsHeld, PatientHeld, PTL DEF Spec, InFlight

=============================================================================

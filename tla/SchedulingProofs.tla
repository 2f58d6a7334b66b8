--------------------------- MODULE SchedulingProofs ---------------------------
(***************************************************************************)
(* The safety properties of Scheduling, for any number of instances, ticks *)
(* and callers and any schedules.  The inductive invariant says of every   *)
(* row, in the table or in the hands of a call about to write it, that its *)
(* fire times and the runs inserted so far agree: runs are never removed,  *)
(* so a row stays right however long a call holds it.                      *)
(***************************************************************************)
EXTENDS Scheduling, TLAPS

\* What a copy of a row says, given the time and the instance's runs.
Fits(row, now, count) ==
  /\ row.next \in row.schedule
  /\ \A s \in Passed(row) : s <= now /\ count[s] = 1

\* Every row of the table fits.
RowsFit == \A i \in Instances : inst[i].state # "ABSENT" => Fits(inst[i], clock, fired[i])

\* An instance that was never created has the initial row.
AbsentIsNew == \A i \in Instances : inst[i].state = "ABSENT" => inst[i] = NoInstance

\* Every row a call is about to write fits, however old its read is.
EditsFit ==
  \A c \in Callers : edits[c] # NoInstanceCall =>
    /\ Fits(edits[c].row, clock, fired[edits[c].inst])
    /\ edits[c].row.state # "ABSENT"

\* No fire time has two runs.
AtMostOneRun == \A i \in Instances, s \in Times : fired[i][s] <= 1

\* A tick works on rows it has locked.
TicksInside == \A p \in Ticks : tick[p].todo \cup tick[p].done \subseteq tick[p].locked

\* The inductive invariant of scheduling.
SInv ==
  /\ TypeOK
  /\ RowsFit
  /\ AbsentIsNew
  /\ EditsFit
  /\ AtMostOneRun
  /\ TicksInside
  /\ TicksAreExclusive

-----------------------------------------------------------------------------

\* The next fire time is the least one of the schedule after t.
LEMMA NextFireIsLeast ==
  ASSUME NEW schedule \in Schedules, NEW t \in Times
  PROVE  /\ NextFire(schedule, t) \in schedule
         /\ NextFire(schedule, t) \in Nat
         /\ NextFire(schedule, t) > t
         /\ \A u \in schedule : u > t => NextFire(schedule, t) <= u
  <1>1. \E s \in schedule : s > t /\ \A u \in schedule : u > t => s <= u
    BY InstanceStoreAssumption DEF Times
  <1>2. schedule \subseteq Nat
    BY InstanceStoreAssumption
  <1> QED BY <1>1, <1>2 DEF NextFire

\* A row whose next fire time was just computed from the clock fits.
LEMMA RescheduledFits ==
  ASSUME TypeOK, NEW i \in Instances, NEW row \in InstanceRow, NEW schedule \in Schedules
  PROVE  /\ Rescheduled(row, schedule) \in InstanceRow
         /\ Rescheduled(row, schedule).state = row.state
         /\ Fits(Rescheduled(row, schedule), clock, fired[i])
  <1> DEFINE n == NextFire(schedule, clock)
             new == Rescheduled(row, schedule)
  <1>1. n \in schedule /\ n \in Nat
    BY NextFireIsLeast DEF TypeOK, InstanceTypeOK
  <1>2. /\ new \in InstanceRow
        /\ new.state = row.state
        /\ new.next = n /\ new.since = n /\ new.schedule = schedule
    <2> HIDE DEF n
    <2>1. new = [row EXCEPT !.schedule = schedule, !.next = n, !.since = n]
      BY DEF Rescheduled, n
    <2> QED BY <1>1, <2>1 DEF InstanceRow
  <1> HIDE DEF new, n
  <1>3. Passed(new) = {}
    BY <1>1, <1>2, InstanceStoreAssumption DEF Passed
  <1>4. new.next \in new.schedule
    BY <1>1, <1>2
  <1>5. Fits(new, clock, fired[i])
    BY <1>3, <1>4 DEF Fits
  <1> QED BY <1>2, <1>5 DEF new

\* Advancing an instance whose due fire time has its run keeps its row fitting.
LEMMA AdvancedFits ==
  ASSUME SInv, NEW i \in Instances, inst[i].state = "ACTIVE", inst[i].next <= clock
  PROVE  /\ AdvancedRow(inst[i]) \in InstanceRow
         /\ AdvancedRow(inst[i]).state = "ACTIVE"
         /\ AdvancedRow(inst[i]).next \in inst[i].schedule
         /\ AdvancedRow(inst[i]).schedule = inst[i].schedule
         /\ Passed(AdvancedRow(inst[i])) \subseteq Passed(inst[i]) \cup {inst[i].next}
  <1> DEFINE row == inst[i]
             n == NextFire(row.schedule, row.next)
             new == AdvancedRow(row)
  <1>1. row \in InstanceRow
    BY DEF SInv, TypeOK, InstanceTypeOK
  <1>2. row.next \in Times /\ row.schedule \in Schedules
    BY <1>1, InstanceStoreAssumption
    DEF SInv, TypeOK, InstanceTypeOK, InstanceRow, Times
  <1>3. /\ n \in row.schedule /\ n \in Nat
        /\ \A u \in row.schedule : u > row.next => n <= u
    BY <1>2, NextFireIsLeast
  <1>4. /\ new \in InstanceRow
        /\ new.state = row.state /\ new.schedule = row.schedule
        /\ new.next = n /\ new.since = row.since
    <2> HIDE DEF n, row
    <2>1. new = [row EXCEPT !.last = row.next, !.next = n]
      BY DEF AdvancedRow, n
    <2>2. row.next \in Int
      BY <1>1 DEF InstanceRow
    <2> QED BY <1>1, <1>3, <2>1, <2>2 DEF InstanceRow
  <1>5. row.schedule \subseteq Nat /\ row.next \in Nat
    BY <1>1, InstanceStoreAssumption DEF InstanceRow
  <1> HIDE DEF new, n, row
  <1>6. Passed(new) \subseteq Passed(row) \cup {row.next}
    BY <1>3, <1>4, <1>5 DEF Passed
  <1> QED BY <1>3, <1>4, <1>6 DEF new, row

\* A copy of a row keeps fitting while time passes and runs are added.
LEMMA FitsOn ==
  ASSUME NEW row \in InstanceRow, NEW now \in Times, NEW then \in Times, now <= then,
         NEW count \in [Times -> Nat], NEW count2 \in [Times -> Nat],
         \A s \in Times : count[s] = 1 => count2[s] = 1,
         Fits(row, now, count)
  PROVE  Fits(row, then, count2)
  <1>1. row.schedule \subseteq Nat
    BY InstanceStoreAssumption DEF InstanceRow
  <1>2. ASSUME NEW s \in Passed(row) PROVE s <= then /\ count2[s] = 1
    <2>1. s \in Nat /\ s <= now /\ count[s] = 1
      BY <1>1 DEF Fits, Passed
    <2>2. s \in Times
      BY <2>1, InstanceStoreAssumption DEF Times
    <2> QED BY <2>1, <2>2, InstanceStoreAssumption DEF Times
  <1> QED BY <1>2 DEF Fits

\* The invariant holds of the empty table.
LEMMA InitSInv == Init => SInv
  <1> SUFFICES ASSUME Init PROVE SInv
    OBVIOUS
  <1> USE DEF Init, InstanceInit, TickInit, InstanceControlInit
  <1>1. NoInstance \in InstanceRow /\ NoInstance.state = "ABSENT"
    BY InstanceStoreAssumption DEF NoInstance, InstanceRow, Never
  <1>2. TypeOK
    BY <1>1, InstanceStoreAssumption
    DEF TypeOK, InstanceTypeOK, Times, TickTypeOK, NoTick, InstanceControlTypeOK, InstanceCall
  <1>3. RowsFit /\ AbsentIsNew /\ EditsFit
    BY <1>1 DEF RowsFit, AbsentIsNew, EditsFit
  <1>4. AtMostOneRun
    BY DEF AtMostOneRun
  <1>5. TicksInside /\ TicksAreExclusive
    BY DEF TicksInside, TicksAreExclusive, NoTick
  <1> QED BY <1>2, <1>3, <1>4, <1>5 DEF SInv

\* The clock keeps it.
LEMMA ClockKeeps == SInv /\ ClockTick /\ UNCHANGED <<tickVars, editVars>> => SInv'
  <1> SUFFICES ASSUME SInv, ClockTick, tick' = tick, edits' = edits PROVE SInv'
    BY DEF tickVars, editVars
  <1> USE DEF ClockTick
  <1>1. clock \in Times /\ clock' \in Times /\ clock <= clock' /\ clock \in Int /\ clock' \in Int
    BY InstanceStoreAssumption DEF SInv, TypeOK, InstanceTypeOK, Times
  <1>2. TypeOK'
    BY <1>1 DEF SInv, TypeOK, InstanceTypeOK, TickTypeOK, InstanceControlTypeOK
  <1>3. RowsFit'
    <2>1. ASSUME NEW i \in Instances, inst[i].state # "ABSENT"
          PROVE  Fits(inst[i], clock', fired[i])
      <3>1. inst[i] \in InstanceRow /\ fired[i] \in [Times -> Nat]
        BY DEF SInv, TypeOK, InstanceTypeOK
      <3>2. Fits(inst[i], clock, fired[i])
        BY <2>1 DEF SInv, RowsFit
      <3> QED BY <1>1, <3>1, <3>2, FitsOn
    <2> QED BY <2>1 DEF RowsFit
  <1>4. EditsFit'
    <2>1. ASSUME NEW c \in Callers, edits[c] # NoInstanceCall
          PROVE  Fits(edits[c].row, clock', fired[edits[c].inst])
      <3>1. edits[c].row \in InstanceRow /\ fired[edits[c].inst] \in [Times -> Nat]
        BY <2>1 DEF SInv, TypeOK, InstanceTypeOK, InstanceControlTypeOK, InstanceCall
      <3>2. Fits(edits[c].row, clock, fired[edits[c].inst])
        BY <2>1 DEF SInv, EditsFit
      <3> QED BY <1>1, <3>1, <3>2, FitsOn
    <2> QED BY <2>1 DEF SInv, EditsFit
  <1>5. AbsentIsNew' /\ AtMostOneRun' /\ TicksInside'
    BY DEF SInv, AbsentIsNew, AtMostOneRun, TicksInside
  <1>6. TicksAreExclusive'
    <2>1. ASSUME NEW p \in Ticks, NEW i \in tick[p].locked PROVE inst[i].next <= clock'
      <3>1. i \in Instances /\ inst[i].next <= clock
        BY DEF SInv, TicksAreExclusive, TypeOK, TickTypeOK
      <3>2. inst[i].next \in Nat
        BY <3>1 DEF SInv, TypeOK, InstanceTypeOK, InstanceRow
      <3> QED BY <1>1, <3>1, <3>2
    <2> QED BY <2>1 DEF SInv, TicksAreExclusive
  <1> QED BY <1>2, <1>3, <1>4, <1>5, <1>6 DEF SInv

\* The steps of a tick that only its own memory and locks see.
LEMMA TickMemoryKeeps ==
  ASSUME SInv, UNCHANGED instanceVars, edits' = edits,
         TickTypeOK', TicksInside', TicksAreExclusive'
  PROVE  SInv'
  <1>1. TypeOK'
    BY DEF SInv, TypeOK, instanceVars, InstanceTypeOK, InstanceControlTypeOK
  <1>2. RowsFit' /\ AbsentIsNew' /\ EditsFit' /\ AtMostOneRun'
    BY DEF SInv, RowsFit, AbsentIsNew, EditsFit, AtMostOneRun, instanceVars
  <1> QED BY <1>1, <1>2 DEF SInv

\* Every step of a tick keeps it.
LEMMA TickKeeps == SInv /\ TickNext /\ UNCHANGED editVars => SInv'
  <1> SUFFICES ASSUME SInv, NEW p \in Ticks, edits' = edits,
                      \/ TickBegin(p)
                      \/ \E i \in Instances : TickItem(p, i) \/ TickItemError(p, i)
                      \/ TickCommit(p)
                      \/ TickAbort(p)
               PROVE  SInv'
    BY DEF TickNext, editVars
  <1>0. tick \in [Ticks -> [locked : SUBSET Instances, todo : SUBSET Instances,
                            done : SUBSET Instances]]
    BY DEF SInv, TypeOK, TickTypeOK
  <1>1. CASE TickBegin(p)
    <2>0. PICK now \in 0..clock : \E S \in SUBSET Due(now) :
            tick' = [tick EXCEPT ![p] = [locked |-> S, todo |-> S, done |-> {}]]
      BY <1>1 DEF TickBegin
    <2>1. PICK S \in SUBSET Due(now) :
            tick' = [tick EXCEPT ![p] = [locked |-> S, todo |-> S, done |-> {}]]
      BY <2>0
    <2>2. S \subseteq Instances
      BY DEF Due
    <2>3. ASSUME NEW i \in S
          PROVE  inst[i].state = "ACTIVE" /\ inst[i].next <= clock /\ ~TickLocked(i)
      <3>1. i \in Due(now) /\ i \in Instances
        BY <2>2
      <3>2. inst[i].state = "ACTIVE" /\ inst[i].next <= now /\ ~TickLocked(i)
        BY <3>1 DEF Due
      <3>3. inst[i].next \in Nat /\ now \in Int /\ clock \in Int /\ now <= clock
        BY <3>1, InstanceStoreAssumption DEF SInv, TypeOK, InstanceTypeOK, InstanceRow, Times
      <3> QED BY <3>2, <3>3
    <2>4. TickTypeOK'
      BY <1>0, <2>1, <2>2 DEF TickTypeOK
    <2>5. /\ tick'[p].locked = S /\ tick'[p].todo = S /\ tick'[p].done = {}
          /\ \A q \in Ticks : q # p => tick'[q] = tick[q]
      BY <1>0, <2>1
    <2>6. TicksInside'
      BY <2>5 DEF SInv, TicksInside
    <2>7. inst' = inst /\ clock' = clock
      BY <1>1 DEF TickBegin, instanceVars
    <2>8. TicksAreExclusive'
      BY <2>3, <2>5, <2>7 DEF SInv, TicksAreExclusive, TickLocked
    <2>9. UNCHANGED instanceVars
      BY <1>1 DEF TickBegin
    <2> QED BY <2>4, <2>6, <2>8, <2>9, TickMemoryKeeps
  <1>2. ASSUME NEW i \in Instances, TickItem(p, i) \/ TickItemError(p, i) PROVE SInv'
    <2>1. /\ i \in tick[p].todo
          /\ tick'[p].locked = tick[p].locked
          /\ tick'[p].todo = tick[p].todo \ {i}
          /\ tick'[p].done \in {tick[p].done, tick[p].done \cup {i}}
          /\ \A q \in Ticks : q # p => tick'[q] = tick[q]
          /\ TickTypeOK'
      <3>1. CASE TickItem(p, i)
        BY <1>0, <3>1 DEF TickItem, TickTypeOK
      <3>2. CASE TickItemError(p, i)
        BY <1>0, <3>2 DEF TickItemError, TickTypeOK
      <3> QED BY <1>2, <3>1, <3>2
    <2>2. UNCHANGED instanceVars
      BY <1>2 DEF TickItem, TickItemError
    <2>3. TicksInside'
      BY <2>1 DEF SInv, TicksInside
    <2>4. TicksAreExclusive'
      BY <2>1, <2>2 DEF SInv, TicksAreExclusive, instanceVars
    <2> QED BY <2>1, <2>2, <2>3, <2>4, TickMemoryKeeps
  <1>3. CASE TickAbort(p)
    <2>1. tick' = [tick EXCEPT ![p] = NoTick] /\ UNCHANGED instanceVars
      BY <1>3 DEF TickAbort
    <2>2. TickTypeOK' /\ TicksInside' /\ TicksAreExclusive'
      BY <1>0, <2>1 DEF SInv, NoTick, TickTypeOK, TicksInside, TicksAreExclusive, instanceVars
    <2> QED BY <2>1, <2>2, TickMemoryKeeps
  <1>4. CASE TickCommit(p)
    <2> DEFINE D == tick[p].done
    <2>1. /\ clock' = clock
          /\ tick' = [tick EXCEPT ![p] = NoTick]
          /\ inst' = [i \in Instances |-> IF i \in D THEN AdvancedRow(inst[i]) ELSE inst[i]]
          /\ fired' = [i \in Instances |->
                         IF i \in D THEN [fired[i] EXCEPT ![inst[i].next] = InsertRun(@)]
                         ELSE fired[i]]
      BY <1>4 DEF TickCommit
    <2>2. ASSUME NEW i \in D
          PROVE  /\ i \in Instances /\ inst[i].state = "ACTIVE" /\ inst[i].next <= clock
                 /\ i \in tick[p].locked /\ inst[i].next \in Times
      <3>1. i \in tick[p].locked /\ i \in Instances
        BY <1>0 DEF SInv, TicksInside
      <3>2. inst[i].state = "ACTIVE" /\ inst[i].next <= clock
        BY <3>1 DEF SInv, TicksAreExclusive
      <3>3. inst[i].next \in Times
        BY <3>1, <3>2, InstanceStoreAssumption
        DEF SInv, TypeOK, InstanceTypeOK, InstanceRow, Times
      <3> QED BY <3>1, <3>2, <3>3
    <2> HIDE DEF D
    <2>3. ASSUME NEW i \in Instances
          PROVE  /\ fired[i] \in [Times -> Nat] /\ fired'[i] \in [Times -> Nat]
                 /\ \A s \in Times : fired'[i][s] <= 1
                 /\ \A s \in Times : fired[i][s] = 1 => fired'[i][s] = 1
                 /\ i \in D => fired'[i][inst[i].next] = 1
      <3>1. fired[i] \in [Times -> Nat] /\ \A s \in Times : fired[i][s] <= 1
        BY DEF SInv, TypeOK, InstanceTypeOK, AtMostOneRun
      <3>2. CASE i \in D
        <4>1. fired'[i] = [fired[i] EXCEPT ![inst[i].next] = InsertRun(@)]
          BY <2>1, <3>2
        <4> QED BY <2>2, <3>1, <3>2, <4>1 DEF InsertRun
      <3>3. CASE i \notin D
        BY <2>1, <3>1, <3>3
      <3> QED BY <3>2, <3>3
    <2>4. ASSUME NEW i \in Instances
          PROVE  /\ inst'[i] \in InstanceRow
                 /\ inst'[i].state = inst[i].state
                 /\ i \notin D => inst'[i] = inst[i]
      BY <2>1, <2>2, AdvancedFits DEF SInv, TypeOK, InstanceTypeOK
    <2>5. TypeOK'
      <3>1. InstanceTypeOK'
        BY <2>1, <2>3, <2>4 DEF SInv, TypeOK, InstanceTypeOK
      <3>2. TickTypeOK'
        BY <1>0, <2>1 DEF TickTypeOK, NoTick
      <3> QED BY <3>1, <3>2 DEF SInv, TypeOK, InstanceControlTypeOK
    <2>6. clock \in Times /\ clock <= clock
      BY InstanceStoreAssumption DEF SInv, TypeOK, InstanceTypeOK, Times
    <2>7. RowsFit'
      <3>1. ASSUME NEW i \in Instances, inst'[i].state # "ABSENT"
            PROVE  Fits(inst'[i], clock, fired'[i])
        <4>1. Fits(inst[i], clock, fired[i]) /\ inst[i] \in InstanceRow
          BY <2>4, <3>1 DEF SInv, RowsFit, TypeOK, InstanceTypeOK
        <4>2. Fits(inst[i], clock, fired'[i])
          BY <2>3, <2>6, <4>1, FitsOn
        <4>3. CASE i \in D
          <5>1. inst'[i] = AdvancedRow(inst[i])
            BY <2>1, <4>3
          <5>2. /\ inst'[i].next \in inst'[i].schedule
                /\ Passed(inst'[i]) \subseteq Passed(inst[i]) \cup {inst[i].next}
            BY <2>2, <4>3, <5>1, AdvancedFits
          <5> QED BY <2>2, <2>3, <4>2, <4>3, <5>2 DEF Fits
        <4>4. CASE i \notin D
          BY <2>4, <4>2, <4>4
        <4> QED BY <4>3, <4>4
      <3> QED BY <2>1, <3>1 DEF RowsFit
    <2>8. AbsentIsNew'
      BY <2>2, <2>4 DEF SInv, AbsentIsNew
    <2>9. EditsFit'
      <3>1. ASSUME NEW c \in Callers, edits[c] # NoInstanceCall
            PROVE  Fits(edits[c].row, clock, fired'[edits[c].inst])
        <4>1. edits[c].row \in InstanceRow /\ edits[c].inst \in Instances
          BY <3>1 DEF SInv, TypeOK, InstanceControlTypeOK, InstanceCall
        <4>2. Fits(edits[c].row, clock, fired[edits[c].inst])
          BY <3>1 DEF SInv, EditsFit
        <4> QED BY <2>3, <2>6, <4>1, <4>2, FitsOn
      <3> QED BY <2>1, <3>1 DEF SInv, EditsFit
    <2>10. AtMostOneRun'
      BY <2>3 DEF AtMostOneRun
    <2>11. /\ tick'[p] = NoTick
           /\ \A q \in Ticks : q # p => tick'[q] = tick[q]
      BY <1>0, <2>1
    <2>12. TicksInside'
      BY <2>11 DEF SInv, TicksInside, NoTick
    <2>13. TicksAreExclusive'
      <3>1. ASSUME NEW q \in Ticks, NEW i \in tick'[q].locked
            PROVE  inst'[i].state = "ACTIVE" /\ inst'[i].next <= clock'
        <4>1. q # p /\ i \in tick[q].locked /\ i \in Instances
          BY <1>0, <2>11, <3>1 DEF NoTick
        <4>2. i \notin D
          BY <2>2, <4>1 DEF SInv, TicksAreExclusive
        <4> QED BY <2>1, <2>4, <4>1, <4>2 DEF SInv, TicksAreExclusive
      <3> QED BY <2>11, <3>1 DEF SInv, TicksAreExclusive, NoTick
    <2> QED BY <2>5, <2>7, <2>8, <2>9, <2>10, <2>12, <2>13 DEF SInv
  <1> QED BY <1>1, <1>2, <1>3, <1>4

\* A call that has computed a fitting row keeps it.
LEMMA PrepareKeeps ==
  ASSUME SInv, NEW c \in Callers, NEW op \in {"create", "update"}, NEW i \in Instances,
         NEW row \in InstanceRow, row.state # "ABSENT", Fits(row, clock, fired[i]),
         Prepare(c, op, i, row)
  PROVE  SInv'
  <1> DEFINE e == [op |-> op, inst |-> i, row |-> row]
  <1>1. edits' = [edits EXCEPT ![c] = e] /\ UNCHANGED <<clock, inst, fired, tick>>
    BY DEF Prepare, instanceVars, tickVars
  <1>2. e \in InstanceCall /\ e.inst = i /\ e.row = row
    BY DEF InstanceCall
  <1> HIDE DEF e
  <1>3. TypeOK'
    BY <1>1, <1>2 DEF SInv, TypeOK, InstanceTypeOK, TickTypeOK, InstanceControlTypeOK
  <1>4. EditsFit'
    BY <1>1, <1>2 DEF SInv, EditsFit, TypeOK, InstanceControlTypeOK
  <1>5. RowsFit' /\ AbsentIsNew' /\ AtMostOneRun' /\ TicksInside' /\ TicksAreExclusive'
    BY <1>1 DEF SInv, RowsFit, AbsentIsNew, AtMostOneRun, TicksInside, TicksAreExclusive
  <1> QED BY <1>3, <1>4, <1>5 DEF SInv

\* A patch that leaves the schedule and the next fire time alone fits as well.
LEMMA StatePatchFits ==
  ASSUME SInv, NEW i \in Instances, inst[i].state # "ABSENT",
         NEW st \in {"ACTIVE", "PAUSED", "DELETED"}
  PROVE  /\ [inst[i] EXCEPT !.state = st] \in InstanceRow
         /\ [inst[i] EXCEPT !.state = st].state = st
         /\ Fits([inst[i] EXCEPT !.state = st], clock, fired[i])
  <1> DEFINE row == inst[i]
             new == [row EXCEPT !.state = st]
  <1>1. row \in InstanceRow /\ Fits(row, clock, fired[i])
    BY DEF SInv, TypeOK, InstanceTypeOK, RowsFit
  <1> HIDE DEF row
  <1>2. /\ new \in InstanceRow /\ new.state = st
        /\ new.next = row.next /\ new.schedule = row.schedule /\ new.since = row.since
    BY <1>1 DEF InstanceRow
  <1> HIDE DEF new
  <1>3. Fits(new, clock, fired[i])
    BY <1>1, <1>2 DEF Fits, Passed
  <1> QED BY <1>2, <1>3 DEF new, row

\* Every step of an API call keeps it.
LEMMA EditKeeps == SInv /\ InstanceControlNext => SInv'
  <1> SUFFICES ASSUME SInv, InstanceControlNext PROVE SInv'
    OBVIOUS
  <1>0. TypeOK
    BY DEF SInv
  <1>1. ASSUME NEW c \in Callers, NEW i \in Instances, NEW schedule \in Schedules,
               NEW enabled \in BOOLEAN, CreateInstance(c, i, schedule, enabled)
        PROVE  SInv'
    <2> DEFINE row == [inst[i] EXCEPT !.state = StateOf(enabled), !.last = Never]
    <2>0. inst[i] \in InstanceRow
      BY <1>0 DEF TypeOK, InstanceTypeOK
    <2>1. row \in InstanceRow /\ row.state \in {"ACTIVE", "PAUSED"}
      <3>1. StateOf(enabled) \in {"ACTIVE", "PAUSED"} /\ Never \in Int
        BY DEF StateOf, Never
      <3> HIDE DEF StateOf, Never
      <3> QED BY <2>0, <3>1 DEF InstanceRow
    <2> HIDE DEF row
    <2>2. /\ Rescheduled(row, schedule) \in InstanceRow
          /\ Rescheduled(row, schedule).state # "ABSENT"
          /\ Fits(Rescheduled(row, schedule), clock, fired[i])
      BY <1>0, <2>1, RescheduledFits
    <2>3. Prepare(c, "create", i, Rescheduled(row, schedule))
      BY <1>1 DEF CreateInstance, row
    <2> QED BY <2>2, <2>3, PrepareKeeps
  <1>2. ASSUME NEW c \in Callers, NEW i \in Instances, NEW schedule \in Schedules,
               NEW st \in {"ACTIVE", "PAUSED"},
               Prepare(c, "update", i, Rescheduled([inst[i] EXCEPT !.state = st], schedule))
        PROVE  SInv'
    <2> DEFINE row == [inst[i] EXCEPT !.state = st]
    <2>1. row \in InstanceRow /\ row.state \in {"ACTIVE", "PAUSED"}
      BY DEF SInv, TypeOK, InstanceTypeOK, InstanceRow
    <2>2. Prepare(c, "update", i, Rescheduled(row, schedule))
      BY <1>2
    <2> HIDE DEF row
    <2>3. /\ Rescheduled(row, schedule) \in InstanceRow
          /\ Rescheduled(row, schedule).state # "ABSENT"
          /\ Fits(Rescheduled(row, schedule), clock, fired[i])
      BY <1>0, <2>1, RescheduledFits
    <2> QED BY <2>2, <2>3, PrepareKeeps
  <1>3. ASSUME NEW c \in Callers, NEW i \in Instances, NEW schedule \in Schedules,
               NEW enabled \in BOOLEAN, PatchSchedule(c, i, enabled, schedule)
        PROVE  SInv'
    BY <1>2, <1>3 DEF PatchSchedule, PatchedSchedule, StateOf
  <1>4. ASSUME NEW c \in Callers, NEW i \in Instances, ResumeInstance(c, i) PROVE SInv'
    <2>1. inst[i].schedule \in Schedules
      BY DEF SInv, TypeOK, InstanceTypeOK, InstanceRow
    <2> QED BY <1>2, <1>4, <2>1 DEF ResumeInstance
  <1>5. ASSUME NEW c \in Callers, NEW i \in Instances, inst[i].state # "ABSENT",
               NEW st \in {"ACTIVE", "PAUSED", "DELETED"},
               Prepare(c, "update", i, [inst[i] EXCEPT !.state = st])
        PROVE  SInv'
    BY <1>5, StatePatchFits, PrepareKeeps
  <1>6. ASSUME NEW c \in Callers, NEW i \in Instances, NEW enabled \in BOOLEAN,
               PatchInstance(c, i, enabled)
        PROVE  SInv'
    BY <1>5, <1>6 DEF PatchInstance, StateOf
  <1>7. ASSUME NEW c \in Callers, NEW i \in Instances, DeleteInstance(c, i) PROVE SInv'
    BY <1>5, <1>7 DEF DeleteInstance
  <1>8. ASSUME NEW c \in Callers, edits' = [edits EXCEPT ![c] = NoInstanceCall]
        PROVE  /\ InstanceControlTypeOK'
               /\ \A d \in Callers : edits'[d] # NoInstanceCall => edits'[d] = edits[d]
    BY <1>8 DEF SInv, TypeOK, InstanceControlTypeOK, InstanceCall
  <1>9. ASSUME NEW c \in Callers, InstanceCallError(c) PROVE SInv'
    <2>1. edits' = [edits EXCEPT ![c] = NoInstanceCall] /\ UNCHANGED <<clock, inst, fired, tick>>
      BY <1>9 DEF InstanceCallError, instanceVars, tickVars
    <2>2. TypeOK'
      BY <1>8, <2>1 DEF SInv, TypeOK, InstanceTypeOK, TickTypeOK
    <2>3. EditsFit'
      BY <1>8, <2>1 DEF SInv, EditsFit
    <2>4. RowsFit' /\ AbsentIsNew' /\ AtMostOneRun' /\ TicksInside' /\ TicksAreExclusive'
      BY <2>1 DEF SInv, RowsFit, AbsentIsNew, AtMostOneRun, TicksInside, TicksAreExclusive
    <2> QED BY <2>2, <2>3, <2>4 DEF SInv
  <1>10. ASSUME NEW c \in Callers, WriteInstance(c) PROVE SInv'
    <2> DEFINE i == edits[c].inst
               row == edits[c].row
    <2>1. /\ edits[c] # NoInstanceCall
          /\ ~TickLocked(i)
          /\ inst' = inst \/ inst' = [inst EXCEPT ![i] = row]
          /\ edits' = [edits EXCEPT ![c] = NoInstanceCall]
          /\ UNCHANGED <<clock, fired, tick>>
      BY <1>10 DEF WriteInstance, tickVars
    <2>2. /\ i \in Instances /\ row \in InstanceRow
          /\ row.state # "ABSENT" /\ Fits(row, clock, fired[i])
      BY <2>1 DEF SInv, EditsFit, TypeOK, InstanceControlTypeOK, InstanceCall
    <2> HIDE DEF i, row
    <2>3. inst \in [Instances -> InstanceRow]
      BY DEF SInv, TypeOK, InstanceTypeOK
    <2>4. ASSUME NEW j \in Instances
          PROVE  inst'[j] = inst[j] \/ (j = i /\ inst'[j] = row)
      BY <2>1, <2>2, <2>3
    <2>5. TypeOK'
      BY <1>8, <2>1, <2>2, <2>3 DEF SInv, TypeOK, InstanceTypeOK, TickTypeOK
    <2>6. RowsFit' /\ AbsentIsNew'
      BY <2>1, <2>2, <2>4 DEF SInv, RowsFit, AbsentIsNew
    <2>7. EditsFit'
      BY <1>8, <2>1 DEF SInv, EditsFit
    <2>8. AtMostOneRun' /\ TicksInside'
      BY <2>1 DEF SInv, AtMostOneRun, TicksInside
    <2>9. TicksAreExclusive'
      <3>1. ASSUME NEW p \in Ticks, NEW j \in tick[p].locked PROVE inst'[j] = inst[j]
        <4>1. j \in Instances /\ j # i
          BY <2>1 DEF SInv, TypeOK, TickTypeOK, TickLocked
        <4> QED BY <2>4, <4>1
      <3> QED BY <2>1, <3>1 DEF SInv, TicksAreExclusive
    <2> QED BY <2>5, <2>6, <2>7, <2>8, <2>9 DEF SInv
  <1> QED
    BY <1>1, <1>3, <1>4, <1>6, <1>7, <1>9, <1>10 DEF InstanceControlNext

\* The invariant is inductive.
LEMMA StepSInv == SInv /\ [Next]_vars => SInv'
  <1>1. SInv /\ UNCHANGED vars => SInv'
    BY DEF vars, instanceVars, tickVars, editVars, SInv, TypeOK, InstanceTypeOK, TickTypeOK,
           InstanceControlTypeOK, RowsFit, AbsentIsNew, EditsFit, AtMostOneRun, TicksInside,
           TicksAreExclusive
  <1> QED BY <1>1, ClockKeeps, TickKeeps, EditKeeps DEF Next

-----------------------------------------------------------------------------

\* SInv is an inductive invariant of scheduling.
THEOREM SchedulingInvariance == Spec => []SInv
  BY InitSInv, StepSInv, PTL DEF Spec

\* The state of instances, ticks and calls is always well typed.
THEOREM SchedulingTypes == Spec => []TypeOK
  <1>1. SInv => TypeOK
    BY DEF SInv
  <1> QED BY SchedulingInvariance, <1>1, PTL

\* Every fire time that next_fire_at has passed has its run, and none has two,
\* whatever ticks overlap and whatever stale rows patches write back.
THEOREM EverySlotOnce == Spec => []SlotsFireOnce
  <1>1. SInv => SlotsFireOnce
    <2> SUFFICES ASSUME SInv PROVE SlotsFireOnce
      OBVIOUS
    <2>1. Passed(NoInstance) = {}
      <3>1. PICK schedule \in Schedules : NoInstance.schedule = schedule
        BY InstanceStoreAssumption DEF NoInstance
      <3>2. NoInstance.next = 0 /\ NoInstance.since = 0
        BY DEF NoInstance
      <3>3. schedule \subseteq Nat
        BY InstanceStoreAssumption
      <3>4. ASSUME NEW s \in schedule, NoInstance.since <= s, s < NoInstance.next
            PROVE  FALSE
        BY <3>2, <3>3, <3>4
      <3> QED BY <3>1, <3>4, Zenon DEF Passed
    <2>2. ASSUME NEW i \in Instances, NEW s \in Passed(inst[i])
          PROVE  s <= clock /\ fired[i][s] = 1
      <3>1. inst[i].state # "ABSENT"
        BY <2>1, <2>2 DEF SInv, AbsentIsNew
      <3> QED BY <3>1, <2>2 DEF SInv, RowsFit, Fits
    <2> QED BY <2>2 DEF SInv, SlotsFireOnce, AtMostOneRun
  <1> QED BY SchedulingInvariance, <1>1, PTL

\* An instance is due only at times of its own schedule.
THEOREM NextAlwaysFits == Spec => []NextFitsSchedule
  <1>1. SInv => NextFitsSchedule
    BY DEF SInv, RowsFit, Fits, NextFitsSchedule
  <1> QED BY SchedulingInvariance, <1>1, PTL

\* Concurrent ticks never work on the same instance, and no call changes an
\* instance under a tick.
THEOREM ExclusiveTicks == Spec => []TicksAreExclusive
  <1>1. SInv => TicksAreExclusive
    BY DEF SInv
  <1> QED BY SchedulingInvariance, <1>1, PTL
=============================================================================

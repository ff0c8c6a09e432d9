-------------------------- MODULE TaskSeriesProofs --------------------------
(***************************************************************************)
(* Theorems about TaskSeries, for any cap on the failures, any number of    *)
(* rows and any number of faults in the re-arms.                            *)
(***************************************************************************)
EXTENDS TaskSeries, FiniteSetTheorems, SequenceTheorems, TLAPS

\* No two rows are armed.
OneRec == ~forked => \A i, j \in DOMAIN rows : rows[i].rec /\ rows[j].rec => i = j

\* The failures that count are trailing failures of the table as long as a row is armed;
\* while it waits for a run, or has one in hand, the cap is not reached.
Capped ==
    ~forked => /\ burn <= FailCap
               /\ \A i \in DOMAIN rows : rows[i].rec => burn <= Streak(rows)
               /\ \A i \in DOMAIN rows :
                     /\ rows[i].rec /\ Live(rows[i])
                     /\ rows[i].status = "pending" \/ rows[i].ack # "none" \/ i \in read
                     => burn < FailCap

\* A series that was stopped has nothing to run, and no successor to come.
Quiet ==
    stopped = "idle" => ToCome = {} /\ \A i \in DOMAIN rows : rows[i].status # "pending"

\* The bound on the rows leaves room for the successors to come.
Fits == Len(rows) + Cardinality(ToCome) <= MaxRows

Invariant == TypeOK /\ OneRec /\ Capped /\ Quiet /\ Fits

\* The failed rows after the last success.
Late(s) == {i \in DOMAIN s : /\ s[i].status = "failed"
                             /\ \A j \in DOMAIN s : j > i => s[j].status # "completed"}

-----------------------------------------------------------------------------
(* Sequences of rows and their sets of positions.                           *)

\* A function on the positions of a sequence is a sequence as long as it.
LEMMA FunctionIsSeq ==
    ASSUME NEW S, NEW n \in Nat, NEW f \in [1 .. n -> S]
    PROVE  f \in Seq(S) /\ Len(f) = n
<1>1. f \in Seq(S)
  BY SeqDef
<1>2. DOMAIN f = 1 .. Len(f) /\ DOMAIN f = 1 .. n /\ Len(f) \in Nat
  BY <1>1, LenProperties
<1>. QED
  BY <1>1, <1>2

\* A change of rows in place.
LEMMA InPlace ==
    ASSUME NEW s \in Seq(Row), NEW t, NEW f, f = [i \in DOMAIN s |-> t[i]], t = f,
           \A i \in DOMAIN s : t[i] \in Row
    PROVE  t \in Seq(Row) /\ Len(t) = Len(s) /\ DOMAIN t = DOMAIN s
<1>1. DOMAIN s = 1 .. Len(s) /\ Len(s) \in Nat
  BY LenProperties
<1>2. t \in [1 .. Len(s) -> Row]
  BY <1>1
<1>. QED
  BY <1>1, <1>2, FunctionIsSeq

\* What the fields of a row are.
LEMMA RowTyped ==
    ASSUME NEW s \in Seq(Row), NEW i \in DOMAIN s
    PROVE  /\ s[i] \in Row
           /\ s[i].status \in {"pending", "paused", "completed", "failed", "cancelled"}
           /\ s[i].rec \in BOOLEAN /\ s[i].ack \in {"none", "processing", "completed", "error"}
<1>1. s[i] \in Row
  BY LenProperties, ElementOfSeq
<1>. QED
  BY <1>1 DEF Row

\* A set of positions is finite.
LEMMA PositionsFinite ==
    ASSUME NEW s \in Seq(Row), NEW T \in SUBSET DOMAIN s
    PROVE  IsFiniteSet(T) /\ Cardinality(T) \in Nat
<1>1. DOMAIN s = 1 .. Len(s) /\ Len(s) \in Nat
  BY LenProperties
<1>2. IsFiniteSet(DOMAIN s)
  BY <1>1, FS_Interval
<1>. QED
  BY <1>2, FS_Subset, FS_CardinalityType

\* A finite set has one element at most when no two of its elements differ.
LEMMA AtMostOneElement ==
    ASSUME NEW S, IsFiniteSet(S)
    PROVE  Cardinality(S) <= 1 <=> \A x, y \in S : x = y
<1>1. Cardinality(S) \in Nat
  BY FS_CardinalityType
<1>2. Cardinality(S) <= 1 <=> Cardinality(S) = 0 \/ Cardinality(S) = 1
  BY <1>1
<1>3. Cardinality(S) = 0 <=> S = {}
  BY FS_EmptySet
<1>4. Cardinality(S) = 1 <=> \E x : S = {x}
  BY FS_Singleton
<1>5. (\A x, y \in S : x = y) <=> S = {} \/ \E x : S = {x}
  OBVIOUS
<1>. QED
  BY <1>2, <1>3, <1>4, <1>5

\* The count of trailing failures does not fall when the trailing failures stay, ...
LEMMA StreakKeeps ==
    ASSUME NEW s \in Seq(Row), NEW t \in Seq(Row), Late(s) \subseteq Late(t)
    PROVE  Streak(s) \in Nat /\ Streak(t) \in Nat /\ Streak(s) <= Streak(t)
<1>1. Streak(s) = Cardinality(Late(s)) /\ Streak(t) = Cardinality(Late(t))
  BY DEF Streak, Late
<1>2. Late(s) \subseteq DOMAIN s /\ Late(t) \subseteq DOMAIN t
  BY DEF Late
<1>3. IsFiniteSet(Late(t)) /\ Cardinality(Late(s)) \in Nat /\ Cardinality(Late(t)) \in Nat
  BY <1>2, PositionsFinite
<1>4. Cardinality(Late(s)) <= Cardinality(Late(t))
  BY <1>3, FS_Subset
<1>. QED
  BY <1>1, <1>3, <1>4

\* ... and grows with a new one.
LEMMA StreakGrows ==
    ASSUME NEW s \in Seq(Row), NEW t \in Seq(Row), Late(s) \subseteq Late(t),
           NEW e \in Late(t), e \notin Late(s)
    PROVE  Streak(s) \in Nat /\ Streak(t) \in Nat /\ Streak(s) + 1 <= Streak(t)
<1>1. Streak(s) = Cardinality(Late(s)) /\ Streak(t) = Cardinality(Late(t))
  BY DEF Streak, Late
<1>2. Late(s) \subseteq DOMAIN s /\ Late(t) \subseteq DOMAIN t
  BY DEF Late
<1>3. /\ IsFiniteSet(Late(s)) /\ IsFiniteSet(Late(t))
      /\ Cardinality(Late(s)) \in Nat /\ Cardinality(Late(t)) \in Nat
  BY <1>2, PositionsFinite
<1>4. Cardinality(Late(s) \cup {e}) = Cardinality(Late(s)) + 1
  BY <1>3, FS_AddElement
<1>5. Late(s) \cup {e} \in SUBSET Late(t)
  OBVIOUS
<1>6. Cardinality(Late(s) \cup {e}) <= Cardinality(Late(t))
  BY <1>3, <1>5, FS_Subset
<1>. QED
  BY <1>1, <1>3, <1>4, <1>6

-----------------------------------------------------------------------------
(* The inductive step, one lemma for each way in which a step changes rows. *)

\* The invariant holds initially, ...
LEMMA InitInvariant == Init => Invariant
<1>. SUFFICES ASSUME Init PROVE Invariant
  OBVIOUS
<1>1. PICK status \in {"pending", "paused"}, rec \in BOOLEAN :
          rows = <<[status |-> status, rec |-> rec, ack |-> "none"]>>
  BY DEF Init
<1>2. /\ rows \in Seq(Row) /\ Len(rows) = 1 /\ DOMAIN rows = {1}
      /\ rows[1].status \in {"pending", "paused"} /\ rows[1].ack = "none"
  BY <1>1 DEF Row
<1>3. ToCome = {} /\ Cardinality({}) = 0
  BY <1>2, FS_EmptySet DEF Init, ToCome, InHand, Finished
<1>4. Streak(rows) \in Nat
  BY <1>2, StreakKeeps
<1>5. TypeOK
  <2>1. Len(rows) <= MaxRows
    BY <1>2, BoundAssumption
  <2>2. \A i \in DOMAIN rows : rows[i].status # "cancelled"
    BY <1>2
  <2>3. /\ session \in {"active", "closed"} /\ running \in BOOLEAN
        /\ sweep \in {"idle", "synced", "checked"} /\ faults \in 0 .. MaxFaults
    <3>1. session = "active" /\ running = FALSE /\ sweep = "idle" /\ faults = 0
      BY DEF Init
    <3>2. faults \in 0 .. MaxFaults
      BY <3>1, BoundAssumption
    <3>. QED
      BY <3>1, <3>2, Zenon
  <2>4. /\ forked \in BOOLEAN /\ stopped \in {"no", "busy", "idle"} /\ burn \in Nat
        /\ ended \in BOOLEAN /\ read = {}
    BY DEF Init
  <2>5. \A i \in DOMAIN rows : rows[i].status = "cancelled" => ~rows[i].rec
    BY <2>2
  <2>. QED
    BY <1>2, <2>1, <2>3, <2>4, <2>5 DEF TypeOK
<1>6. OneRec /\ Quiet
  BY <1>2 DEF Init, OneRec, Quiet
<1>7. Capped
  BY <1>4, BoundAssumption DEF Init, Capped
<1>8. Fits
  BY <1>2, <1>3, BoundAssumption DEF Fits
<1>. QED
  BY <1>5, <1>6, <1>7, <1>8 DEF Invariant

\* The bound is kept by a step that leaves no more successors to come.
LEMMA FewerToCome ==
    ASSUME Invariant, rows' \in Seq(Row), Len(rows') = Len(rows), ToCome' \subseteq ToCome
    PROVE  Fits' /\ Len(rows') <= MaxRows
<1>1. rows \in Seq(Row) /\ Fits /\ Len(rows) \in Nat /\ MaxRows \in Nat
  BY BoundAssumption, LenProperties DEF Invariant, TypeOK
<1>2. ToCome \subseteq DOMAIN rows
  BY DEF ToCome
<1>3. IsFiniteSet(ToCome) /\ Cardinality(ToCome) \in Nat
  BY <1>1, <1>2, PositionsFinite
<1>4. Cardinality(ToCome') <= Cardinality(ToCome) /\ Cardinality(ToCome') \in Nat
  BY <1>3, FS_Subset, FS_CardinalityType
<1>. QED
  BY <1>1, <1>3, <1>4 DEF Fits

\* The container: a row is read and gets in hand when it is pending, and nothing else changes.
LEMMA HandInvariant ==
    ASSUME Invariant,
           rows' \in Seq(Row), Len(rows') = Len(rows), DOMAIN rows' = DOMAIN rows,
           \A i \in DOMAIN rows :
              /\ rows'[i].status = rows[i].status /\ rows'[i].rec = rows[i].rec
              /\ rows'[i].ack # "none" \/ i \in read' =>
                    rows[i].ack # "none" \/ rows[i].status = "pending" \/ i \in read,
           Fits', Len(rows') <= MaxRows,
           read' \subseteq DOMAIN rows, read' # {} => running',
           \A i \in read' : rows'[i].ack = "none",
           session' = session, running' \in BOOLEAN, sweep' \in {"idle", "synced", "checked"},
           faults' = faults, UNCHANGED history
    PROVE  Invariant'
<1>1. TypeOK'
  BY DEF Invariant, TypeOK, history
<1>2. OneRec'
  BY DEF Invariant, OneRec, history
<1>3. Capped'
  <2>1. Late(rows) \subseteq Late(rows')
    BY DEF Late
  <2>2. Streak(rows) \in Nat /\ Streak(rows') \in Nat /\ Streak(rows) <= Streak(rows')
    BY <2>1, StreakKeeps DEF Invariant, TypeOK
  <2>. QED
    BY <2>2 DEF Invariant, TypeOK, Capped, Live, history
<1>4. Quiet'
  BY DEF Invariant, Quiet, ToCome, InHand, Finished, Live, history
<1>. QED
  BY <1>1, <1>2, <1>3, <1>4 DEF Invariant

\* The sweep settles the runs: a row that changes was in hand and is finished after.
LEMMA SettleInvariant ==
    ASSUME Invariant,
           rows' \in Seq(Row), Len(rows') = Len(rows), DOMAIN rows' = DOMAIN rows,
           \A i \in DOMAIN rows :
              /\ rows'[i].rec = rows[i].rec
              /\ rows'[i].status # rows[i].status =>
                    ~Finished(rows[i]) /\ Finished(rows'[i]) /\ rows[i].ack # "none"
              /\ rows'[i].ack # "none" => rows[i].ack # "none",
           Burn(rows'),
           session' = session, running' = running, sweep' \in {"idle", "synced", "checked"},
           read' = read, faults' = faults, forked' = forked, stopped' = stopped, ended' = ended
    PROVE  Invariant'
<1>1. /\ rows \in Seq(Row) /\ burn \in Nat /\ FailCap \in Nat /\ FailCap > 0
      /\ \A i \in DOMAIN rows : rows[i].status = "cancelled" => ~rows[i].rec
  BY BoundAssumption DEF Invariant, TypeOK
<1>2. \A i \in DOMAIN rows : rows[i].rec => Live(rows[i]) \/ Finished(rows[i])
  BY <1>1, RowTyped DEF Live, Finished
<1>3. ToCome' \subseteq ToCome
  BY <1>2 DEF ToCome, InHand, Live, Finished
<1>4. Fits' /\ Len(rows') <= MaxRows
  BY <1>3, FewerToCome
<1>5. OneRec'
  BY DEF Invariant, OneRec
<1>6. Quiet'
  BY <1>3 DEF Invariant, Quiet, Finished
<1>. DEFINE Won == \E i \in DOMAIN rows :
                      ~Finished(rows[i]) /\ Finished(rows'[i]) /\ rows'[i].status = "completed"
            Over(i) == \E j \in DOMAIN rows' : j > i /\ rows'[j].status = "completed"
            Lost == {i \in DOMAIN rows : /\ ~Finished(rows[i]) /\ Finished(rows'[i])
                                         /\ rows[i].rec /\ ~Over(i)}
<1>7. burn' = IF Won THEN 0 ELSE burn + Cardinality(Lost)
  <2>1. Lost = {i \in {k \in DOMAIN rows : ~Finished(rows[k]) /\ Finished(rows'[k])} :
                   rows[i].rec /\ ~Over(i)}
    OBVIOUS
  <2>. QED
    BY <2>1 DEF Burn
<1>8. IsFiniteSet(Lost) /\ Cardinality(Lost) \in Nat
  BY <1>1, PositionsFinite
<1>9. burn' \in Nat
  <2>. HIDE DEF Won, Lost
  <2>. QED
    BY <1>1, <1>7, <1>8
<1>10. TypeOK'
  <2>1. \A i \in DOMAIN rows' : rows'[i].status = "cancelled" => ~rows'[i].rec
    BY <1>1 DEF Finished
  <2>. QED
    BY <1>4, <1>9, <2>1 DEF Invariant, TypeOK
<1>11. Capped'
  <2>. SUFFICES ASSUME ~forked PROVE Capped'
    BY DEF Capped
  <2>1. Streak(rows) \in Nat /\ Streak(rows') \in Nat
    BY <1>1, StreakKeeps
  <2>2. CASE Won
    <3>1. burn' = 0
      BY <1>7, <2>2
    <3>. QED
      BY <1>1, <2>1, <3>1 DEF Capped
  <2>3. CASE ~Won
    <3>1. Late(rows) \subseteq Late(rows')
      <4>1. \A i \in DOMAIN rows : rows'[i].status = "completed" => rows[i].status = "completed"
        BY <2>3 DEF Finished
      <4>2. \A i \in DOMAIN rows : rows[i].status = "failed" => rows'[i].status = "failed"
        BY DEF Finished
      <4>. QED
        BY <4>1, <4>2 DEF Late
    <3>2. Streak(rows) <= Streak(rows')
      BY <1>1, <3>1, StreakKeeps
    <3>3. /\ burn <= FailCap
          /\ \A i \in DOMAIN rows : rows[i].rec => burn <= Streak(rows)
          /\ \A i \in DOMAIN rows :
                /\ rows[i].rec /\ Live(rows[i])
                /\ rows[i].status = "pending" \/ rows[i].ack # "none" \/ i \in read
                => burn < FailCap
      BY DEF Invariant, Capped
    <3>4. CASE Lost = {}
      <4>1. burn' = burn
        <5>1. Cardinality(Lost) = 0
          BY <3>4, FS_EmptySet
        <5>. HIDE DEF Lost, Won
        <5>. QED
          BY <1>1, <1>7, <2>3, <5>1
      <4>2. \A i \in DOMAIN rows : Live(rows'[i]) => rows'[i].status = rows[i].status /\ Live(rows[i])
        BY DEF Live, Finished
      <4>. QED
        BY <1>1, <2>1, <3>2, <3>3, <4>1, <4>2 DEF Capped
    <3>5. ASSUME NEW e \in Lost PROVE Capped'
      <4>1. /\ e \in DOMAIN rows /\ ~Finished(rows[e]) /\ Finished(rows'[e])
            /\ rows[e].rec /\ ~Over(e)
        BY <3>5
      <4>2. \A i \in DOMAIN rows : rows[i].rec => i = e
        BY <4>1 DEF Invariant, OneRec
      <4>3. Lost = {e}
        BY <3>5, <4>2
      <4>4. burn' = burn + 1
        BY <1>7, <2>3, <4>3, FS_Singleton
      <4>5. Live(rows[e]) /\ rows[e].ack # "none"
        BY <1>2, <4>1 DEF Finished
      <4>6. burn < FailCap /\ burn <= Streak(rows)
        BY <3>3, <4>1, <4>5
      <4>7. e \in Late(rows') /\ e \notin Late(rows)
        <5>1. rows'[e].status = "failed"
          BY <2>3, <4>1 DEF Finished
        <5>2. \A j \in DOMAIN rows' : j > e => rows'[j].status # "completed"
          BY <4>1
        <5>. QED
          BY <4>1, <5>1, <5>2 DEF Late, Finished
      <4>8. Streak(rows) + 1 <= Streak(rows')
        BY <1>1, <3>1, <4>7, StreakGrows
      <4>9. \A i \in DOMAIN rows' : rows'[i].rec => i = e /\ ~Live(rows'[i])
        BY <4>1, <4>2 DEF Live, Finished
      <4>. QED
        BY <1>1, <2>1, <4>4, <4>6, <4>8, <4>9 DEF Capped
    <3>. QED
      BY <3>4, <3>5
  <2>. QED
    BY <2>2, <2>3
<1>. QED
  BY <1>4, <1>5, <1>6, <1>10, <1>11 DEF Invariant

\* The commands that change rows in place: a row that keeps its recurrence keeps its status,
\* or is paused.
LEMMA StopInvariant ==
    ASSUME Invariant,
           rows' \in Seq(Row), Len(rows') = Len(rows), DOMAIN rows' = DOMAIN rows,
           \A i \in DOMAIN rows :
              /\ rows'[i].ack = rows[i].ack /\ (rows'[i].rec => rows[i].rec)
              /\ \/ (rows'[i].status = "cancelled" /\ ~rows'[i].rec /\ Live(rows[i]))
                 \/ (rows'[i].status = "paused" /\ rows'[i].rec = rows[i].rec /\ rows[i].status = "pending")
                 \/ (rows'[i] = rows[i] /\ rows[i].status # "pending"),
           Stopped,
           session' = session, running' = running, read' = read, sweep' = sweep,
           faults' = faults, forked' = forked, burn' = burn, ended' = ended
    PROVE  Invariant'
<1>1. rows \in Seq(Row) /\ burn \in Nat /\ FailCap \in Nat
  BY BoundAssumption DEF Invariant, TypeOK
<1>2. \A i \in DOMAIN rows : Finished(rows'[i]) => rows'[i] = rows[i]
  BY DEF Finished
<1>3. \A i \in DOMAIN rows : InHand(rows'[i]) => InHand(rows[i])
  BY DEF InHand, Live
<1>4. ToCome' \subseteq ToCome
  <2>1. \A i \in DOMAIN rows : Live(rows'[i]) => Live(rows[i])
    BY DEF Live
  <2>. QED
    BY <1>2, <1>3, <2>1 DEF ToCome
<1>5. Fits' /\ Len(rows') <= MaxRows
  BY <1>4, FewerToCome
<1>6. stopped' = IF ToCome' = {} THEN "idle" ELSE "busy"
  BY DEF Stopped
<1>7. TypeOK'
  <2>1. \A i \in DOMAIN rows' : rows'[i].status = "cancelled" => ~rows'[i].rec
    BY DEF Invariant, TypeOK
  <2>. QED
    BY <1>5, <1>6, <2>1 DEF Invariant, TypeOK
<1>8. OneRec'
  BY DEF Invariant, OneRec
<1>9. Capped'
  <2>1. Late(rows) \subseteq Late(rows')
    BY DEF Late, Live
  <2>2. Streak(rows) \in Nat /\ Streak(rows') \in Nat /\ Streak(rows) <= Streak(rows')
    BY <1>1, <2>1, StreakKeeps
  <2>3. \A i \in DOMAIN rows :
           /\ Live(rows'[i])
           /\ rows'[i].status = "pending" \/ rows'[i].ack # "none" \/ i \in read
           => Live(rows[i]) /\ (rows[i].status = "pending" \/ rows[i].ack # "none" \/ i \in read)
    BY DEF Live
  <2>. QED
    BY <1>1, <2>2, <2>3 DEF Invariant, Capped
<1>10. Quiet'
  BY <1>6 DEF Quiet
<1>. QED
  BY <1>5, <1>7, <1>8, <1>9, <1>10 DEF Invariant

\* A resume, or a new recurrence, which end the count of failures.
LEMMA FreshInvariant ==
    ASSUME Invariant,
           rows' \in Seq(Row), Len(rows') = Len(rows), DOMAIN rows' = DOMAIN rows,
           \A i \in DOMAIN rows :
              /\ rows'[i].ack = rows[i].ack
              /\ Live(rows'[i]) <=> Live(rows[i])
              /\ ~Live(rows[i]) => rows'[i] = rows[i],
           stopped' \in {"no", "busy", "idle"},
           stopped' = "idle" =>
              stopped = "idle" /\ \A i \in DOMAIN rows : rows'[i].status = rows[i].status,
           forked' \in BOOLEAN,
           ~forked' => \A i, j \in DOMAIN rows : rows'[i].rec /\ rows'[j].rec => i = j,
           session' = session, running' = running, read' = read, sweep' = sweep,
           faults' = faults, burn' = 0, ended' = ended
    PROVE  Invariant'
<1>1. rows \in Seq(Row) /\ FailCap \in Nat /\ FailCap > 0
  BY BoundAssumption DEF Invariant, TypeOK
<1>2. \A i \in DOMAIN rows : Finished(rows'[i]) => rows'[i] = rows[i]
  BY DEF Finished, Live
<1>3. \A i \in DOMAIN rows : InHand(rows'[i]) => InHand(rows[i])
  BY DEF InHand
<1>4. ToCome' \subseteq ToCome
  BY <1>2, <1>3 DEF ToCome
<1>5. Fits' /\ Len(rows') <= MaxRows
  BY <1>4, FewerToCome
<1>6. TypeOK'
  <2>1. \A i \in DOMAIN rows' : rows'[i].status = "cancelled" => ~rows'[i].rec
    BY DEF Invariant, TypeOK, Live
  <2>. QED
    BY <1>5, <2>1 DEF Invariant, TypeOK
<1>7. OneRec'
  BY DEF OneRec
<1>8. Capped'
  <2>1. Streak(rows') \in Nat
    BY StreakKeeps
  <2>. QED
    BY <1>1, <2>1 DEF Capped
<1>9. Quiet'
  BY <1>4 DEF Invariant, Quiet
<1>. QED
  BY <1>5, <1>6, <1>7, <1>8, <1>9 DEF Invariant

\* What a row at the end of the table leaves as it was.
LEMMA AppendKeeps ==
    ASSUME Invariant, NEW row \in Row, rows' = Append(rows, row), Room,
           ~Finished(row), row.ack = "none", read' \subseteq read
    PROVE  /\ rows' \in Seq(Row) /\ DOMAIN rows' = DOMAIN rows \cup {Len(rows) + 1}
           /\ Len(rows) + 1 \notin DOMAIN rows /\ rows'[Len(rows) + 1] = row
           /\ \A i \in DOMAIN rows : rows'[i] = rows[i]
           /\ \A i \in read' : i \in DOMAIN rows' /\ rows'[i].ack = "none"
           /\ Streak(rows) \in Nat /\ Streak(rows') \in Nat /\ Streak(rows) <= Streak(rows')
           /\ Fits' /\ Len(rows') <= MaxRows
<1>1. rows \in Seq(Row) /\ MaxRows \in Nat
  BY BoundAssumption DEF Invariant, TypeOK
<1>2. /\ rows' \in Seq(Row) /\ Len(rows') = Len(rows) + 1 /\ rows'[Len(rows) + 1] = row
      /\ \A i \in 1 .. Len(rows) : rows'[i] = rows[i]
  BY <1>1, AppendProperties
<1>3. DOMAIN rows = 1 .. Len(rows) /\ DOMAIN rows' = 1 .. Len(rows') /\ Len(rows) \in Nat
  BY <1>1, <1>2, LenProperties
<1>4. /\ DOMAIN rows' = DOMAIN rows \cup {Len(rows) + 1} /\ Len(rows) + 1 \notin DOMAIN rows
      /\ \A i \in DOMAIN rows : rows'[i] = rows[i]
  BY <1>2, <1>3
<1>5. Late(rows) \subseteq Late(rows')
  <2>1. row.status # "completed"
    BY DEF Finished
  <2>. QED
    BY <1>2, <1>4, <2>1 DEF Late
<1>6. Streak(rows) \in Nat /\ Streak(rows') \in Nat /\ Streak(rows) <= Streak(rows')
  BY <1>1, <1>2, <1>5, StreakKeeps
<1>7. /\ ToCome' \subseteq ToCome
      /\ \A i \in read' : i \in DOMAIN rows' /\ rows'[i].ack = "none"
  <2>1. read' \subseteq DOMAIN rows /\ \A i \in read' : rows[i].ack = "none"
    BY DEF Invariant, TypeOK
  <2>2. Len(rows) + 1 \notin ToCome'
    BY <1>2, <1>4, <2>1 DEF ToCome, InHand
  <2>. QED
    BY <1>4, <2>1, <2>2 DEF ToCome
<1>8. Cardinality(ToCome) \in Nat /\ Cardinality(ToCome') \in Nat
      /\ Cardinality(ToCome') <= Cardinality(ToCome)
  <2>1. ToCome \subseteq DOMAIN rows
    BY DEF ToCome
  <2>2. IsFiniteSet(ToCome) /\ Cardinality(ToCome) \in Nat
    BY <1>1, <2>1, PositionsFinite
  <2>. QED
    BY <1>7, <2>2, FS_Subset, FS_CardinalityType
<1>9. Len(rows') + Cardinality(ToCome') <= MaxRows
  BY <1>1, <1>2, <1>3, <1>8 DEF Room
<1>10. Len(rows') <= MaxRows
  BY <1>1, <1>2, <1>3, <1>8, <1>9
<1>. QED
  BY <1>2, <1>4, <1>6, <1>7, <1>9, <1>10 DEF Fits

\* The row of a run that was asked for at once, never armed.
LEMMA RunNowInvariant == ASSUME Invariant, RunNow PROVE Invariant'
<1>. DEFINE row == [status |-> "pending", rec |-> FALSE, ack |-> "none"]
<1>1. row \in Row /\ ~Finished(row) /\ row.ack = "none" /\ ~row.rec /\ row.status # "cancelled"
  BY DEF Row, Finished
<1>2. /\ rows' = Append(rows, row) /\ Room /\ stopped' = "no"
      /\ UNCHANGED <<session, running, read, sweep, faults, forked, burn, ended>>
  BY DEF RunNow
<1>. HIDE DEF row
<1>3. /\ rows' \in Seq(Row) /\ DOMAIN rows' = DOMAIN rows \cup {Len(rows) + 1}
      /\ rows'[Len(rows) + 1] = row /\ \A i \in DOMAIN rows : rows'[i] = rows[i]
      /\ \A i \in read' : i \in DOMAIN rows' /\ rows'[i].ack = "none"
      /\ Streak(rows) \in Nat /\ Streak(rows') \in Nat /\ Streak(rows) <= Streak(rows')
      /\ Fits' /\ Len(rows') <= MaxRows
  BY <1>1, <1>2, AppendKeeps
<1>4. TypeOK'
  BY <1>1, <1>2, <1>3 DEF Invariant, TypeOK
<1>5. \A i \in DOMAIN rows' : rows'[i].rec => i \in DOMAIN rows /\ rows'[i] = rows[i]
  BY <1>1, <1>3
<1>6. OneRec'
  BY <1>2, <1>5 DEF Invariant, OneRec
<1>7. Capped'
  BY <1>2, <1>3, <1>5, BoundAssumption DEF Invariant, TypeOK, Capped
<1>8. Quiet'
  BY <1>2 DEF Quiet
<1>. QED
  BY <1>3, <1>4, <1>6, <1>7, <1>8 DEF Invariant

\* A re-arm that a crash tears apart.
LEMMA TearsInvariant == ASSUME Invariant, SweepTears PROVE Invariant'
<1>1. /\ rows' = Append(rows, Successor(rows)) /\ Room /\ Recurring(rows) # {}
      /\ faults < MaxFaults /\ faults' = faults + 1
      /\ forked' = TRUE /\ running' = FALSE /\ read' = {} /\ sweep' = "idle"
      /\ UNCHANGED <<session, stopped, burn, ended>>
  BY DEF SweepTears
<1>2. /\ Successor(rows) \in Row /\ ~Finished(Successor(rows)) /\ Successor(rows).ack = "none"
      /\ Successor(rows).status # "cancelled"
  BY DEF Successor, Row, Finished
<1>3. /\ rows' \in Seq(Row) /\ DOMAIN rows' = DOMAIN rows \cup {Len(rows) + 1}
      /\ rows'[Len(rows) + 1] = Successor(rows) /\ \A i \in DOMAIN rows : rows'[i] = rows[i]
      /\ Fits' /\ Len(rows') <= MaxRows
  BY <1>1, <1>2, AppendKeeps
<1>4. faults' \in 0 .. MaxFaults
  BY <1>1, BoundAssumption DEF Invariant, TypeOK
<1>5. TypeOK'
  BY <1>1, <1>2, <1>3, <1>4 DEF Invariant, TypeOK
<1>6. stopped # "idle"
  BY <1>1 DEF Invariant, Quiet, Recurring, ToCome
<1>. QED
  BY <1>1, <1>3, <1>5, <1>6 DEF Invariant, OneRec, Capped, Quiet

\* The rows that a pass of handleRecurrence leaves: those that it had, some of the finished
\* ones without their recurrence, and a successor for each that it fed.
LEMMA FanoutRows ==
    ASSUME NEW s \in Seq(Row), NEW fed \in SUBSET Recurring(s), NEW cleared \in SUBSET fed
    PROVE  /\ Fanout(s, fed, cleared) \in Seq(Row) /\ Cardinality(fed) \in Nat
           /\ Len(Fanout(s, fed, cleared)) = Len(s) + Cardinality(fed)
           /\ DOMAIN Fanout(s, fed, cleared) = 1 .. (Len(s) + Cardinality(fed))
           /\ \A i \in DOMAIN s :
                 /\ i \in DOMAIN Fanout(s, fed, cleared)
                 /\ i \in cleared => Fanout(s, fed, cleared)[i] = [s[i] EXCEPT !.rec = FALSE]
                 /\ i \notin cleared => Fanout(s, fed, cleared)[i] = s[i]
           /\ \A i \in DOMAIN Fanout(s, fed, cleared) \ DOMAIN s : Fanout(s, fed, cleared)[i] = Successor(s)
<1>. DEFINE n == Cardinality(fed)
            tail == [k \in 1 .. n |-> Successor(s)]
<1>1. DOMAIN s = 1 .. Len(s) /\ Len(s) \in Nat
  BY LenProperties
<1>2. n \in Nat
  BY PositionsFinite DEF Recurring
<1>3. Successor(s) \in Row
  BY DEF Successor, Row
<1>4. tail \in Seq(Row) /\ Len(tail) = n
  <2>1. tail \in [1 .. n -> Row]
    BY <1>3
  <2>. HIDE DEF n, tail
  <2>. QED
    BY <1>2, <2>1, FunctionIsSeq
<1>5. \A i \in DOMAIN s : Cleared(s, cleared)[i] \in Row
  <2>. SUFFICES ASSUME NEW i \in DOMAIN s PROVE Cleared(s, cleared)[i] \in Row
    OBVIOUS
  <2>1. s[i] \in Row
    BY RowTyped
  <2>2. [s[i] EXCEPT !.rec = FALSE] \in Row
    BY <2>1 DEF Row
  <2>. QED
    BY <2>1, <2>2, Zenon DEF Cleared
<1>6. Cleared(s, cleared) \in Seq(Row) /\ Len(Cleared(s, cleared)) = Len(s) /\ DOMAIN Cleared(s, cleared) = DOMAIN s
  <2>1. Cleared(s, cleared) = [i \in DOMAIN s |-> Cleared(s, cleared)[i]]
    BY DEF Cleared
  <2>. QED
    BY <1>5, <2>1, InPlace, Zenon
<1>7. Fanout(s, fed, cleared) = Cleared(s, cleared) \o tail
  BY DEF Fanout
<1>. HIDE DEF n, tail
<1>8. /\ Fanout(s, fed, cleared) \in Seq(Row) /\ Len(Fanout(s, fed, cleared)) = Len(s) + n
      /\ \A i \in 1 .. Len(Fanout(s, fed, cleared)) :
            Fanout(s, fed, cleared)[i] = IF i <= Len(s) THEN Cleared(s, cleared)[i] ELSE tail[i - Len(s)]
  BY <1>1, <1>4, <1>6, <1>7, ConcatProperties
<1>9. DOMAIN Fanout(s, fed, cleared) = 1 .. (Len(s) + n)
  BY <1>8, LenProperties
<1>10. \A i \in DOMAIN s : i \in DOMAIN Fanout(s, fed, cleared) /\ Fanout(s, fed, cleared)[i] = Cleared(s, cleared)[i]
  BY <1>1, <1>2, <1>8, <1>9
<1>11. \A i \in DOMAIN Fanout(s, fed, cleared) \ DOMAIN s : Fanout(s, fed, cleared)[i] = Successor(s)
  <2>. SUFFICES ASSUME NEW i \in DOMAIN Fanout(s, fed, cleared), i \notin DOMAIN s
                PROVE  Fanout(s, fed, cleared)[i] = Successor(s)
    OBVIOUS
  <2>1. i \in Int /\ i > Len(s) /\ i <= Len(s) + n /\ i - Len(s) \in 1 .. n
    BY <1>1, <1>2, <1>9
  <2>2. Fanout(s, fed, cleared)[i] = tail[i - Len(s)]
    BY <1>1, <1>2, <1>8, <1>9, <2>1
  <2>. QED
    BY <2>1, <2>2 DEF tail
<1>12. \A i \in DOMAIN s :
          /\ i \in cleared => Cleared(s, cleared)[i] = [s[i] EXCEPT !.rec = FALSE]
          /\ i \notin cleared => Cleared(s, cleared)[i] = s[i]
  BY DEF Cleared
<1>. QED
  BY <1>2, <1>8, <1>9, <1>10, <1>11, <1>12, Zenon DEF n

\* The re-arm of a sweep, whatever fails in it.
LEMMA RecurInvariant == ASSUME Invariant, SweepRecur PROVE Invariant'
<1>1. /\ rows \in Seq(Row) /\ Len(rows) \in Nat /\ DOMAIN rows = 1 .. Len(rows)
      /\ MaxRows \in Nat /\ FailCap \in Nat /\ burn \in Nat
      /\ faults \in 0 .. MaxFaults /\ MaxFaults \in Nat
  BY BoundAssumption, LenProperties DEF Invariant, TypeOK
<1>2. PICK fed \in SUBSET Recurring(rows) : \E cleared \in SUBSET fed :
          /\ faults' = faults + Cardinality(Recurring(rows) \ cleared) /\ faults' <= MaxFaults
          /\ Len(rows) + Cardinality(ToCome) + Cardinality(fed \ cleared) <= MaxRows
          /\ rows' = Fanout(rows, fed, cleared)
          /\ forked' = (forked \/ cleared # fed)
          /\ session' = IF ~running /\ Spent(rows') THEN "closed" ELSE session
          /\ ended' = (ended \/ (session' = "closed" /\ fed # Recurring(rows)))
  BY DEF SweepRecur
<1>. PICK cleared \in SUBSET fed :
          /\ faults' = faults + Cardinality(Recurring(rows) \ cleared) /\ faults' <= MaxFaults
          /\ Len(rows) + Cardinality(ToCome) + Cardinality(fed \ cleared) <= MaxRows
          /\ rows' = Fanout(rows, fed, cleared)
          /\ forked' = (forked \/ cleared # fed)
          /\ session' = IF ~running /\ Spent(rows') THEN "closed" ELSE session
          /\ ended' = (ended \/ (session' = "closed" /\ fed # Recurring(rows)))
  BY <1>2
<1>. DEFINE n == Cardinality(fed)
<1>0. /\ sweep' = "idle" /\ session' \in {"closed", session}
      /\ UNCHANGED <<running, read, stopped, burn>>
      /\ forked' \in BOOLEAN /\ ended' \in BOOLEAN
      /\ ~forked' => ~forked /\ cleared = fed
  <2>1. sweep' = "idle" /\ UNCHANGED <<running, read, stopped, burn>>
    BY DEF SweepRecur
  <2>2. session' \in {"closed", session}
    OBVIOUS
  <2>3. forked \in BOOLEAN /\ ended \in BOOLEAN
    BY DEF Invariant, TypeOK
  <2>4. forked' \in BOOLEAN /\ (~forked' => ~forked /\ cleared = fed)
    BY <2>3, Zenon
  <2>5. ended' \in BOOLEAN
    BY <2>3, Zenon
  <2>. QED
    BY <2>1, <2>2, <2>4, <2>5
<1>3. /\ rows' \in Seq(Row) /\ n \in Nat /\ Len(rows') = Len(rows) + n
      /\ DOMAIN rows' = 1 .. (Len(rows) + n)
      /\ \A i \in DOMAIN rows :
            /\ i \in DOMAIN rows'
            /\ i \in cleared => rows'[i] = [rows[i] EXCEPT !.rec = FALSE]
            /\ i \notin cleared => rows'[i] = rows[i]
      /\ \A i \in DOMAIN rows' \ DOMAIN rows : rows'[i] = Successor(rows)
  <2>. DEFINE f == Fanout(rows, fed, cleared)
  <2>1. /\ f \in Seq(Row) /\ n \in Nat /\ Len(f) = Len(rows) + n
        /\ DOMAIN f = 1 .. (Len(rows) + n)
        /\ \A i \in DOMAIN rows :
              /\ i \in DOMAIN f
              /\ i \in cleared => f[i] = [rows[i] EXCEPT !.rec = FALSE]
              /\ i \notin cleared => f[i] = rows[i]
        /\ \A i \in DOMAIN f \ DOMAIN rows : f[i] = Successor(rows)
    <3>1. rows \in Seq(Row) /\ fed \in SUBSET Recurring(rows) /\ cleared \in SUBSET fed
      BY <1>1
    <3>. QED
      BY ONLY <3>1, FanoutRows, Zenon DEF n, f
  <2>2. rows' = f
    OBVIOUS
  <2>. HIDE DEF f, n
  <2>. QED
    BY <2>1, <2>2, Zenon
<1>. HIDE DEF n
<1>4. \A i \in DOMAIN rows :
         /\ rows'[i].status = rows[i].status /\ rows'[i].ack = rows[i].ack
         /\ rows'[i].rec <=> (rows[i].rec /\ i \notin cleared)
  <2>. SUFFICES ASSUME NEW i \in DOMAIN rows
                PROVE  /\ rows'[i].status = rows[i].status /\ rows'[i].ack = rows[i].ack
                       /\ rows'[i].rec <=> (rows[i].rec /\ i \notin cleared)
    OBVIOUS
  <2>1. rows[i] \in Row
    BY <1>1, RowTyped
  <2>2. CASE i \in cleared
    BY <1>3, <2>1, <2>2 DEF Row
  <2>3. CASE i \notin cleared
    BY <1>3, <2>3
  <2>. QED
    BY <2>2, <2>3
<1>5. /\ Successor(rows).rec /\ Successor(rows).ack = "none" /\ Live(Successor(rows))
      /\ Successor(rows).status = "pending" => ~(Streak(rows) >= FailCap)
      /\ Successor(rows).status \in {"pending", "paused"}
  BY DEF Successor, Live
<1>6. ToCome' = ToCome \ cleared
  <2>1. \A i \in DOMAIN rows \ cleared : rows'[i] = rows[i]
    BY <1>3
  <2>2. \A i \in cleared : i \in DOMAIN rows /\ ~rows'[i].rec /\ ~Live(rows'[i])
    BY <1>4 DEF Recurring, Live, Finished
  <2>3. \A i \in DOMAIN rows' \ DOMAIN rows : ~Finished(rows'[i]) /\ ~InHand(rows'[i])
    BY <1>3, <1>5 DEF Finished, InHand, Live
  <2>4. DOMAIN rows \subseteq DOMAIN rows' /\ read' = read /\ read \subseteq DOMAIN rows
    BY <1>0, <1>3 DEF Invariant, TypeOK
  <2>. QED
    BY <2>1, <2>2, <2>3, <2>4 DEF ToCome, InHand
<1>7. Fits' /\ Len(rows') <= MaxRows
  <2>1. /\ cleared \subseteq ToCome /\ ToCome \subseteq DOMAIN rows
        /\ fed \subseteq DOMAIN rows
    BY DEF Recurring, ToCome
  <2>2. /\ IsFiniteSet(ToCome) /\ Cardinality(ToCome) \in Nat
        /\ IsFiniteSet(fed) /\ IsFiniteSet(cleared)
        /\ Cardinality(cleared) \in Nat /\ Cardinality(fed \ cleared) \in Nat
        /\ IsFiniteSet(ToCome') /\ Cardinality(ToCome') \in Nat
    BY <1>1, <1>6, <2>1, PositionsFinite
  <2>3. /\ Cardinality(ToCome') = Cardinality(ToCome) - Cardinality(ToCome \cap cleared)
        /\ Cardinality(fed \ cleared) = n - Cardinality(fed \cap cleared)
    BY <1>6, <2>2, FS_Difference DEF n
  <2>4. ToCome \cap cleared = cleared /\ fed \cap cleared = cleared
    BY <2>1
  <2>5. /\ Cardinality(ToCome') = Cardinality(ToCome) - Cardinality(cleared)
        /\ Cardinality(fed \ cleared) = n - Cardinality(cleared)
    BY <2>3, <2>4
  <2>6. Len(rows) + Cardinality(ToCome) + Cardinality(fed \ cleared) <= MaxRows
    OBVIOUS
  <2>7. Len(rows') + Cardinality(ToCome') <= MaxRows
    BY <1>1, <1>3, <2>2, <2>5, <2>6
  <2>8. Len(rows') <= MaxRows
    BY <1>1, <1>3, <2>2, <2>7
  <2>. QED
    BY <2>7, <2>8 DEF Fits
<1>8. TypeOK'
  <2>1. \A i \in DOMAIN rows' : rows'[i].status = "cancelled" => ~rows'[i].rec
    BY <1>3, <1>4, <1>5 DEF Invariant, TypeOK
  <2>2. session' \in {"active", "closed"}
    BY <1>0 DEF Invariant, TypeOK
  <2>3. faults' \in 0 .. MaxFaults
    <3>1. Cardinality(Recurring(rows) \ cleared) \in Nat
      BY <1>1, PositionsFinite DEF Recurring
    <3>. QED
      BY <1>1, <3>1
  <2>4. read' \subseteq DOMAIN rows' /\ \A i \in read' : rows'[i].ack = "none"
    BY <1>0, <1>3, <1>4 DEF Invariant, TypeOK
  <2>. QED
    BY <1>0, <1>3, <1>7, <2>1, <2>2, <2>3, <2>4 DEF Invariant, TypeOK
<1>9. Quiet'
  <2>. SUFFICES ASSUME stopped = "idle" PROVE Quiet'
    BY <1>0 DEF Quiet
  <2>1. ToCome = {} /\ \A i \in DOMAIN rows : rows[i].status # "pending"
    BY DEF Invariant, Quiet
  <2>2. fed = {}
    BY <2>1 DEF Recurring, ToCome
  <2>3. n = 0
    BY <2>2, FS_EmptySet DEF n
  <2>4. DOMAIN rows' = DOMAIN rows
    BY <1>1, <1>3, <2>3
  <2>. QED
    BY <1>4, <1>6, <2>1, <2>4 DEF Quiet
<1>10. OneRec' /\ Capped'
  <2>. SUFFICES ASSUME ~forked' PROVE OneRec' /\ Capped'
    BY DEF OneRec, Capped
  <2>0. ~forked /\ cleared = fed
    BY <1>0
  <2>1. \A i, j \in DOMAIN rows : rows[i].rec /\ rows[j].rec => i = j
    BY <2>0 DEF Invariant, OneRec
  <2>2. /\ burn <= FailCap
        /\ \A i \in DOMAIN rows : rows[i].rec => burn <= Streak(rows)
        /\ \A i \in DOMAIN rows :
              /\ rows[i].rec /\ Live(rows[i])
              /\ rows[i].status = "pending" \/ rows[i].ack # "none" \/ i \in read
              => burn < FailCap
    BY <2>0 DEF Invariant, Capped
  <2>3. Late(rows) \subseteq Late(rows')
    <3>1. \A i \in DOMAIN rows' : i \notin DOMAIN rows => rows'[i].status # "completed"
      BY <1>3, <1>5
    <3>. QED
      BY <1>3, <1>4, <3>1 DEF Late
  <2>4. Streak(rows) \in Nat /\ Streak(rows') \in Nat /\ Streak(rows) <= Streak(rows')
    BY <1>1, <1>3, <2>3, StreakKeeps
  <2>5. CASE fed = {}
    <3>1. n = 0
      BY <2>5, FS_EmptySet DEF n
    <3>2. DOMAIN rows' = DOMAIN rows /\ \A i \in DOMAIN rows : rows'[i] = rows[i]
      <4>1. cleared = {}
        BY <2>5
      <4>2. DOMAIN rows' = 1 .. Len(rows)
        BY <1>1, <1>3, <3>1
      <4>. QED
        BY <1>1, <1>3, <4>1, <4>2
    <3>3. OneRec'
      BY <2>1, <3>2 DEF OneRec
    <3>4. Capped'
      BY <1>0, <1>1, <2>2, <2>4, <3>2 DEF Capped
    <3>. QED
      BY <3>3, <3>4
  <2>6. ASSUME NEW r \in fed PROVE OneRec' /\ Capped'
    <3>1. r \in DOMAIN rows /\ rows[r].rec
      BY <2>6 DEF Recurring
    <3>2. fed = {r}
      BY <2>1, <2>6, <3>1 DEF Recurring
    <3>3. n = 1
      BY <3>2, FS_Singleton DEF n
    <3>4. \A i \in DOMAIN rows' : rows'[i].rec => i = Len(rows) + 1 /\ rows'[i] = Successor(rows)
      <4>1. \A i \in DOMAIN rows : ~rows'[i].rec
        BY <1>4, <2>0, <2>1, <3>1, <3>2
      <4>2. \A i \in DOMAIN rows' : i \notin DOMAIN rows => i = Len(rows) + 1
        BY <1>1, <1>3, <3>3
      <4>. QED
        BY <1>3, <4>1, <4>2
    <3>5. OneRec'
      BY <3>4 DEF OneRec
    <3>6. burn <= Streak(rows) /\ burn <= Streak(rows')
      BY <1>1, <2>2, <2>4, <3>1
    <3>7. \A i \in DOMAIN rows' :
             /\ rows'[i].rec
             /\ rows'[i].status = "pending" \/ rows'[i].ack # "none" \/ i \in read'
             => burn < FailCap
      <4>1. Len(rows) + 1 \notin read'
        BY <1>0, <1>1 DEF Invariant, TypeOK
      <4>. QED
        BY <1>1, <1>5, <2>4, <3>4, <3>6, <4>1
    <3>8. Capped'
      BY <1>0, <2>2, <3>6, <3>7 DEF Capped
    <3>. QED
      BY <3>5, <3>8
  <2>. QED
    BY <2>5, <2>6
<1>. QED
  BY <1>7, <1>8, <1>9, <1>10 DEF Invariant

\* The steps of the container change what is read and in hand only.
LEMMA ContainerInvariant ==
    ASSUME Invariant,
           \/ Spawn \/ Read \/ Claim \/ Exit \/ SweepThrows \/ UNCHANGED vars
           \/ \E i \in DOMAIN rows : Answer(i)
    PROVE  Invariant'
<1>1. rows \in Seq(Row) /\ Len(rows) \in Nat /\ MaxRows \in Nat
  BY LenProperties, BoundAssumption DEF Invariant, TypeOK
<1>2. \A i \in DOMAIN rows : rows[i] \in Row
  BY <1>1, RowTyped
<1>0. /\ read \subseteq DOMAIN rows /\ \A i \in read : rows[i].ack = "none"
      /\ read # {} => running
  BY DEF Invariant, TypeOK
<1>3. ASSUME rows' = rows, session' = session, running' \in BOOLEAN, read' \subseteq read,
             read' # {} => running',
             sweep' \in {"idle", "synced", "checked"}, faults' = faults, UNCHANGED history
      PROVE  Invariant'
  <2>1. ToCome' \subseteq ToCome
    BY <1>3 DEF ToCome, InHand
  <2>2. Fits' /\ Len(rows') <= MaxRows
    BY <1>1, <1>3, <2>1, FewerToCome
  <2>3. \A i \in read' : i \in DOMAIN rows /\ rows'[i].ack = "none"
    BY <1>0, <1>3
  <2>. QED
    BY <1>1, <1>3, <2>2, <2>3, HandInvariant
<1>4. CASE Spawn
  <2>. DEFINE spawned == [i \in DOMAIN rows |->
                  IF rows[i].ack = "processing" THEN [rows[i] EXCEPT !.ack = "none"] ELSE rows[i]]
  <2>1. /\ rows' = spawned /\ running' = TRUE /\ ~running
        /\ UNCHANGED <<session, read, sweep, faults, history>>
    BY <1>4 DEF Spawn
  <2>2. \A i \in DOMAIN rows :
           /\ rows'[i] \in Row
           /\ rows'[i].status = rows[i].status /\ rows'[i].rec = rows[i].rec
           /\ rows'[i].ack # "none" => rows'[i] = rows[i]
    BY <1>2, <2>1 DEF Row
  <2>3. rows' = [i \in DOMAIN rows |-> rows'[i]]
    BY <2>1
  <2>4. rows' \in Seq(Row) /\ Len(rows') = Len(rows) /\ DOMAIN rows' = DOMAIN rows
    BY <1>1, <2>2, <2>3, InPlace, Zenon
  <2>5. ToCome' \subseteq ToCome
    <3>1. read' = read
      BY <2>1
    <3>. QED
      BY <2>2, <2>4, <3>1 DEF ToCome, InHand, Finished, Live
  <2>6. Fits' /\ Len(rows') <= MaxRows
    BY <2>4, <2>5, FewerToCome
  <2>7. running' \in BOOLEAN /\ sweep' \in {"idle", "synced", "checked"}
    BY <2>1 DEF Invariant, TypeOK
  <2>8. session' = session /\ faults' = faults /\ read' = {} /\ UNCHANGED history
    BY <1>0, <2>1
  <2>9. \A i \in DOMAIN rows :
           /\ rows'[i].status = rows[i].status /\ rows'[i].rec = rows[i].rec
           /\ rows'[i].ack # "none" \/ i \in read' =>
                 rows[i].ack # "none" \/ rows[i].status = "pending" \/ i \in read
    BY <2>2, <2>8
  <2>. QED
    BY <2>4, <2>6, <2>7, <2>8, <2>9, HandInvariant
<1>5. CASE Exit
  BY <1>3, <1>5 DEF Exit, Invariant, TypeOK
<1>6. CASE SweepThrows
  BY <1>3, <1>6 DEF SweepThrows, Invariant, TypeOK
<1>7. CASE UNCHANGED vars
  BY <1>3, <1>7 DEF vars, Invariant, TypeOK
<1>8. CASE Read
  <2>1. /\ read' \subseteq {i \in DOMAIN rows : rows[i].status = "pending" /\ rows[i].ack = "none"}
        /\ Len(rows) + Cardinality(ToCome \cup read') <= MaxRows
        /\ running /\ rows' = rows /\ UNCHANGED <<session, running, sweep, faults, history>>
    BY <1>8 DEF Read
  <2>2. ToCome' \subseteq ToCome \cup read' /\ ToCome \cup read' \subseteq DOMAIN rows
    BY <2>1 DEF ToCome, InHand
  <2>3. /\ IsFiniteSet(ToCome \cup read') /\ Cardinality(ToCome \cup read') \in Nat
    BY <1>1, <2>2, PositionsFinite
  <2>4. Cardinality(ToCome') <= Cardinality(ToCome \cup read') /\ Cardinality(ToCome') \in Nat
    BY <2>2, <2>3, FS_Subset, FS_CardinalityType
  <2>5. Fits' /\ Len(rows') <= MaxRows
    BY <1>1, <2>1, <2>3, <2>4 DEF Fits
  <2>6. /\ running' \in BOOLEAN /\ sweep' \in {"idle", "synced", "checked"} /\ running'
    BY <2>1 DEF Invariant, TypeOK
  <2>7. \A i \in read' : i \in DOMAIN rows /\ rows'[i].ack = "none" /\ rows[i].status = "pending"
    BY <2>1
  <2>. QED
    BY <1>1, <2>1, <2>5, <2>6, <2>7, HandInvariant
<1>9. CASE Claim
  <2>. DEFINE claimed == [i \in DOMAIN rows |-> IF i \in read THEN [rows[i] EXCEPT !.ack = "processing"]
                                                           ELSE rows[i]]
  <2>1. rows' = claimed /\ read' = {} /\ UNCHANGED <<session, running, sweep, faults, history>>
    BY <1>9 DEF Claim
  <2>2. \A i \in DOMAIN rows :
           /\ rows'[i] \in Row
           /\ rows'[i].status = rows[i].status /\ rows'[i].rec = rows[i].rec
           /\ i \notin read => rows'[i] = rows[i]
    BY <1>2, <2>1 DEF Row
  <2>3. rows' = [i \in DOMAIN rows |-> rows'[i]]
    BY <2>1
  <2>4. rows' \in Seq(Row) /\ Len(rows') = Len(rows) /\ DOMAIN rows' = DOMAIN rows
    BY <1>1, <2>2, <2>3, InPlace, Zenon
  <2>5. ToCome' \subseteq ToCome
    BY <2>1, <2>2, <2>4 DEF ToCome, InHand, Finished, Live
  <2>6. Fits' /\ Len(rows') <= MaxRows
    BY <2>4, <2>5, FewerToCome
  <2>7. running' \in BOOLEAN /\ sweep' \in {"idle", "synced", "checked"}
    BY <2>1 DEF Invariant, TypeOK
  <2>8. \A i \in DOMAIN rows :
           /\ rows'[i].status = rows[i].status /\ rows'[i].rec = rows[i].rec
           /\ rows'[i].ack # "none" \/ i \in read' =>
                 rows[i].ack # "none" \/ rows[i].status = "pending" \/ i \in read
    BY <2>1, <2>2
  <2>. QED
    BY <2>1, <2>4, <2>6, <2>7, <2>8, HandInvariant
<1>10. ASSUME NEW i \in DOMAIN rows, Answer(i) PROVE Invariant'
  <2>1. PICK ack \in {"completed", "error"} :
            /\ rows' = [rows EXCEPT ![i].ack = ack]
            /\ rows[i].ack = "processing"
            /\ UNCHANGED <<session, running, read, sweep, faults, history>>
    BY <1>10 DEF Answer
  <2>2. /\ rows' = [k \in DOMAIN rows |-> rows'[k]]
        /\ \A k \in DOMAIN rows : k # i => rows'[k] = rows[k]
        /\ rows'[i] = [rows[i] EXCEPT !.ack = ack]
    BY <2>1
  <2>3. [rows[i] EXCEPT !.ack = ack] \in Row
    BY <1>2 DEF Row
  <2>4. /\ rows' \in Seq(Row) /\ Len(rows') = Len(rows) /\ DOMAIN rows' = DOMAIN rows
    BY <1>1, <1>2, <2>2, <2>3, InPlace, Zenon
  <2>5. rows'[i].status = rows[i].status /\ rows'[i].rec = rows[i].rec
    BY <1>2, <2>2 DEF Row
  <2>6. \A k \in DOMAIN rows :
           /\ rows'[k].status = rows[k].status /\ rows'[k].rec = rows[k].rec
           /\ rows'[k].ack # "none" \/ k \in read' =>
                 rows[k].ack # "none" \/ rows[k].status = "pending" \/ k \in read
    BY <2>1, <2>2, <2>5
  <2>7. ToCome' \subseteq ToCome
    BY <2>1, <2>2, <2>4, <2>5 DEF ToCome, InHand, Finished, Live
  <2>8. Fits' /\ Len(rows') <= MaxRows
    BY <2>4, <2>7, FewerToCome
  <2>9. /\ running' \in BOOLEAN /\ sweep' \in {"idle", "synced", "checked"}
        /\ read' # {} => running'
    BY <1>0, <2>1 DEF Invariant, TypeOK
  <2>10. \A k \in read' : k \in DOMAIN rows /\ rows'[k].ack = "none"
    BY <1>0, <2>1, <2>2
  <2>. QED
    BY <2>1, <2>4, <2>6, <2>8, <2>9, <2>10, HandInvariant
<1>. QED
  BY <1>4, <1>5, <1>6, <1>7, <1>8, <1>9, <1>10

\* The two settling steps of the sweep.
LEMMA SweepSettles == ASSUME Invariant, SweepSync \/ SweepReset PROVE Invariant'
<1>1. rows \in Seq(Row)
  BY DEF Invariant, TypeOK
<1>2. \A i \in DOMAIN rows : rows[i] \in Row
  BY <1>1, RowTyped
<1>3. CASE SweepSync
  <2>. DEFINE synced == [i \in DOMAIN rows |->
                  IF Finished(rows[i]) THEN rows[i]
                  ELSE CASE rows[i].ack = "completed" -> [rows[i] EXCEPT !.status = "completed"]
                         [] rows[i].ack = "error" -> [rows[i] EXCEPT !.status = "failed"]
                         [] OTHER -> rows[i]]
  <2>1. /\ rows' = synced /\ Burn(rows') /\ sweep' = "synced"
        /\ UNCHANGED <<session, running, read, faults, forked, stopped, ended>>
    BY <1>3 DEF SweepSync
  <2>2. \A i \in DOMAIN rows :
           \/ rows'[i] = rows[i]
           \/ /\ ~Finished(rows[i]) /\ rows[i].ack # "none"
              /\ \/ rows'[i] = [rows[i] EXCEPT !.status = "completed"]
                 \/ rows'[i] = [rows[i] EXCEPT !.status = "failed"]
    BY <2>1
  <2>3. rows' = [i \in DOMAIN rows |-> rows'[i]]
    BY <2>1
  <2>. HIDE DEF synced
  <2>4. \A i \in DOMAIN rows :
           /\ rows'[i] \in Row
           /\ rows'[i].rec = rows[i].rec
           /\ rows'[i].status # rows[i].status =>
                 ~Finished(rows[i]) /\ Finished(rows'[i]) /\ rows[i].ack # "none"
           /\ rows'[i].ack # "none" => rows[i].ack # "none"
    BY <1>2, <2>2 DEF Row, Finished
  <2>5. rows' \in Seq(Row) /\ Len(rows') = Len(rows) /\ DOMAIN rows' = DOMAIN rows
    BY <1>1, <2>3, <2>4, InPlace, Zenon
  <2>. QED
    BY <2>1, <2>4, <2>5, SettleInvariant
<1>4. CASE SweepReset
  <2>1. PICK spent \in SUBSET {i \in DOMAIN rows :
                                  rows[i].ack = "processing" /\ rows[i].status = "pending"} :
            rows' = IF running THEN rows
                    ELSE [i \in DOMAIN rows |->
                          [status |-> IF i \in spent THEN "failed" ELSE rows[i].status,
                           rec |-> rows[i].rec,
                           ack |-> IF rows[i].ack = "processing" THEN "none" ELSE rows[i].ack]]
    BY <1>4 DEF SweepReset
  <2>2. /\ Burn(rows') /\ sweep' = "checked"
        /\ UNCHANGED <<session, running, read, faults, forked, stopped, ended>>
    BY <1>4 DEF SweepReset
  <2>3. rows' = [i \in DOMAIN rows |-> rows'[i]]
    <3>1. CASE running
      BY <1>1, <2>1, <3>1
    <3>2. CASE ~running
      BY <2>1, <3>2
    <3>. QED
      BY <3>1, <3>2
  <2>4. \A i \in DOMAIN rows :
           \/ rows'[i] = rows[i]
           \/ /\ rows'[i] = [status |-> IF i \in spent THEN "failed" ELSE rows[i].status,
                             rec |-> rows[i].rec,
                             ack |-> IF rows[i].ack = "processing" THEN "none" ELSE rows[i].ack]
              /\ i \in spent => rows[i].ack = "processing" /\ rows[i].status = "pending"
    BY <2>1
  <2>5. \A i \in DOMAIN rows :
           /\ rows'[i] \in Row
           /\ rows'[i].rec = rows[i].rec
           /\ rows'[i].status # rows[i].status =>
                 ~Finished(rows[i]) /\ Finished(rows'[i]) /\ rows[i].ack # "none"
           /\ rows'[i].ack # "none" => rows[i].ack # "none"
    <3>. TAKE i \in DOMAIN rows
    <3>1. CASE rows'[i] = rows[i]
      BY <1>2, <3>1
    <3>2. CASE rows'[i] # rows[i]
      <4>1. rows'[i] = [status |-> IF i \in spent THEN "failed" ELSE rows[i].status,
                        rec |-> rows[i].rec,
                        ack |-> IF rows[i].ack = "processing" THEN "none" ELSE rows[i].ack]
        BY <2>4, <3>2
      <4>2. i \in spent => rows[i].ack = "processing" /\ rows[i].status = "pending"
        BY <2>4, <3>2
      <4>3. /\ rows[i].status \in {"pending", "paused", "completed", "failed", "cancelled"}
            /\ rows[i].rec \in BOOLEAN
            /\ rows[i].ack \in {"none", "processing", "completed", "error"}
        BY <1>1, RowTyped
      <4>4. /\ rows'[i].status = IF i \in spent THEN "failed" ELSE rows[i].status
            /\ rows'[i].rec = rows[i].rec
            /\ rows'[i].ack = IF rows[i].ack = "processing" THEN "none" ELSE rows[i].ack
        BY <4>1
      <4>5. rows'[i] \in Row
        BY <4>1, <4>3 DEF Row
      <4>. QED
        BY <4>2, <4>4, <4>5 DEF Finished
    <3>. QED
      BY <3>1, <3>2
  <2>6. rows' \in Seq(Row) /\ Len(rows') = Len(rows) /\ DOMAIN rows' = DOMAIN rows
    BY <1>1, <2>3, <2>5, InPlace, Zenon
  <2>. QED
    BY <2>2, <2>5, <2>6, SettleInvariant
<1>. QED
  BY <1>3, <1>4

\* The commands that work on the rows in place, and the delete.
LEMMA CommandInvariant == ASSUME Invariant, Command PROVE Invariant'
<1>1. rows \in Seq(Row)
  BY DEF Invariant, TypeOK
<1>2. \A i \in DOMAIN rows : rows[i] \in Row
  BY <1>1, RowTyped
<1>3. CASE Cancel
  <2>1. /\ rows' = [i \in DOMAIN rows |->
                  IF Live(rows[i]) THEN [rows[i] EXCEPT !.status = "cancelled", !.rec = FALSE]
                                   ELSE rows[i]]
        /\ Stopped /\ UNCHANGED <<session, running, read, sweep, faults, forked, burn, ended>>
    BY <1>3 DEF Cancel
  <2>2. rows' = [i \in DOMAIN rows |-> rows'[i]]
    BY <2>1
  <2>3. \A i \in DOMAIN rows :
           /\ rows'[i] \in Row
           /\ rows'[i].ack = rows[i].ack /\ (rows'[i].rec => rows[i].rec)
           /\ \/ (rows'[i].status = "cancelled" /\ ~rows'[i].rec /\ Live(rows[i]))
              \/ (rows'[i] = rows[i] /\ rows[i].status # "pending")
    BY <1>2, <2>1 DEF Row, Live
  <2>4. rows' \in Seq(Row) /\ Len(rows') = Len(rows) /\ DOMAIN rows' = DOMAIN rows
    BY <1>1, <2>2, <2>3, InPlace, Zenon
  <2>. QED
    BY <2>1, <2>3, <2>4, StopInvariant
<1>4. CASE Pause
  <2>1. /\ rows' = [i \in DOMAIN rows |->
                  IF rows[i].status = "pending" THEN [rows[i] EXCEPT !.status = "paused"]
                                                ELSE rows[i]]
        /\ Stopped /\ UNCHANGED <<session, running, read, sweep, faults, forked, burn, ended>>
    BY <1>4 DEF Pause
  <2>2. rows' = [i \in DOMAIN rows |-> rows'[i]]
    BY <2>1
  <2>3. \A i \in DOMAIN rows :
           /\ rows'[i] \in Row
           /\ rows'[i].ack = rows[i].ack /\ (rows'[i].rec => rows[i].rec)
           /\ \/ (rows'[i].status = "paused" /\ rows'[i].rec = rows[i].rec /\ rows[i].status = "pending")
              \/ (rows'[i] = rows[i] /\ rows[i].status # "pending")
    BY <1>2, <2>1 DEF Row
  <2>4. rows' \in Seq(Row) /\ Len(rows') = Len(rows) /\ DOMAIN rows' = DOMAIN rows
    BY <1>1, <2>2, <2>3, InPlace, Zenon
  <2>. QED
    BY <2>1, <2>3, <2>4, StopInvariant
<1>5. CASE Resume
  <2>1. /\ rows' = [i \in DOMAIN rows |->
                  IF rows[i].status = "paused" THEN [rows[i] EXCEPT !.status = "pending"]
                                               ELSE rows[i]]
        /\ stopped' = "no" /\ burn' = 0
        /\ UNCHANGED <<session, running, read, sweep, faults, forked, ended>>
    BY <1>5 DEF Resume
  <2>2. rows' = [i \in DOMAIN rows |-> rows'[i]]
    BY <2>1
  <2>3. \A i \in DOMAIN rows :
           /\ rows'[i] \in Row
           /\ rows'[i].ack = rows[i].ack /\ rows'[i].rec = rows[i].rec
           /\ Live(rows'[i]) <=> Live(rows[i])
           /\ ~Live(rows[i]) => rows'[i] = rows[i]
    BY <1>2, <2>1 DEF Row, Live
  <2>4. rows' \in Seq(Row) /\ Len(rows') = Len(rows) /\ DOMAIN rows' = DOMAIN rows
    BY <1>1, <2>2, <2>3, InPlace, Zenon
  <2>5. ~forked' => \A i, j \in DOMAIN rows : rows'[i].rec /\ rows'[j].rec => i = j
    BY <2>1, <2>3 DEF Invariant, OneRec
  <2>6. forked' \in BOOLEAN
    BY <2>1 DEF Invariant, TypeOK
  <2>. QED
    BY <2>1, <2>3, <2>4, <2>5, <2>6, FreshInvariant
<1>6. ASSUME NEW rec \in BOOLEAN, SetRecurrence(rec) PROVE Invariant'
  <2>1. /\ rows' = [i \in DOMAIN rows |->
                  IF Live(rows[i]) THEN [rows[i] EXCEPT !.rec = rec]
                                   ELSE rows[i]]
        /\ forked' = (forked \/ Cardinality(Armed(rows')) > 1)
        /\ burn' = 0
        /\ UNCHANGED <<session, running, read, sweep, faults, stopped, ended>>
    BY <1>6 DEF SetRecurrence
  <2>2. rows' = [i \in DOMAIN rows |-> rows'[i]]
    BY <2>1
  <2>3. \A i \in DOMAIN rows :
           /\ rows'[i] \in Row
           /\ rows'[i].ack = rows[i].ack /\ rows'[i].status = rows[i].status
           /\ ~Live(rows[i]) => rows'[i] = rows[i]
    BY <1>2, <2>1 DEF Row
  <2>4. rows' \in Seq(Row) /\ Len(rows') = Len(rows) /\ DOMAIN rows' = DOMAIN rows
    BY <1>1, <2>2, <2>3, InPlace, Zenon
  <2>5. Armed(rows') \subseteq DOMAIN rows'
    BY DEF Armed
  <2>6. IsFiniteSet(Armed(rows')) /\ Cardinality(Armed(rows')) \in Nat
    BY <2>4, <2>5, PositionsFinite
  <2>7. ~forked' => \A i, j \in DOMAIN rows : rows'[i].rec /\ rows'[j].rec => i = j
    <3>. SUFFICES ASSUME ~forked' PROVE \A i, j \in Armed(rows') : i = j
      BY <2>4 DEF Armed
    <3>1. ~(Cardinality(Armed(rows')) > 1)
      BY <2>1, Zenon
    <3>2. Cardinality(Armed(rows')) <= 1
      BY <2>6, <3>1
    <3>. QED
      BY <2>6, <3>2, AtMostOneElement
  <2>8. forked' \in BOOLEAN
    BY <2>1, <2>7
  <2>9. stopped' \in {"no", "busy", "idle"}
    BY <2>1 DEF Invariant, TypeOK
  <2>10. \A i \in DOMAIN rows : Live(rows'[i]) <=> Live(rows[i])
    BY <2>3 DEF Live
  <2>. QED
    BY <2>1, <2>3, <2>4, <2>7, <2>8, <2>9, <2>10, FreshInvariant
<1>7. CASE DeleteTask
  <2>1. /\ rows' = <<>> /\ read' = {} /\ stopped' = "idle"
        /\ UNCHANGED <<session, running, sweep, faults, forked, burn, ended>>
    BY <1>7 DEF DeleteTask
  <2>2. rows' \in Seq(Row) /\ Len(rows') = 0 /\ DOMAIN rows' = {}
    BY <2>1
  <2>3. ToCome' = {} /\ Cardinality({}) = 0
    BY <2>2, FS_EmptySet DEF ToCome
  <2>4. MaxRows \in Nat
    BY BoundAssumption
  <2>5. TypeOK' /\ Fits'
    BY <2>1, <2>2, <2>3, <2>4 DEF Invariant, TypeOK, Fits
  <2>. QED
    BY <2>1, <2>2, <2>3, <2>5 DEF Invariant, OneRec, Capped, Quiet
<1>. QED
  BY <1>3, <1>4, <1>5, <1>6, <1>7, RunNowInvariant DEF Command

\* ... and every command, every step of the sweep and every container keeps it.
LEMMA NextInvariant == Invariant /\ [Next]_vars => Invariant'
<1>. SUFFICES ASSUME Invariant, [Next]_vars PROVE Invariant'
  OBVIOUS
<1>1. CASE Spawn \/ Read \/ Claim \/ Exit \/ SweepThrows \/ UNCHANGED vars
  BY <1>1, ContainerInvariant
<1>2. CASE \E i \in DOMAIN rows : Answer(i)
  BY <1>2, ContainerInvariant
<1>3. CASE SweepSync \/ SweepReset
  BY <1>3, SweepSettles
<1>4. CASE SweepRecur
  BY <1>4, RecurInvariant
<1>5. CASE SweepTears
  BY <1>5, TearsInvariant
<1>6. CASE Command
  BY <1>6, CommandInvariant
<1>. QED
  BY <1>1, <1>2, <1>3, <1>4, <1>5, <1>6 DEF Next, Sweep

-----------------------------------------------------------------------------
(* The theorems.                                                            *)

\* The inductive invariant holds in every state.
THEOREM Invariance == Spec => []Invariant
  BY InitInvariant, NextInvariant, PTL DEF Spec

\* The rows, the session and the steps of the sweep keep their types, and a cancelled row
\* never has a recurrence again, whatever answer comes after the cancel.
THEOREM TypeCorrectness == Spec => []TypeOK
<1>1. Invariant => TypeOK
  BY DEF Invariant
<1>. QED
  BY <1>1, Invariance, PTL

\* A series is armed once, however its runs, its extra runs, the sweep and the commands
\* follow each other, unless a re-arm was torn or an update armed two rows.
THEOREM ArmedOnce == Spec => []OneArmed
<1>1. Invariant => OneArmed
  <2>. SUFFICES ASSUME Invariant, ~forked PROVE Cardinality(Armed(rows)) <= 1
    BY DEF OneArmed
  <2>1. Armed(rows) \subseteq DOMAIN rows /\ rows \in Seq(Row)
    BY DEF Armed, Invariant, TypeOK
  <2>2. IsFiniteSet(Armed(rows))
    BY <2>1, PositionsFinite
  <2>3. \A i, j \in Armed(rows) : i = j
    BY DEF Armed, Invariant, OneRec
  <2>. QED
    BY <2>2, <2>3, AtMostOneElement
<1>. QED
  BY <1>1, Invariance, PTL

\* A series that fails and fails is run FailCap times at most, for any value of the cap.
THEOREM CapHolds == Spec => []FailuresAreCapped
<1>1. Invariant => FailuresAreCapped
  BY DEF Invariant, Capped, FailuresAreCapped
<1>. QED
  BY <1>1, Invariance, PTL

\* A series that a command stopped, with no successor to come, is not taken up for a run before
\* a command says so, for any number of rows and faults.
THEOREM StopsHold == Spec => StopHolds
<1>1. ASSUME Invariant, [Next]_vars, stopped = "idle" PROVE read' \subseteq read
  <2>1. ~Read
    BY <1>1 DEF Invariant, Quiet, Read
  <2>2. CASE UNCHANGED vars
    BY <2>2 DEF vars
  <2>3. CASE Sweep \/ SweepThrows \/ SweepTears
    BY <2>3 DEF Sweep, SweepSync, SweepReset, SweepRecur, SweepThrows, SweepTears
  <2>4. CASE Command
    BY <2>4 DEF Command, Cancel, Pause, Resume, SetRecurrence, RunNow, DeleteTask
  <2>5. CASE Spawn \/ Claim \/ Exit \/ \E i \in DOMAIN rows : Answer(i)
    BY <2>5 DEF Spawn, Claim, Exit, Answer
  <2>. QED
    BY <1>1, <2>1, <2>2, <2>3, <2>4, <2>5 DEF Next
<1>2. ASSUME Invariant, [Next]_vars PROVE [stopped = "idle" => read' \subseteq read]_vars
  BY <1>1, <1>2
<1>. QED
  BY <1>2, Invariance, PTL DEF Spec, StopHolds

=============================================================================

-------------------------- MODULE AgentRouteProofs --------------------------
(***************************************************************************)
(* Theorems about AgentRoute, for any number of agents and sessions, any    *)
(* number of messages, edits of the rows and deaths of the host.            *)
(***************************************************************************)
EXTENDS AgentRoute, SequenceTheorems, WellFoundedInduction, TLAPS

\* A row of an agent's session names a message that its sender wrote.
RowsAreWritten ==
    \A s \in Session : \A i \in Rows(s) :
        IF inbox[s][i].from = Host THEN inbox[s][i].msg = None
        ELSE /\ inbox[s][i].msg \in Written
             /\ inbox[s][i].from = sent[inbox[s][i].msg].by

Invariant == TypeOK /\ RowsAreWritten /\ RepliesReturn

-----------------------------------------------------------------------------
\* A nonempty set of naturals has a least element, ...
LEMMA MinIn ==
    ASSUME NEW S \in SUBSET Nat, S # {}
    PROVE  Min(S) \in S /\ \A i \in S : Min(S) <= i
<1>. DEFINE R == OpToRel(<, Nat)
<1>1. IsWellFoundedOn(R, Nat)
  BY NatLessThanWellFounded
<1>. HIDE DEF R
<1>2. PICK k \in S : \A i \in S : ~ (<<i, k>> \in R)
  BY <1>1, WFMin
<1>3. \A i \in S : ~(i < k)
  BY <1>2 DEF R, OpToRel
<1>4. \A i \in S : k <= i
  BY <1>3
<1>. QED
  BY <1>4 DEF Min

\* ... and one of numbers up to n a greatest.
LEMMA MaxIn ==
    ASSUME NEW n \in Nat, NEW S \in SUBSET (1 .. n), S # {}
    PROVE  Max(S) \in S /\ \A i \in S : i <= Max(S)
<1>. DEFINE T == {k \in Nat : \E i \in S : k = n - i}
<1>1. \A i \in S : n - i \in T
  OBVIOUS
<1>2. T \in SUBSET Nat /\ T # {}
  BY <1>1
<1>. HIDE DEF T
<1>3. PICK k \in T : \A l \in T : k <= l
  BY <1>2, MinIn
<1>4. PICK i \in S : k = n - i
  BY <1>3 DEF T
<1>5. ASSUME NEW j \in S PROVE j <= i
  BY <1>1, <1>3, <1>4
<1>. QED
  BY <1>5 DEF Max

\* The row of the newest message of an agent is one of its rows.
LEMMA NewestIsARow ==
    ASSUME TypeOK, NEW s \in Session, NEW g, FromGroup(s, g) # {}
    PROVE  Max(FromGroup(s, g)) \in FromGroup(s, g)
<1>1. Len(inbox[s]) \in Nat
  BY DEF TypeOK
<1>2. FromGroup(s, g) \in SUBSET (1 .. Len(inbox[s]))
  BY DEF FromGroup, Rows
<1>. QED
  BY <1>1, <1>2, MaxIn

\* So a message is stamped with a row of its sender's session.
LEMMA StampsNameRows ==
    ASSUME TypeOK, NEW s \in Session, NEW g, stamp[s] # None,
           NEW row \in {stamp[s], LatestOf(s, g)}
    PROVE  row \in Rows(s)
<1>1. stamp[s] \in Rows(s)
  BY DEF TypeOK
<1>2. FromGroup(s, g) # {} => Max(FromGroup(s, g)) \in Rows(s)
  BY NewestIsARow DEF FromGroup
<1>. QED
  BY <1>1, <1>2 DEF LatestOf

\* What a message is made of.
LEMMA SentTyped ==
    ASSUME TypeOK, NEW m \in Written
    PROVE  /\ sent[m] \in [by : Session, to : Group, re : Nat] /\ m \in Nat
           /\ sent[m].by \in Session /\ sent[m].re \in Rows(sent[m].by)
           /\ status[sent[m].by] # "none"
<1>1. sent \in Seq([by : Session, to : Group, re : Nat]) /\ m \in 1 .. Len(sent)
  BY DEF TypeOK, Written
<1>2. sent[m] \in [by : Session, to : Group, re : Nat]
  BY <1>1, ElementOfSeq, Zenon
<1>3. m \in Nat
  BY <1>1
<1>. QED
  BY <1>2, <1>3 DEF TypeOK

\* What a message that goes to a session of another agent does to the inboxes: the rows
\* that were there stay, and one is added, from a session that was not made for it.
LEMMA ArriveTyped ==
    ASSUME TypeOK, NEW m \in Written, Arrive(m)
    PROVE  /\ status' \in [Session -> {"none", "active", "closed"}]
           /\ inbox' \in [Session -> Seq([from : Session \cup {Host}, msg : Nat])]
           /\ \A s \in Session :
                 /\ status[s] # "none" => status'[s] # "none"
                 /\ Rows(s) \subseteq Rows(s)'
                 /\ \A i \in Rows(s) : inbox'[s][i] = inbox[s][i]
<1>1. PICK t \in Session :
         /\ status' = [status EXCEPT ![t] = "active"]
         /\ inbox' = [inbox EXCEPT ![t] = Append(@, [from |-> sent[m].by, msg |-> m])]
  BY DEF Arrive
<1>2. sent[m] \in [by : Session, to : Group, re : Nat] /\ m \in Nat
  BY SentTyped
<1>. DEFINE Row == [from : Session \cup {Host}, msg : Nat]
            row == [from |-> sent[m].by, msg |-> m]
<1>3. row \in Row
  BY <1>2
<1>4. inbox \in [Session -> Seq(Row)] /\ inbox' = [inbox EXCEPT ![t] = Append(inbox[t], row)]
  BY <1>1 DEF TypeOK
<1>. HIDE DEF Row, row
<1>5. Append(inbox[t], row) \in Seq(Row)
  BY <1>3, <1>4
<1>6. inbox' \in [Session -> Seq(Row)]
  BY <1>4, <1>5
<1>7. ASSUME NEW s \in Session
      PROVE  Rows(s) \subseteq Rows(s)' /\ \A i \in Rows(s) : inbox'[s][i] = inbox[s][i]
  <2>1. CASE s = t
    <3>1. inbox[t] \in Seq(Row) /\ inbox'[t] = Append(inbox[t], row)
      BY <1>4
    <3>. QED
      BY <1>3, <2>1, <3>1 DEF Rows
  <2>2. CASE s # t
    BY <1>4, <2>2 DEF Rows
  <2>. QED
    BY <2>1, <2>2
<1>8. status' \in [Session -> {"none", "active", "closed"}]
      /\ \A s \in Session : status[s] # "none" => status'[s] # "none"
  BY <1>1 DEF TypeOK
<1>. QED
  BY <1>6, <1>7, <1>8 DEF Row

\* A sequence with one entry for each message keeps to its type when an entry changes.
LEMMA EntryTyped ==
    ASSUME NEW S, NEW f \in Seq(S), NEW m \in 1 .. Len(f), NEW x \in S
    PROVE  [f EXCEPT ![m] = x] \in Seq(S) /\ Len([f EXCEPT ![m] = x]) = Len(f)
BY ExceptSeq

\* A function on the positions of a sequence is a sequence as long as it.
LEMMA FunctionIsSeq ==
    ASSUME NEW S, NEW n \in Nat, NEW f \in [1 .. n -> S]
    PROVE  f \in Seq(S) /\ Len(f) = n
<1>1. f \in Seq(S)
  BY SeqDef
<1>2. DOMAIN f = 1 .. Len(f) /\ DOMAIN f = 1 .. n /\ Len(f) \in Nat
  BY <1>1, LenProperties
<1>. QED
  BY <1>1, <1>2

\* What the mark that follows an effect, and a death of the host before it, leave.
LEMMA MarkedTyped ==
    ASSUME TypeOK, NEW m \in Written, NEW cut \in BOOLEAN, Marked(m, cut)
    PROVE  /\ place' \in Seq({"due", "done", "failed"}) /\ Len(place') = Len(sent)
           /\ tries' \in Seq(0 .. MaxTries - 1) /\ Len(tries') = Len(sent)
           /\ crashes' \in 0 .. MaxCrashes
<1>1. m \in 1 .. Len(place) /\ m \in 1 .. Len(tries) /\ 0 \in 0 .. MaxTries - 1
  BY DEF TypeOK, Written, MaxTries
<1>2. CASE cut
  <2>1. /\ crashes < MaxCrashes /\ crashes' = crashes + 1
        /\ tries' = [n \in Written |-> 0] /\ place' = place
    BY <1>2 DEF Marked
  <2>2. crashes' \in 0 .. MaxCrashes
    BY <2>1, ConstantsAssumption DEF TypeOK
  <2>3. tries' \in Seq(0 .. MaxTries - 1) /\ Len(tries') = Len(sent)
    <3>1. Len(sent) \in Nat /\ tries' \in [1 .. Len(sent) -> 0 .. MaxTries - 1]
      BY <1>1, <2>1 DEF TypeOK, Written
    <3>. QED
      BY <3>1, FunctionIsSeq
  <2>. QED
    BY <2>1, <2>2, <2>3 DEF TypeOK
<1>3. CASE ~cut
  <2>1. place' = [place EXCEPT ![m] = "done"] /\ tries' = [tries EXCEPT ![m] = 0]
        /\ crashes' = crashes
    BY <1>3 DEF Marked
  <2>. QED
    BY <1>1, <2>1, EntryTyped DEF TypeOK
<1>. QED
  BY <1>2, <1>3

\* What becomes of one card keeps the cards typed, one for every message.
LEMMA CardTyped ==
    ASSUME TypeOK, NEW m \in Written, NEW c \in {"none", "out", "approved", "rejected"},
           card' = [card EXCEPT ![m] = c]
    PROVE  card' \in Seq({"none", "out", "approved", "rejected"}) /\ Len(card') = Len(sent)
<1>1. m \in 1 .. Len(card)
  BY DEF TypeOK, Written
<1>. QED
  BY <1>1, EntryTyped DEF TypeOK

-----------------------------------------------------------------------------
\* The invariant holds initially.
LEMMA InitInvariant == Init => Invariant
<1>1. SUFFICES ASSUME Init PROVE Invariant
  OBVIOUS
<1>2. PICK start \in Starts :
        /\ status = [s \in Session |-> IF s \in start THEN "active" ELSE "none"]
        /\ inbox = [s \in Session |-> IF s \in start THEN <<[from |-> Host, msg |-> None]>>
                                                     ELSE <<>>]
  BY <1>1 DEF Init
<1>. DEFINE Row == [from : Session \cup {Host}, msg : Nat]
            first == [from |-> Host, msg |-> None]
<1>3. first \in Row
  BY DEF None
<1>4. inbox = [s \in Session |-> IF s \in start THEN <<first>> ELSE <<>>]
  BY <1>2
<1>5. first.from = Host /\ first.msg = None
  OBVIOUS
<1>. HIDE DEF Row, first
<1>6. inbox \in [Session -> Seq(Row)]
  BY <1>3, <1>4
<1>7. \A s \in Session : \A i \in Rows(s) : inbox[s][i] = first
  BY <1>4 DEF Rows
<1>8. sent = <<>> /\ Len(sent) = 0 /\ Written = {}
  BY <1>1 DEF Init, Written
<1>9. TypeOK
  <2>1. Watched \subseteq Edge /\ MaxEdits \in Nat /\ MaxCrashes \in Nat
    BY ConstantsAssumption
  <2>2. sent \in Seq([by : Session, to : Group, re : Nat])
    BY <1>1, EmptySeq DEF Init
  <2>3. /\ place \in Seq({"due", "done", "failed"}) /\ Len(place) = Len(sent)
        /\ tries \in Seq(0 .. MaxTries - 1) /\ Len(tries) = Len(sent)
        /\ card \in Seq({"none", "out", "approved", "rejected"}) /\ Len(card) = Len(sent)
    BY <1>1 DEF Init
  <2>4. /\ status \in [Session -> {"none", "active", "closed"}]
        /\ dest \subseteq Edge /\ policy \subseteq Edge
        /\ stamp \in [Session -> Nat] /\ \A s \in Session : stamp[s] \in {None} \cup Rows(s)
        /\ edits \in 0 .. MaxEdits /\ crashes \in 0 .. MaxCrashes
    BY <1>1, <1>2, <2>1 DEF Init, None
  <2>5. told \subseteq Written /\ drain \subseteq Written
    BY <1>1 DEF Init
  <2>. QED
    BY <1>6, <1>8, <2>2, <2>3, <2>4, <2>5 DEF TypeOK, Row
<1>10. RowsAreWritten
  BY <1>5, <1>7 DEF RowsAreWritten
<1>11. RepliesReturn
  BY <1>8 DEF RepliesReturn
<1>. QED
  BY <1>9, <1>10, <1>11 DEF Invariant

\* A turn that writes: the message is stamped with a row of the session, and has arrived
\* nowhere.
LEMMA WriteInvariant ==
    ASSUME Invariant, NEW s \in Session, NEW g \in Group, Write(s, g)
    PROVE  Invariant'
<1>. DEFINE Msg == [by : Session, to : Group, re : Nat]
<1>1. PICK row \in {stamp[s], LatestOf(s, g)} :
         sent' = Append(sent, [by |-> s, to |-> g, re |-> row])
  BY DEF Write
<1>. DEFINE new == [by |-> s, to |-> g, re |-> row]
<1>0. PICK N : N = Len(sent) + 1
  OBVIOUS
<1>2. row \in Rows(s) /\ row \in Nat
  <2>1. TypeOK /\ stamp[s] # None
    BY DEF Invariant, Write
  <2>2. row \in Rows(s)
    BY <2>1, StampsNameRows
  <2>. QED
    BY <2>2 DEF Rows
<1>3. new \in Msg /\ new.by = s /\ new.re = row
  BY <1>2
<1>4. sent \in Seq(Msg) /\ sent' = Append(sent, new)
  BY <1>1 DEF Invariant, TypeOK
<1>5. status[s] # "none" /\ UNCHANGED <<status, inbox, stamp, dest, policy, drain, bounds, told>>
  BY DEF Write
<1>. HIDE DEF Msg, new
<1>6. /\ sent' \in Seq(Msg) /\ Len(sent) \in Nat /\ Len(sent') = N /\ sent'[N] = new
      /\ \A m \in Written : sent'[m] = sent[m]
  BY <1>0, <1>3, <1>4 DEF Written
<1>7. Written' = Written \cup {N} /\ N \notin Written
  BY <1>0, <1>6 DEF Written
<1>8. \A u \in Session : UNCHANGED <<inbox[u], Rows(u), status[u]>>
  BY <1>5 DEF Rows
<1>9. TypeOK'
  <2>1. /\ place' \in Seq({"due", "done", "failed"}) /\ Len(place') = Len(sent')
        /\ tries' \in Seq(0 .. MaxTries - 1) /\ Len(tries') = Len(sent')
        /\ card' \in Seq({"none", "out", "approved", "rejected"}) /\ Len(card') = Len(sent')
    <3>1. 0 \in 0 .. MaxTries - 1
      BY DEF MaxTries
    <3>. QED
      BY <1>0, <1>6, <3>1 DEF Invariant, TypeOK, Write
  <2>2. \A m \in Written' : (sent[m].re \in Rows(sent[m].by) /\ status[sent[m].by] # "none")'
    <3>1. \A u : Rows(u)' = Rows(u)
      BY <1>5 DEF Rows
    <3>2. ASSUME NEW m \in Written
          PROVE  (sent[m].re \in Rows(sent[m].by) /\ status[sent[m].by] # "none")'
      BY <1>5, <1>6, SentTyped DEF Invariant, Rows
    <3>3. (sent[N].re \in Rows(sent[N].by) /\ status[sent[N].by] # "none")'
      BY <1>2, <1>3, <1>5, <1>6 DEF Rows
    <3>. QED
      BY <1>7, <3>2, <3>3
  <2>3. told' \subseteq Written' /\ drain' \subseteq Written'
    BY <1>5, <1>7 DEF Invariant, TypeOK
  <2>4. \A u \in Session : (stamp[u] \in {None} \cup Rows(u))'
    BY <1>5 DEF Invariant, TypeOK, Rows
  <2>5. edits' = edits /\ crashes' = crashes
    BY <1>5 DEF bounds
  <2>. QED
    BY <1>5, <1>6, <2>1, <2>2, <2>3, <2>4, <2>5 DEF Invariant, TypeOK, Msg
<1>10. RowsAreWritten'
  BY <1>5, <1>6, <1>7, <1>8 DEF Invariant, RowsAreWritten
<1>11. RepliesReturn'
  <2>1. \A m : UNCHANGED ArrivedIn(m)
    BY <1>8 DEF ArrivedIn
  <2>2. ArrivedIn(N) = {}
    BY <1>0, <1>6, <1>7 DEF Invariant, RowsAreWritten, ArrivedIn, None
  <2>. QED
    BY <1>5, <1>6, <1>7, <2>1, <2>2, Zenon DEF Invariant, RepliesReturn
<1>. QED
  BY <1>9, <1>10, <1>11 DEF Invariant

\* A message goes to a session that is active or was never made: none that was closed
\* comes back.
LEMMA TargetIsOpen ==
    ASSUME TypeOK, NEW m \in Written, NEW t \in Session, Target(m, t)
    PROVE  status[t] \in {"active", "none"}
<1>1. Session = 1 .. Len(Owner) /\ Len(Owner) \in Nat
  BY ConstantsAssumption DEF Session
<1>2. CASE Returns(m, t)
  BY <1>2 DEF Returns
<1>. DEFINE C == Chats(sent[m].to)
            U == Unused(sent[m].to)
<1>3. CASE C # {} /\ t = Max(C)
  <2>1. C \in SUBSET (1 .. Len(Owner))
    BY <1>1 DEF Chats
  <2>2. Max(C) \in C
    BY <1>1, <1>3, <2>1, MaxIn
  <2>. QED
    BY <1>3, <2>2 DEF Chats
<1>4. CASE U # {} /\ t = Min(U)
  <2>1. U \in SUBSET Nat
    BY <1>1 DEF Unused
  <2>2. Min(U) \in U
    BY <1>4, <2>1, MinIn
  <2>. QED
    BY <1>4, <2>2 DEF Unused
<1>. QED
  BY <1>2, <1>3, <1>4 DEF Target

\* A message that arrives: it goes to the session that asked, if that is active, and a
\* session that asked was there before it.
LEMMA ArriveInvariant ==
    ASSUME Invariant, NEW m \in Written, Arrive(m), sent' = sent
    PROVE  RowsAreWritten' /\ RepliesReturn'
<1>1. PICK t \in Session :
         /\ Target(m, t)
         /\ status' = [status EXCEPT ![t] = "active"]
         /\ inbox' = [inbox EXCEPT ![t] = Append(@, [from |-> sent[m].by, msg |-> m])]
  BY DEF Arrive
<1>. DEFINE Row == [from : Session \cup {Host}, msg : Nat]
            row == [from |-> sent[m].by, msg |-> m]
<1>2. row \in Row /\ row.from = sent[m].by /\ row.msg = m
  BY SentTyped DEF Invariant
<1>3. inbox \in [Session -> Seq(Row)] /\ inbox' = [inbox EXCEPT ![t] = Append(inbox[t], row)]
  BY <1>1 DEF Invariant, TypeOK
<1>4. Written' = Written
  BY DEF Written
<1>. HIDE DEF Row, row
<1>5. PICK N : N = Len(inbox[t]) + 1
  OBVIOUS
<1>6. /\ inbox[t] \in Seq(Row) /\ inbox'[t] = Append(inbox[t], row)
      /\ Len(inbox[t]) \in Nat
  BY <1>3
<1>7. /\ Rows(t)' = Rows(t) \cup {N} /\ N \notin Rows(t) /\ inbox'[t][N] = row
      /\ \A i \in Rows(t) : inbox'[t][i] = inbox[t][i]
  BY <1>2, <1>5, <1>6 DEF Rows
<1>8. \A s \in Session \ {t} : inbox'[s] = inbox[s] /\ Rows(s)' = Rows(s)
  BY <1>3 DEF Rows
<1>9. RowsAreWritten'
  <2>1. sent[m].by # Host
    BY ConstantsAssumption, SentTyped DEF Session, Host, Invariant
  <2>2. ASSUME NEW s \in Session, NEW i \in Rows(s)'
        PROVE  (IF inbox[s][i].from = Host THEN inbox[s][i].msg = None
                ELSE /\ inbox[s][i].msg \in Written
                     /\ inbox[s][i].from = sent[inbox[s][i].msg].by)'
    <3>1. CASE s = t /\ i = N
      BY <1>2, <1>4, <1>7, <2>1, <3>1
    <3>2. CASE ~(s = t /\ i = N)
      <4>1. i \in Rows(s) /\ inbox'[s][i] = inbox[s][i]
        BY <1>7, <1>8, <2>2, <3>2
      <4>. QED
        BY <1>4, <4>1 DEF Invariant, RowsAreWritten
    <3>. QED
      BY <3>1, <3>2
  <2>. QED
    BY <2>2 DEF RowsAreWritten
<1>10. ASSUME NEW n \in Written
       PROVE  LET asker == inbox[sent[n].by][sent[n].re].from
              IN /\ inbox'[sent[n].by][sent[n].re].from = asker
                 /\ asker # Host => asker \in Session /\ status[asker] # "none"
  <2>1. sent[n].by \in Session /\ sent[n].re \in Rows(sent[n].by)
    BY SentTyped DEF Invariant
  <2>2. inbox'[sent[n].by][sent[n].re] = inbox[sent[n].by][sent[n].re]
    BY <1>7, <1>8, <2>1
  <2>. QED
    BY <2>1, <2>2, SentTyped DEF Invariant, RowsAreWritten
<1>11. RepliesReturn'
  <2>1. SUFFICES ASSUME NEW n \in Written,
                        NEW asker, asker = inbox[sent[n].by][sent[n].re].from,
                        asker # Host, Owner[asker] = sent[n].to, status'[asker] = "active"
                 PROVE  ArrivedIn(n)' \subseteq {asker}
    BY <1>4, <1>10, Zenon DEF RepliesReturn
  <2>2. asker \in Session /\ status[asker] = "active"
    <3>1. asker \in Session /\ status[asker] # "none"
      BY <1>10, <2>1
    <3>2. status[t] \in {"active", "none"}
      BY <1>1, TargetIsOpen DEF Invariant
    <3>. QED
      BY <1>1, <2>1, <3>1, <3>2 DEF Invariant, TypeOK
  <2>3. ArrivedIn(n) \subseteq {asker}
    BY <2>1, <2>2, Zenon DEF Invariant, RepliesReturn
  <2>4. CASE n # m
    <3>1. ArrivedIn(n)' \subseteq ArrivedIn(n)
      BY <1>2, <1>7, <1>8, <2>4 DEF ArrivedIn
    <3>. QED
      BY <2>3, <3>1
  <2>5. CASE n = m
    <3>1. Origin(m) = asker /\ Returns(m, asker)
      BY <2>1, <2>2, <2>5 DEF Origin, Returns
    <3>2. t = asker
      BY <1>1, <2>2, <3>1 DEF Target, Returns
    <3>3. ArrivedIn(n)' \subseteq ArrivedIn(n) \cup {t}
      BY <1>7, <1>8 DEF ArrivedIn
    <3>. QED
      BY <2>3, <3>2, <3>3
  <2>. QED
    BY <2>4, <2>5
<1>. QED
  BY <1>9, <1>11

\* A step that no message arrives in: a session may close.
LEMMA StillInvariant ==
    ASSUME Invariant, inbox' = inbox, sent' = sent,
           \A s \in Session : status'[s] = "active" => status[s] = "active"
    PROVE  RowsAreWritten' /\ RepliesReturn'
<1>1. RowsAreWritten'
  BY DEF Invariant, RowsAreWritten, Rows, Written
<1>2. RepliesReturn'
  <2>1. ASSUME NEW m \in Written, inbox[sent[m].by][sent[m].re].from # Host
        PROVE  inbox[sent[m].by][sent[m].re].from \in Session
    BY <2>1, SentTyped DEF Invariant, RowsAreWritten
  <2>2. Written' = Written /\ \A m : ArrivedIn(m)' = ArrivedIn(m)
    BY DEF Written, ArrivedIn, Rows
  <2>. QED
    BY <2>1, <2>2, Zenon DEF Invariant, RepliesReturn
<1>. QED
  BY <1>1, <1>2

\* What TypeOK says of the sessions, which a step that no message arrives in, and that
\* writes none, keeps.
LEMMA StillTyped ==
    ASSUME TypeOK, UNCHANGED <<inbox, sent, stamp>>,
           status' = status \/ \E s \in Session : status' = [status EXCEPT ![s] = "closed"]
    PROVE  /\ status' \in [Session -> {"none", "active", "closed"}]
           /\ inbox' \in [Session -> Seq([from : Session \cup {Host}, msg : Nat])]
           /\ stamp' \in [Session -> Nat] /\ \A s \in Session : (stamp[s] \in {None} \cup Rows(s))'
           /\ sent' \in Seq([by : Session, to : Group, re : Nat])
           /\ \A m \in Written' : (sent[m].re \in Rows(sent[m].by) /\ status[sent[m].by] # "none")'
           /\ Written' = Written
<1>1. Written' = Written /\ \A s : Rows(s)' = Rows(s)
  BY DEF Written, Rows
<1>2. status' \in [Session -> {"none", "active", "closed"}]
      /\ \A s \in Session : status[s] # "none" => status'[s] # "none"
  BY DEF TypeOK
<1>3. \A m \in Written' : (sent[m].re \in Rows(sent[m].by) /\ status[sent[m].by] # "none")'
  BY <1>1, <1>2, SentTyped DEF Rows
<1>4. \A s \in Session : (stamp[s] \in {None} \cup Rows(s))'
  BY DEF TypeOK, Rows
<1>. QED
  BY <1>1, <1>2, <1>3, <1>4 DEF TypeOK

\* A turn that begins takes up a row of the session.
LEMMA BeginInvariant ==
    ASSUME Invariant, NEW s \in Session, BeginTurn(s)
    PROVE  Invariant'
<1>1. PICK i \in Rows(s) : stamp' = [stamp EXCEPT ![s] = i]
  BY DEF BeginTurn
<1>2. UNCHANGED <<status, dest, policy, inbox, sent, place, tries, drain, card, edits, crashes, told>>
  BY DEF BeginTurn, bounds
<1>3. stamp' \in [Session -> Nat] /\ \A u \in Session : (stamp[u] \in {None} \cup Rows(u))'
  <2>1. i \in Nat
    BY DEF Rows
  <2>. QED
    BY <1>1, <1>2, <2>1 DEF Invariant, TypeOK, Rows
<1>4. Written' = Written
      /\ \A m \in Written : (sent[m].re \in Rows(sent[m].by) /\ status[sent[m].by] # "none")'
  BY <1>2, SentTyped DEF Invariant, Written, Rows
<1>5. TypeOK'
  BY <1>2, <1>3, <1>4 DEF Invariant, TypeOK
<1>. QED
  BY <1>2, <1>5, StillInvariant DEF Invariant

\* The steps of the delivery loop and of the human that no message arrives in.
LEMMA SettleInvariant ==
    ASSUME Invariant, NEW m \in Written,
           \/ Refuse(m) \/ ApproveDenied(m) \/ Reject(m)
           \/ \E cut \in BOOLEAN : Hold(m, cut) \/ CardFails(m, cut)
    PROVE  Invariant'
<1>1. UNCHANGED <<status, dest, policy, inbox, stamp, sent, edits>>
  BY DEF Refuse, ApproveDenied, Reject, Hold, CardFails, bounds
<1>2. told' \subseteq Written /\ drain' \subseteq Written
  BY DEF Refuse, ApproveDenied, Reject, Hold, CardFails, Marked, Invariant, TypeOK
<1>3. card' \in Seq({"none", "out", "approved", "rejected"}) /\ Len(card') = Len(sent)
  <2>1. card' = card \/ \E c \in {"out", "approved", "rejected"} : card' = [card EXCEPT ![m] = c]
    BY DEF Refuse, ApproveDenied, Reject, Hold, CardFails
  <2>. QED
    BY <2>1, CardTyped DEF Invariant, TypeOK
<1>4. /\ place' \in Seq({"due", "done", "failed"}) /\ Len(place') = Len(sent)
      /\ tries' \in Seq(0 .. MaxTries - 1) /\ Len(tries') = Len(sent)
      /\ crashes' \in 0 .. MaxCrashes
  <2>1. CASE \E cut \in BOOLEAN : Hold(m, cut) \/ CardFails(m, cut)
    BY <2>1, MarkedTyped DEF Hold, CardFails, Invariant
  <2>2. CASE ApproveDenied(m) \/ Reject(m)
    BY <2>2 DEF ApproveDenied, Reject, bounds, Invariant, TypeOK
  <2>3. CASE Refuse(m)
    <3>1. /\ m \in 1 .. Len(place) /\ m \in 1 .. Len(tries)
          /\ place \in Seq({"due", "done", "failed"}) /\ Len(place) = Len(sent)
          /\ tries \in Seq(0 .. MaxTries - 1) /\ Len(tries) = Len(sent)
          /\ crashes \in 0 .. MaxCrashes
      BY DEF Invariant, TypeOK, Written
    <3>2. tries[m] \in 0 .. MaxTries - 1
      BY <3>1, ElementOfSeq, Zenon
    <3>3. place' = place \/ place' = [place EXCEPT ![m] = "failed"]
      BY <2>3 DEF Refuse
    <3>4. \E n \in 0 .. MaxTries - 1 : tries' = [tries EXCEPT ![m] = n]
      <4>1. CASE tries[m] + 1 = MaxTries
        BY <2>3, <4>1 DEF Refuse, MaxTries
      <4>2. CASE tries[m] + 1 # MaxTries
        BY <2>3, <3>2, <4>2 DEF Refuse, MaxTries
      <4>. QED
        BY <4>1, <4>2
    <3>5. crashes' = crashes
      BY <2>3 DEF Refuse, bounds
    <3>6. place' \in Seq({"due", "done", "failed"}) /\ Len(place') = Len(sent)
      BY <3>1, <3>3, EntryTyped
    <3>7. tries' \in Seq(0 .. MaxTries - 1) /\ Len(tries') = Len(sent)
      BY <3>1, <3>4, EntryTyped
    <3>. QED
      BY <3>1, <3>5, <3>6, <3>7
  <2>. QED
    BY <2>1, <2>2, <2>3
<1>5. TypeOK'
  BY <1>1, <1>2, <1>3, <1>4, StillTyped DEF Invariant, TypeOK
<1>. QED
  BY <1>1, <1>5, StillInvariant DEF Invariant

\* The two steps in which a message arrives.
LEMMA CrossInvariant ==
    ASSUME Invariant, NEW m \in Written,
           Approve(m) \/ \E cut \in BOOLEAN : Route(m, cut)
    PROVE  Invariant'
<1>1. Arrive(m) /\ UNCHANGED <<dest, policy, stamp, sent, edits, told>>
  BY DEF Approve, Route, bounds
<1>2. card' \in Seq({"none", "out", "approved", "rejected"}) /\ Len(card') = Len(sent)
  <2>1. card' = card \/ card' = [card EXCEPT ![m] = "approved"]
    BY DEF Approve, Route
  <2>. QED
    BY <2>1, CardTyped DEF Invariant, TypeOK
<1>3. /\ place' \in Seq({"due", "done", "failed"}) /\ Len(place') = Len(sent)
      /\ tries' \in Seq(0 .. MaxTries - 1) /\ Len(tries') = Len(sent)
      /\ crashes' \in 0 .. MaxCrashes
  <2>1. CASE Approve(m)
    BY <2>1 DEF Approve, bounds, Invariant, TypeOK
  <2>2. CASE \E cut \in BOOLEAN : Route(m, cut)
    BY <2>2, MarkedTyped DEF Route, Invariant
  <2>. QED
    BY <2>1, <2>2
<1>4. Written' = Written /\ drain' \subseteq Written
  BY <1>1 DEF Approve, Route, Marked, Written, Invariant, TypeOK
<1>5. /\ status' \in [Session -> {"none", "active", "closed"}]
      /\ inbox' \in [Session -> Seq([from : Session \cup {Host}, msg : Nat])]
      /\ \A s \in Session :
            /\ status[s] # "none" => status'[s] # "none"
            /\ Rows(s) \subseteq Rows(s)'
  BY <1>1, ArriveTyped DEF Invariant
<1>6. \A n \in Written : (sent[n].re \in Rows(sent[n].by) /\ status[sent[n].by] # "none")'
  <2>1. SUFFICES ASSUME NEW n \in Written
                 PROVE  (sent[n].re \in Rows(sent[n].by) /\ status[sent[n].by] # "none")'
    OBVIOUS
  <2>2. PICK s \in Session : s = sent[n].by
    BY SentTyped DEF Invariant
  <2>3. sent[n].re \in Rows(s) /\ status[s] # "none"
    BY <2>2, SentTyped DEF Invariant
  <2>4. sent'[n].by = s /\ sent'[n].re = sent[n].re
    BY <1>1, <2>2
  <2>. QED
    BY <1>5, <2>3, <2>4 DEF Rows
<1>7. \A s \in Session : (stamp[s] \in {None} \cup Rows(s))'
  BY <1>1, <1>5 DEF Invariant, TypeOK
<1>8. TypeOK'
  BY <1>1, <1>2, <1>3, <1>4, <1>5, <1>6, <1>7 DEF Invariant, TypeOK
<1>. QED
  BY <1>1, <1>8, ArriveInvariant DEF Invariant

\* The operator, the sweep, a death of the host at any other moment, and no step at all.
LEMMA RestInvariant ==
    ASSUME Invariant,
           Edit \/ Crash \/ UNCHANGED vars \/ \E s \in Session : Enter(s) \/ CloseTask(s)
    PROVE  Invariant'
<1>1. UNCHANGED <<inbox, sent, stamp, place, card, told>>
  BY DEF Edit, Crash, Enter, CloseTask, vars
<1>2. status' = status \/ \E s \in Session : status' = [status EXCEPT ![s] = "closed"]
  BY DEF Edit, Crash, Enter, CloseTask, vars
<1>3. \A s \in Session : status'[s] = "active" => status[s] = "active"
  BY <1>2 DEF Invariant, TypeOK
<1>4. dest' \subseteq Edge /\ policy' \subseteq Edge
      /\ edits' \in 0 .. MaxEdits /\ crashes' \in 0 .. MaxCrashes
  BY ConstantsAssumption DEF Edit, Crash, Enter, CloseTask, vars, bounds, Invariant, TypeOK
<1>5. tries' \in Seq(0 .. MaxTries - 1) /\ Len(tries') = Len(sent)
  <2>1. CASE Crash
    <3>1. Len(sent) \in Nat /\ 0 \in 0 .. MaxTries - 1
      BY DEF Invariant, TypeOK, MaxTries
    <3>2. tries' \in [1 .. Len(sent) -> 0 .. MaxTries - 1]
      BY <2>1, <3>1 DEF Crash, Written
    <3>. QED
      BY <3>1, <3>2, FunctionIsSeq
  <2>2. CASE tries' = tries
    BY <2>2 DEF Invariant, TypeOK
  <2>. QED
    BY <2>1, <2>2 DEF Edit, Enter, CloseTask, vars
<1>6. drain' \subseteq Written
  BY DEF Edit, Crash, Enter, CloseTask, vars, Invariant, TypeOK
<1>7. TypeOK'
  BY <1>1, <1>2, <1>4, <1>5, <1>6, StillTyped DEF Invariant, TypeOK
<1>. QED
  BY <1>1, <1>3, <1>7, StillInvariant DEF Invariant

-----------------------------------------------------------------------------
\* The invariant is inductive: a reply that has arrived is in the session that asked, and
\* every row that names a session names the one its message was written in.
THEOREM Invariance == Spec => []Invariant
<1>1. ASSUME Invariant, [Next]_vars PROVE Invariant'
  <2>1. ASSUME NEW m \in Written, Deliver(m) \/ Human(m) PROVE Invariant'
    BY <1>1, <2>1, SettleInvariant, CrossInvariant DEF Deliver, Human
  <2>2. ASSUME Runner PROVE Invariant'
    BY <1>1, <2>2, BeginInvariant, WriteInvariant DEF Runner
  <2>. QED
    BY <1>1, <2>1, <2>2, RestInvariant DEF Next
<1>. QED
  BY <1>1, InitInvariant, PTL DEF Spec

\* Every reachable state is well typed: a message is stamped with a row of the session it
\* was written in (agent-route.ts resolveTargetSession looks it up there).
THEOREM TypeCorrectness == Spec => []TypeOK
BY Invariance, PTL DEF Invariant

\* A message that answers a row of a session of the agent it goes to comes back to that
\* session, as long as that is active (agent-route.ts resolveTargetSession).
THEOREM RepliesComeBack == Spec => []RepliesReturn
BY Invariance, PTL DEF Invariant

-----------------------------------------------------------------------------
\* Every change of an inbox is the arrival of a message, over an edge that is free or
\* that a human let it pass.
LEMMA ArrivalsOnly ==
    ASSUME Invariant, [Next]_vars, inbox' # inbox
    PROVE  \E m \in Written :
              /\ Arrive(m) /\ ~Denied(m)
              /\ EdgeOf(m) \in policy => card'[m] = "approved"
<1>1. PICK m \in Written : Approve(m) \/ \E cut \in BOOLEAN : Route(m, cut)
  BY DEF Next, vars, Runner, BeginTurn, Write, Deliver, Human, Refuse, Hold, CardFails,
     ApproveDenied, Reject, Edit, Enter, CloseTask, Crash
<1>2. Arrive(m)
  BY <1>1 DEF Approve, Route
<1>3. CASE Approve(m)
  <2>1. m \in 1 .. Len(card) /\ card \in Seq({"none", "out", "approved", "rejected"})
    BY DEF Invariant, TypeOK, Written
  <2>2. card'[m] = "approved"
    BY <1>3, <2>1, ExceptSeq DEF Approve
  <2>. QED
    BY <1>2, <1>3, <2>2 DEF Approve
<1>4. CASE \E cut \in BOOLEAN : Route(m, cut)
  BY <1>2, <1>4 DEF Route, Free
<1>. QED
  BY <1>1, <1>3, <1>4

\* What an arrival adds to the inboxes.
LEMMA ArrivalAdds ==
    ASSUME Invariant, NEW m \in Written, Arrive(m)
    PROVE  \E t \in Session :
              /\ Target(m, t)
              /\ inbox'[t] = Append(inbox[t], [from |-> sent[m].by, msg |-> m])
              /\ Len(inbox'[t]) = Len(inbox[t]) + 1 /\ Len(inbox[t]) \in Nat
              /\ inbox'[t][Len(inbox'[t])] = [from |-> sent[m].by, msg |-> m]
              /\ \A s \in Session \ {t} : inbox'[s] = inbox[s]
<1>1. PICK t \in Session :
         /\ Target(m, t)
         /\ inbox' = [inbox EXCEPT ![t] = Append(@, [from |-> sent[m].by, msg |-> m])]
  BY DEF Arrive
<1>. DEFINE Row == [from : Session \cup {Host}, msg : Nat]
            row == [from |-> sent[m].by, msg |-> m]
<1>2. row \in Row
  BY SentTyped DEF Invariant
<1>3. inbox \in [Session -> Seq(Row)] /\ inbox' = [inbox EXCEPT ![t] = Append(inbox[t], row)]
  BY <1>1 DEF Invariant, TypeOK
<1>. HIDE DEF Row, row
<1>4. /\ inbox'[t] = Append(inbox[t], row) /\ inbox[t] \in Seq(Row)
      /\ \A s \in Session \ {t} : inbox'[s] = inbox[s]
  BY <1>3
<1>5. /\ Len(inbox'[t]) = Len(inbox[t]) + 1 /\ Len(inbox[t]) \in Nat
      /\ inbox'[t][Len(inbox'[t])] = row
  BY <1>2, <1>4
<1>. QED
  BY <1>1, <1>4, <1>5 DEF row

\* No message crosses an edge that is not there, nor one with a policy unless a human
\* approved it (agent-route.ts routeAgentMessage and its guard).
THEOREM CrossingsAllowed == Spec => CrossingsAreAllowed
<1>1. ASSUME Invariant, [Next]_vars, NEW s \in Session, Len(inbox'[s]) > Len(inbox[s])
      PROVE  LET m == inbox'[s][Len(inbox'[s])].msg
             IN EdgeOf(m) \in dest /\ (EdgeOf(m) \in policy => card'[m] = "approved")
  <2>1. inbox' # inbox
    <3>1. Len(inbox[s]) \in Nat
      BY <1>1 DEF Invariant, TypeOK
    <3>. QED
      BY <1>1, <3>1
  <2>2. PICK m \in Written :
          /\ Arrive(m) /\ ~Denied(m)
          /\ EdgeOf(m) \in policy => card'[m] = "approved"
    BY <1>1, <2>1, ArrivalsOnly
  <2>3. inbox'[s][Len(inbox'[s])].msg = m
    <3>1. PICK t \in Session :
            /\ inbox'[t][Len(inbox'[t])] = [from |-> sent[m].by, msg |-> m]
            /\ \A u \in Session \ {t} : inbox'[u] = inbox[u]
      BY <1>1, <2>2, ArrivalAdds
    <3>2. s = t
      <4>1. Len(inbox[s]) \in Nat
        BY <1>1 DEF Invariant, TypeOK
      <4>. QED
        BY <1>1, <3>1, <4>1
    <3>. QED
      BY <3>1, <3>2
  <2>. QED
    BY <2>2, <2>3 DEF Denied
<1>2. ASSUME Invariant, [Next]_vars
      PROVE  [\A s \in Session : Len(inbox'[s]) > Len(inbox[s]) =>
                 LET m == inbox'[s][Len(inbox'[s])].msg
                 IN EdgeOf(m) \in dest /\ (EdgeOf(m) \in policy => card'[m] = "approved")]_vars
  BY <1>1, <1>2
<1>. QED
  BY <1>2, Invariance, PTL DEF Spec, CrossingsAreAllowed

\* The session of the agent that last wrote here is one that did.
LEMMA OriginAsked ==
    ASSUME Invariant, NEW m \in Written, Askers(sent[m].by) # {},
           \A u \in Askers(sent[m].by) : Owner[u] = sent[m].to /\ status[u] = "active"
    PROVE  Origin(m) \in Askers(sent[m].by)
<1>. DEFINE s == sent[m].by
            peer == FromGroup(s, sent[m].to)
<1>1. s \in Session /\ sent[m].re \in Rows(s)
  BY SentTyped DEF Invariant
<1>2. \A i \in Rows(s) : inbox[s][i].from # Host => inbox[s][i].from \in Askers(s)
  BY DEF Askers
<1>3. peer # {}
  <2>1. PICK i \in Rows(s) : inbox[s][i].from # Host
    BY DEF Askers
  <2>2. i \in peer
    BY <1>2, <2>1 DEF FromGroup
  <2>. QED
    BY <2>2
<1>4. Max(peer) \in peer
  BY <1>1, <1>3, NewestIsARow DEF Invariant
<1>5. inbox[s][Max(peer)].from \in Askers(s)
  BY <1>2, <1>4, Zenon DEF FromGroup
<1>. QED
  BY <1>1, <1>2, <1>3, <1>5 DEF Origin

\* A message to an agent whose sessions alone wrote here lands in one of them
\* (agent-route.ts resolveTargetSession, both lookups).
THEOREM ArrivesAtAnAsker == Spec => ArrivesWithAnAsker
<1>1. ASSUME Invariant, [Next]_vars, NEW m \in Written, NEW t \in Session,
             inbox'[t] = Append(inbox[t], [from |-> sent[m].by, msg |-> m]),
             Askers(sent[m].by) # {},
             \A u \in Askers(sent[m].by) : Owner[u] = sent[m].to /\ status[u] = "active"
      PROVE  t \in Askers(sent[m].by)
  <2>. DEFINE row == [from |-> sent[m].by, msg |-> m]
              Row == [from : Session \cup {Host}, msg : Nat]
  <2>1. inbox[t] \in Seq(Row) /\ row \in Row
    BY <1>1, SentTyped DEF Invariant, TypeOK
  <2>2. /\ Len(inbox'[t]) = Len(inbox[t]) + 1 /\ Len(inbox[t]) \in Nat
        /\ inbox'[t][Len(inbox'[t])] = row
    <3>. HIDE DEF row, Row
    <3>1. inbox'[t] = Append(inbox[t], row)
      BY <1>1 DEF row
    <3>. QED
      BY <2>1, <3>1
  <2>3. inbox' # inbox
    BY <2>2
  <2>4. PICK n \in Written : Arrive(n)
    BY <1>1, <2>3, ArrivalsOnly
  <2>5. PICK u \in Session :
          /\ Target(n, u)
          /\ inbox'[u][Len(inbox'[u])] = [from |-> sent[n].by, msg |-> n]
          /\ \A v \in Session \ {u} : inbox'[v] = inbox[v]
    BY <1>1, <2>4, ArrivalAdds
  <2>6. t = u
    BY <2>2, <2>5
  <2>7. n = m
    <3>1. inbox'[t][Len(inbox'[t])].msg = m
      BY <2>2
    <3>2. inbox'[t][Len(inbox'[t])].msg = n
      BY <2>5, <2>6
    <3>. QED
      BY <3>1, <3>2
  <2>8. Origin(m) \in Askers(sent[m].by)
    BY <1>1, OriginAsked
  <2>9. Returns(m, Origin(m)) /\ Origin(m) \in Session
    BY <1>1, <2>8, SentTyped DEF Returns, Askers, Invariant, RowsAreWritten
  <2>10. t = Origin(m)
    BY <2>5, <2>6, <2>7, <2>9 DEF Target, Returns
  <2>. QED
    BY <2>8, <2>10
<1>2. ASSUME Invariant, [Next]_vars
      PROVE  [\A m \in Written : \A t \in Session :
          LET s == sent[m].by
          IN /\ inbox'[t] = Append(inbox[t], [from |-> s, msg |-> m])
             /\ Askers(s) # {}
             /\ \A u \in Askers(s) : Owner[u] = sent[m].to /\ status[u] = "active"
             => t \in Askers(s)]_vars
  BY <1>1, <1>2
<1>. QED
  BY <1>2, Invariance, PTL DEF Spec, ArrivesWithAnAsker

=============================================================================

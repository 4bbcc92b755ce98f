------------------------- MODULE TerminalProtocolProofs -------------------------
(***************************************************************************)
(* For any number of lines, identifiers and UUIDs and any capacities: the  *)
(* protocol keeps its types, executes no line twice or out of order, never *)
(* sends what the core refuses for good, and knows an answer by its number.*)
(***************************************************************************)
EXTENDS TerminalProtocol, TLAPS

USE BoundsAssumption

(***************************************************************************)
(* Rows during a transaction: identifiers may exceed MaxOut until the      *)
(* bound on the committed row is applied.                                  *)
(***************************************************************************)

WideOutbox == UNION {[D -> Authors] : D \in SUBSET (Nat \ {0})}

WideRow == [seq: Nat, next: Nat, out: WideOutbox, closed: BOOLEAN]

LEMMA RowUpdates ==
  ASSUME NEW s \in WideRow, NEW q \in Nat, NEW n \in Nat, NEW o \in WideOutbox, NEW c \in BOOLEAN
  PROVE  /\ [s EXCEPT !.closed = c] \in WideRow
         /\ [s EXCEPT !.out = o] \in WideRow
         /\ [s EXCEPT !.next = n, !.out = o] \in WideRow
         /\ [s EXCEPT !.out = o, !.closed = c] \in WideRow
         /\ [s EXCEPT !.seq = q, !.closed = c] \in WideRow
  BY DEF WideRow

Good(s) ==
  /\ s \in WideRow
  /\ DOMAIN s.out \subseteq 1..s.next

LEMMA GoodFields ==
  ASSUME NEW s, Good(s)
  PROVE  /\ s \in WideRow
         /\ s.seq \in Nat /\ s.next \in Nat /\ s.out \in WideOutbox /\ s.closed \in BOOLEAN
         /\ DOMAIN s.out \subseteq 1..s.next
  BY DEF Good, WideRow

\* t continues s: same number, no identifier taken back.
Continues(t, s) == Good(t) /\ t.seq = s.seq /\ t.next >= s.next

LEMMA WriteGood ==
  ASSUME NEW s, Good(s), NEW by \in Authors
  PROVE  Continues(Write(s, by), s)
  <1> USE GoodFields
  <1>1. s.next + 1 \in Nat \ {0} /\ DOMAIN s.out \subseteq Nat \ {0}
    OBVIOUS
  <1> DEFINE D == DOMAIN s.out \cup {s.next + 1}
             o == [i \in D |-> IF i = s.next + 1 THEN by ELSE s.out[i]]
  <1>2. \A i \in DOMAIN s.out : s.out[i] \in Authors
    <2>1. PICK E \in SUBSET (Nat \ {0}) : s.out \in [E -> Authors]
      BY DEF WideOutbox
    <2>2. QED BY <2>1
  <1>3. o \in [D -> Authors] /\ D \in SUBSET (Nat \ {0})
    BY <1>1, <1>2
  <1>4. o \in WideOutbox
    BY <1>3 DEF WideOutbox
  <1>5. DOMAIN o = D /\ D \subseteq 1..(s.next + 1)
    OBVIOUS
  <1>6. CASE Cardinality(DOMAIN s.out) >= OutboxCap
    <2>1. Write(s, by) = [s EXCEPT !.closed = TRUE]
      BY <1>6 DEF Write
    <2> HIDE DEF o, D
    <2>2. Write(s, by) \in WideRow
      BY <2>1, RowUpdates
    <2>3. QED BY <2>1, <2>2 DEF WideRow, Good, Continues
  <1>7. CASE ~(Cardinality(DOMAIN s.out) >= OutboxCap)
    <2>1. Write(s, by) = [s EXCEPT !.next = s.next + 1, !.out = o]
      BY <1>7 DEF Write
    <2> HIDE DEF o, D
    <2>2. Write(s, by) \in WideRow
      BY <2>1, <1>1, <1>4 DEF WideRow
    <2>3. QED BY <2>1, <2>2, <1>5 DEF WideRow, Good, Continues
  <1>8. QED BY <1>6, <1>7

LEMMA WriteIfGood ==
  ASSUME NEW s, Good(s), NEW b, NEW by \in Authors
  PROVE  Continues(WriteIf(s, b, by), s)
  <1>1. Continues(s, s)
    BY DEF Continues, Good, WideRow
  <1>2. CASE b
    BY <1>2, WriteGood DEF WriteIf
  <1>3. CASE ~b
    BY <1>1, <1>3 DEF WriteIf
  <1>4. QED BY <1>2, <1>3

LEMMA EmptyGood ==
  ASSUME NEW s, Good(s), NEW c \in BOOLEAN
  PROVE  Continues([s EXCEPT !.out = NoOutput, !.closed = c], s)
  <1>1. NoOutput \in WideOutbox /\ DOMAIN NoOutput = {}
    <2>1. NoOutput \in [{} -> Authors]
      BY DEF NoOutput
    <2>2. QED BY <2>1 DEF WideOutbox
  <1>2. [s EXCEPT !.out = NoOutput, !.closed = c] \in WideRow
    BY <1>1, RowUpdates DEF Good
  <1>3. QED BY <1>1, <1>2 DEF Good, Continues, WideRow

LEMMA RevokeGood ==
  ASSUME NEW s, Good(s)
  PROVE  Continues(Revoke(s), s)
  <1> DEFINE w == Write(s, Farewell)
             e == [w EXCEPT !.out = NoOutput, !.closed = TRUE]
  <1>1. Farewell \in Authors
    BY DEF Farewell, Authors
  <1>2. Continues(w, s)
    BY <1>1, WriteGood
  <1>3. Continues(e, w)
    BY <1>2, EmptyGood DEF Continues
  <1>4. Continues(Write(e, Farewell), e)
    BY <1>1, <1>3, WriteGood DEF Continues
  <1>5. Revoke(s) = Write(e, Farewell)
    BY DEF Revoke
  <1> HIDE DEF w, e
  <1>6. w.next \in Nat /\ e.next \in Nat /\ s.next \in Nat
    BY <1>2, <1>3, GoodFields DEF Continues
  <1>7. Write(e, Farewell).next \in Nat
    BY <1>4, GoodFields DEF Continues
  <1>8. QED BY <1>2, <1>3, <1>4, <1>5, <1>6, <1>7 DEF Continues

LEMMA TrimGood ==
  ASSUME NEW s, Good(s), NEW ack
  PROVE  Continues(Trim(s, ack), s)
  <1> USE GoodFields
  <1> DEFINE D == {j \in DOMAIN s.out : j > ack}
             o == [i \in D |-> s.out[i]]
  <1>1. PICK E \in SUBSET (Nat \ {0}) : s.out \in [E -> Authors]
    BY DEF WideOutbox
  <1>2. o \in [D -> Authors] /\ D \in SUBSET (Nat \ {0})
    BY <1>1
  <1>3. o \in WideOutbox /\ DOMAIN o = D /\ D \subseteq 1..s.next
    BY <1>2 DEF WideOutbox
  <1>4. Trim(s, ack) = [s EXCEPT !.out = o]
    BY DEF Trim
  <1> HIDE DEF o, D
  <1>5. Trim(s, ack) \in WideRow
    BY <1>3, <1>4 DEF WideRow
  <1>6. QED BY <1>3, <1>4, <1>5 DEF WideRow, Good, Continues

LEMMA ClosingGood ==
  ASSUME NEW s, Good(s), NEW r \in Request
  PROVE  /\ Good(Closing(s, r)) /\ Closing(s, r).next = s.next
         /\ Closing(s, r).seq = IF r.kind = "close" THEN Max2(s.seq, r.seq) ELSE s.seq
         /\ r.kind = "close" => Closing(s, r).closed
  <1>1. Max2(s.seq, r.seq) \in Nat
    BY GoodFields DEF Max2, Request
  <1>2. CASE r.kind = "close"
    <2>1. Closing(s, r) = [s EXCEPT !.closed = TRUE, !.seq = Max2(s.seq, r.seq)]
      BY <1>2 DEF Closing
    <2>2. QED BY <1>1, <1>2, <2>1 DEF Good, WideRow
  <1>3. CASE r.kind # "close"
    BY <1>3 DEF Closing
  <1>4. QED BY <1>2, <1>3

\* The command leaves the row at the request's number.
LEMMA CommandGood ==
  ASSUME NEW s, Good(s), NEW r \in Request, NEW outcome, NEW speaks
  PROVE  LET t == Command(s, r, outcome, speaks)
         IN  Good(t) /\ t.seq = r.seq /\ t.next >= s.next
  <1>1. r.line \in Authors /\ Notice \in Authors /\ r.seq \in Nat
    BY DEF Request, Authors, Notice
  <1> DEFINE spoken == IF outcome = "failed" THEN Write(s, Notice) ELSE WriteIf(s, speaks, r.line)
  <1>2. Continues(spoken, s)
    BY <1>1, WriteGood, WriteIfGood
  <1>3. Command(s, r, outcome, speaks) =
          [spoken EXCEPT !.seq = r.seq, !.closed = spoken.closed \/ outcome = "quit"]
    BY DEF Command
  <1> HIDE DEF spoken
  <1>4. Command(s, r, outcome, speaks) \in WideRow
    <2>1. spoken \in WideRow
      BY <1>2, GoodFields DEF Continues
    <2>2. QED BY <1>1, <1>3, <2>1 DEF WideRow
  <1>5. QED BY <1>2, <1>3, <1>4 DEF Continues, Good, WideRow

LEMMA SwallowGood ==
  ASSUME NEW s, Good(s), NEW r \in Request
  PROVE  LET t == Swallow(s, r)
         IN  /\ Good(t) /\ t.next = s.next
             /\ t.seq = IF s.closed /\ r.seq = s.seq + 1 THEN r.seq ELSE s.seq
  <1>1. CASE s.closed /\ r.seq = s.seq + 1
    <2>1. Swallow(s, r) = [s EXCEPT !.seq = r.seq]
      BY <1>1 DEF Swallow
    <2>2. QED BY <1>1, <2>1 DEF Good, WideRow, Request
  <1>2. CASE ~(s.closed /\ r.seq = s.seq + 1)
    BY <1>2 DEF Swallow
  <1>3. QED BY <1>1, <1>2

(***************************************************************************)
(* What a commit does to the rows.                                         *)
(***************************************************************************)

LEMMA WidenOutbox == Outbox \subseteq WideOutbox
  BY DEF Outbox, WideOutbox

LEMMA NoRowGood == NoRow \in Row /\ Good(NoRow)
  <1>1. NoOutput \in [{} -> Authors] /\ DOMAIN NoOutput = {}
    BY DEF NoOutput
  <1>2. NoOutput \in Outbox
    BY <1>1 DEF Outbox
  <1>3. QED BY <1>1, <1>2, WidenOutbox DEF NoRow, Row, Good, WideRow

LEMMA LoadedGood ==
  ASSUME TypeOK, OutboxIssued, NEW i \in Ids
  PROVE  Loaded(i) \in Row /\ Good(Loaded(i))
  <1>1. rows[i] \in Row /\ Good(rows[i])
    BY WidenOutbox DEF TypeOK, OutboxIssued, Row, Good, WideRow
  <1>2. QED BY <1>1, NoRowGood DEF Loaded

LEMMA NarrowRow ==
  ASSUME NEW s, Good(s), s.next <= MaxOut
  PROVE  s \in Row
  <1>1. PICK D \in SUBSET (Nat \ {0}) : s.out \in [D -> Authors]
    BY DEF Good, WideRow, WideOutbox
  <1>2. D \subseteq 1..MaxOut
    BY <1>1 DEF Good, WideRow
  <1>3. s.out \in Outbox
    BY <1>1, <1>2 DEF Outbox
  <1>4. s \in [seq: Nat, next: Nat, out: WideOutbox, closed: BOOLEAN] /\ s.next \in 0..MaxOut
    BY DEF Good, WideRow
  <1>5. QED BY <1>3, <1>4 DEF Row

LEMMA ChunksTyped ==
  ASSUME NEW sid \in Ids, NEW s \in Row
  PROVE  ChunksOf(sid, s) \subseteq Chunk
  <1>1. PICK D \in SUBSET (1..MaxOut) : s.out \in [D -> Authors]
    BY DEF Row, Outbox
  <1>2. \A i \in DOMAIN s.out : i \in 1..MaxOut /\ s.out[i] \in Authors
    BY <1>1
  <1>3. QED BY <1>2 DEF ChunksOf, Chunk

LEMMA CommitEffect ==
  ASSUME TypeOK, OutboxIssued, NEW sid \in Ids, NEW s \in Row, NEW seen \in BOOLEAN,
         Good(s), Commit(sid, s, seen)
  PROVE  /\ rows' \in [Ids -> Row] /\ age' \in [Ids -> {"live", "lapsed", "old"}]
         /\ purged' \subseteq Ids /\ emitted' \subseteq Chunk
         /\ OutboxIssued'
         /\ \A i \in Ids : /\ rows'[i] = IF i = sid THEN s ELSE Loaded(i)
                           /\ Loaded(i)' = rows'[i]
  <1>1. \A i \in Ids : rows'[i] = IF i = sid THEN s ELSE Loaded(i)
    BY DEF Commit
  <1>2. rows' \in [Ids -> Row]
    BY LoadedGood DEF Commit
  <1>3. age' \in [Ids -> {"live", "lapsed", "old"}] /\ \A i \in Ids : age'[i] # "old"
    BY DEF Commit, TypeOK
  <1>4. purged' \subseteq Ids /\ emitted' \subseteq Chunk
    BY ChunksTyped DEF Commit, TypeOK
  <1>5. OutboxIssued'
    BY <1>1, LoadedGood DEF OutboxIssued, Good
  <1>6. \A i \in Ids : Loaded(i)' = rows'[i]
    BY <1>3 DEF Loaded
  <1>7. QED BY <1>1, <1>2, <1>3, <1>4, <1>5, <1>6

(***************************************************************************)
(* A transaction moves its session's row to the request's number if it is  *)
(* ahead, takes no identifier back, and runs a line only as the next       *)
(* number of a row that exists.                                            *)
(***************************************************************************)

LEMMA ExecuteEffect ==
  ASSUME TypeOK, OutboxIssued, NEW r \in Request, Execute(r)
  PROVE  \E s \in Row :
           /\ Good(s) /\ Commit(r.id, s, TRUE) /\ Admitted(r)
           /\ s.seq = Max2(Loaded(r.id).seq, r.seq)
           /\ s.next >= Loaded(r.id).next
           /\ \/ ran' = ran
              \/ /\ ran' = Append(ran, r.line) /\ r.kind = "input"
                 /\ r.seq = Loaded(r.id).seq + 1
  <1> DEFINE s0 == Loaded(r.id)
             c0 == Closing(s0, r)
             s1 == Trim(c0, r.ack)
             s2(revoked, notice) == IF revoked THEN Revoke(s1) ELSE WriteIf(s1, notice = "demoted", Notice)
             w2(revoked, notice) == WriteIf(s2(revoked, notice), notice = "scene", Notice)
             s3(revoked, notice, speaks, outcome) ==
               IF Fresh(s2(revoked, notice), r)
                 THEN Command(w2(revoked, notice), r, outcome, speaks)
                 ELSE s2(revoked, notice)
  <1>1. PICK revoked \in BOOLEAN, speaks \in BOOLEAN, notice \in {"none", "demoted", "scene"},
             outcome \in Outcomes(r) :
          /\ Admitted(r)
          /\ ~Rejects(r)
          /\ revoked \/ notice # "none" => MaySignIn(s1)
          /\ notice = "scene" => r.kind = "input"
          /\ r.kind = "open" => speaks
          /\ Swallow(s3(revoked, notice, speaks, outcome), r).next <= MaxOut
          /\ Commit(r.id, Swallow(s3(revoked, notice, speaks, outcome), r), TRUE)
          /\ ran' = IF Fresh(s2(revoked, notice), r) /\ r.kind = "input" THEN Append(ran, r.line) ELSE ran
    BY Zenon DEF Execute
  <1> DEFINE a2 == s2(revoked, notice)
             b2 == w2(revoked, notice)
             a3 == s3(revoked, notice, speaks, outcome)
             s4 == Swallow(a3, r)
  <1>2. s0 \in Row /\ Good(s0) /\ r.id \in Ids /\ r.seq \in Nat
    BY LoadedGood DEF Request
  <1>3. /\ Good(c0) /\ c0.next = s0.next
        /\ c0.seq = IF r.kind = "close" THEN Max2(s0.seq, r.seq) ELSE s0.seq
        /\ r.kind = "close" => c0.closed
    BY <1>2, ClosingGood
  <1>4. Continues(s1, c0)
    BY <1>3, TrimGood
  <1>5. Notice \in Authors /\ Farewell \in Authors
    BY DEF Notice, Farewell, Authors
  <1>6. Continues(a2, s1)
    BY <1>4, <1>5, RevokeGood, WriteIfGood DEF Continues
  <1>7. Continues(b2, a2)
    BY <1>5, <1>6, WriteIfGood DEF Continues
  <1>8. /\ Good(a3) /\ a3.next >= a2.next
        /\ IF Fresh(a2, r) THEN a3.seq = r.seq ELSE a3 = a2
    <2>1. CASE Fresh(a2, r)
      <3>1. a3 = Command(b2, r, outcome, speaks)
        BY <2>1
      <3> HIDE DEF a3, b2
      <3>2. Good(a3) /\ a3.seq = r.seq /\ a3.next >= b2.next
        BY <1>7, <3>1, CommandGood DEF Continues
      <3> HIDE DEF a2
      <3>3. a3.next \in Nat /\ b2.next \in Nat /\ a2.next \in Nat
        BY <1>6, <1>7, <3>2, GoodFields DEF Continues
      <3>4. QED BY <1>7, <2>1, <3>2, <3>3 DEF Continues
    <2>2. CASE ~Fresh(a2, r)
      <3>1. a3 = a2
        BY <2>2
      <3> HIDE DEF a3, a2
      <3>2. QED BY <1>6, <2>2, <3>1, GoodFields DEF Continues
    <2>3. QED BY <2>1, <2>2
  <1>9. /\ Good(s4) /\ s4.next = a3.next
        /\ s4.seq = IF a3.closed /\ r.seq = a3.seq + 1 THEN r.seq ELSE a3.seq
    BY <1>8, SwallowGood
  <1>10. /\ Admitted(r) /\ ~Rejects(r) /\ s4.next <= MaxOut /\ Commit(r.id, s4, TRUE)
         /\ ran' = IF Fresh(a2, r) /\ r.kind = "input" THEN Append(ran, r.line) ELSE ran
    BY <1>1
  <1>11. r.seq <= c0.seq + 1
    <2> HIDE DEF s4, a2
    <2>1. ~SequenceGap(c0, r)
      BY <1>10 DEF Rejects
    <2> HIDE DEF c0
    <2>2. c0.seq \in Nat
      BY <1>3, GoodFields
    <2>3. QED BY <1>2, <2>1, <2>2 DEF SequenceGap
  <1> HIDE DEF s0, c0, s1, a2, b2, a3, s4
  <1>12. /\ s0.seq \in Nat /\ c0.seq \in Nat /\ s1.seq \in Nat /\ a2.seq \in Nat /\ a3.seq \in Nat
         /\ s0.next \in Nat /\ c0.next \in Nat /\ s1.next \in Nat /\ a2.next \in Nat /\ a3.next \in Nat
         /\ a2.closed \in BOOLEAN /\ a3.closed \in BOOLEAN
    BY <1>2, <1>3, <1>4, <1>6, <1>8, GoodFields DEF Continues
  <1>13. s4 \in Row
    BY <1>9, <1>10, NarrowRow
  <1>14. a2.seq = c0.seq
    BY <1>4, <1>6 DEF Continues
  <1>15. s4.seq = Max2(s0.seq, r.seq)
    <2>1. CASE Fresh(a2, r)
      BY <1>2, <1>3, <1>8, <1>9, <1>12, <1>14, <2>1 DEF Fresh, Max2
    <2>2. CASE ~Fresh(a2, r)
      BY <1>2, <1>3, <1>8, <1>9, <1>11, <1>12, <1>14, <2>2 DEF Fresh, Max2
    <2>3. QED BY <2>1, <2>2
  <1>16. s4.next >= s0.next
    BY <1>3, <1>4, <1>6, <1>8, <1>9, <1>12 DEF Continues
  <1>17. \/ ran' = ran
         \/ /\ ran' = Append(ran, r.line) /\ r.kind = "input"
            /\ r.seq = s0.seq + 1
    BY <1>3, <1>10, <1>14 DEF Fresh
  <1>18. QED BY <1>9, <1>10, <1>13, <1>15, <1>16, <1>17 DEF s0

\* What Transaction(r) may do to the rows and to the lines run.
Moves(r) ==
  /\ \A i \in Ids : Loaded(i)'.seq \in Nat /\ Loaded(i)'.next \in Nat
  /\ \A i \in Ids : Loaded(i).seq <= Loaded(i)'.seq /\ Loaded(i).next <= Loaded(i)'.next
  /\ \A i \in Ids : i # r.id => /\ Loaded(i)' = Loaded(i)
                                /\ rows[i].seq = 0 => rows'[i].seq = 0
  /\ Known(r.id) => Loaded(r.id)'.seq = Max2(Loaded(r.id).seq, r.seq)
  /\ ~Known(r.id) /\ Opens(r) => Loaded(r.id)'.seq = 1
  /\ ~Known(r.id) /\ ~Opens(r) => ~Known(r.id)'
  /\ \/ ran' = ran
     \/ /\ ran' = Append(ran, r.line) /\ r.kind = "input"
        /\ Known(r.id) /\ r.seq = Loaded(r.id).seq + 1

LEMMA LoadedNumbers ==
  ASSUME TypeOK, NEW i \in Ids
  PROVE  Loaded(i).seq \in Nat /\ Loaded(i).next \in Nat /\ (Known(i) <=> Loaded(i).seq # 0)
  BY DEF TypeOK, Row, Loaded, NoRow, Known

LEMMA TransactionMoves ==
  ASSUME TypeOK, OutboxIssued, NEW r \in Request, Transaction(r)
  PROVE  Moves(r)
  <1>1. r.id \in Ids /\ r.seq \in Nat
    BY DEF Request
  <1>2. CASE Execute(r)
    <2>1. PICK s \in Row :
            /\ Good(s) /\ Commit(r.id, s, TRUE) /\ Admitted(r)
            /\ s.seq = Max2(Loaded(r.id).seq, r.seq)
            /\ s.next >= Loaded(r.id).next
            /\ \/ ran' = ran
               \/ /\ ran' = Append(ran, r.line) /\ r.kind = "input"
                  /\ r.seq = Loaded(r.id).seq + 1
      BY <1>2, ExecuteEffect
    <2>2. \A i \in Ids : /\ rows'[i] = IF i = r.id THEN s ELSE Loaded(i)
                         /\ Loaded(i)' = rows'[i]
      BY <1>1, <2>1, CommitEffect
    <2>3. s.seq \in Nat /\ s.next \in Nat
      BY <2>1, GoodFields
    <2>4. \A i \in Ids : Loaded(i)' = IF i = r.id THEN s ELSE Loaded(i)
      BY <2>2
    <2>5. \A i \in Ids : rows[i].seq = 0 => Loaded(i).seq = 0
      BY DEF Loaded, NoRow
    <2>6. /\ \A i \in Ids : Loaded(i)'.seq \in Nat /\ Loaded(i)'.next \in Nat
          /\ \A i \in Ids : Loaded(i).seq <= Loaded(i)'.seq /\ Loaded(i).next <= Loaded(i)'.next
      BY <1>1, <2>1, <2>3, <2>4, LoadedNumbers DEF Max2
    <2>7. \A i \in Ids : i # r.id => /\ Loaded(i)' = Loaded(i)
                                     /\ rows[i].seq = 0 => rows'[i].seq = 0
      BY <2>2, <2>4, <2>5
    <2>8. Loaded(r.id)' = s
      BY <1>1, <2>4
    <2>9. ~Known(r.id) /\ Opens(r) => s.seq = 1
      BY <1>1, <2>1, LoadedNumbers DEF Opens, Max2
    <2>10. Known(r.id) \/ Opens(r)
      BY <2>1 DEF Admitted
    <2>11. r.kind = "input" => ~Opens(r)
      BY DEF Opens
    <2>12. QED BY <2>1, <2>6, <2>7, <2>8, <2>9, <2>10, <2>11 DEF Moves
  <1>3. CASE Unknown(r)
    <2>1. /\ rows' = rows /\ ran' = ran /\ ~Known(r.id) /\ ~Opens(r)
          /\ \A i \in Ids : Loaded(i)' = Loaded(i) /\ Known(i)' = Known(i)
      BY <1>3 DEF Unknown, Admitted, Loaded, Known
    <2>2. QED BY <1>1, <2>1, LoadedNumbers DEF Moves
  <1>4. QED BY <1>2, <1>3 DEF Transaction

LEMMA TransactionTypes ==
  ASSUME TypeOK, OutboxIssued, LinesTaken, NEW r \in strays \cup {req}, Transaction(r)
  PROVE  /\ rows' \in [Ids -> Row] /\ age' \in [Ids -> {"live", "lapsed", "old"}]
         /\ purged' \subseteq Ids /\ emitted' \subseteq Chunk
         /\ ran' \in Seq(Lines)
         /\ OutboxIssued'
  <1>1. r \in Request
    BY DEF TypeOK
  <1> r.id \in Ids /\ r.line \in 0..MaxLines
    BY <1>1 DEF Request
  <1>2. r.kind = "input" => r.line \in Lines
    BY <1>1 DEF LinesTaken, Lines
  <1>3. CASE Execute(r)
    <2>1. PICK s \in Row :
            /\ Good(s) /\ Commit(r.id, s, TRUE)
            /\ \/ ran' = ran
               \/ /\ ran' = Append(ran, r.line) /\ r.kind = "input"
      BY <1>1, <1>3, ExecuteEffect
    <2>2. ran \in Seq(Lines)
      BY DEF TypeOK
    <2>3. ran' \in Seq(Lines)
      BY <1>2, <2>1, <2>2
    <2>4. QED BY <1>1, <2>1, <2>3, CommitEffect
  <1>4. CASE Unknown(r)
    BY <1>4 DEF Unknown, TypeOK, OutboxIssued
  <1>5. QED BY <1>3, <1>4 DEF Transaction

(***************************************************************************)
(* The conjuncts of the invariant a transaction of the terminal keeps,     *)
(* whether the edge waits for it or has given it up.                       *)
(***************************************************************************)

Served(r) ==
  /\ r \in strays \/ (r = req /\ link = "sent")
  /\ Transaction(r)
  /\ UNCHANGED <<edgeVars, strays, lost, shown>>

\* An opening that brings the row to life is number 1 of the current UUID, and
\* the edge has not received an answer to it.
LEMMA OpeningIsFirst ==
  ASSUME RequestInv, NEW r, Served(r), Opens(r), r.id = req.id, ~Known(req.id)
  PROVE  /\ req.seq = 1 /\ phase \in {"call", "closing", "gone"}
         /\ phase = "call" => link # "answered"
  <1>1. CASE r \in strays
    <2>1. ReopenedOnlyFirst
      BY DEF RequestInv
    <2>2. QED BY <1>1, <2>1 DEF ReopenedOnlyFirst
  <1>2. CASE r = req /\ link = "sent"
    <2>1. phase \notin {"show", "select"} /\ phase \in {"call", "show", "select", "closing", "gone"}
      BY <1>2 DEF RequestInv, AnswerCurrent, TypeOK
    <2>2. QED BY <1>2, <2>1 DEF Opens
  <1>3. QED BY <1>1, <1>2 DEF Served

LEMMA ServedAir ==
  ASSUME RequestInv, NEW r, Served(r)
  PROVE  /\ r \in InAir /\ r \in Request /\ r \in strays \cup {req} /\ Moves(r)
         /\ InAir' = InAir /\ strays' = strays /\ req' = req /\ phase' = phase /\ taken' = taken
         /\ r.id \in Ids /\ req.id \in Ids /\ r.seq \in Nat /\ req.seq \in Nat /\ req.ack \in Nat
         /\ r.seq >= 1 /\ req.seq >= 1
         /\ r.id <= req.id /\ (r.id < req.id => ~Opens(r) /\ ~Known(r.id))
         /\ r.id = req.id => r.seq <= req.seq
  <1>1. r \in InAir
    BY DEF RequestInv, Served, AnswerCurrent, InAir
  <1>2. r \in Request /\ r \in strays \cup {req} /\ req \in Request
    BY DEF RequestInv, Served, TypeOK
  <1>3. Moves(r)
    BY <1>2, TransactionMoves DEF RequestInv, Served
  <1>4. InAir' = InAir /\ strays' = strays /\ req' = req /\ phase' = phase /\ taken' = taken
    BY DEF Served, InAir, edgeVars
  <1>5. r.id \in Ids /\ req.id \in Ids /\ r.seq \in Nat /\ req.seq \in Nat /\ req.ack \in Nat
    BY <1>2 DEF Request
  <1>6. r.seq >= 1 /\ req.seq >= 1
    BY <1>2 DEF RequestInv, FirstOpens
  <1>7. /\ r.id <= req.id /\ (r.id < req.id => ~Opens(r) /\ ~Known(r.id))
        /\ r.id = req.id => r.seq <= req.seq
    BY <1>2, <1>5 DEF RequestInv, OtherIdsGone, SequenceClose, Ids
  <1>8. QED BY <1>1, <1>2, <1>3, <1>4, <1>5, <1>6, <1>7
LEMMA ServedLines ==
  ASSUME RequestInv, NEW r, Served(r)
  PROVE  LinesTaken' /\ NextLineIsLater' /\ RanOnceInOrder'
  <1> USE ServedAir
  <1>1. ran \in Seq(Lines) /\ ran' \in Seq(Lines)
    BY TransactionTypes DEF RequestInv, Served, TypeOK
  <1>2. CASE ran' = ran
    <2>1. LinesTaken'
      BY <1>2 DEF RequestInv, LinesTaken
    <2>2. RanOnceInOrder'
      BY <1>2 DEF RequestInv, RanOnceInOrder
    <2>3. NextLineIsLater'
      <3> SUFFICES ASSUME NEW x \in InAir, x.kind = "input", x.id = req.id, x.seq = req.seq,
                          Known(req.id)', Loaded(req.id)'.seq < req.seq
                   PROVE  \A i \in DOMAIN ran : ran[i] < x.line
        BY <1>2 DEF NextLineIsLater
      <3>1. Known(req.id)
        <4>1. SUFFICES ASSUME ~Known(req.id) PROVE FALSE
          OBVIOUS
        <4>2. r.id = req.id /\ Opens(r)
          BY <4>1 DEF Moves, Known
        <4>3. Loaded(req.id)'.seq = 1 /\ req.seq = 1
          BY <4>1, <4>2, OpeningIsFirst DEF Moves
        <4>4. QED BY <4>3
      <3>2. Loaded(req.id).seq < req.seq
        <4>1. Loaded(req.id).seq <= Loaded(req.id)'.seq
          BY DEF Moves
        <4>2. Loaded(req.id).seq \in Nat /\ Loaded(req.id)'.seq \in Nat
          BY LoadedNumbers DEF Moves, RequestInv
        <4>3. QED BY <4>1, <4>2
      <3>3. QED BY <3>1, <3>2 DEF RequestInv, NextLineIsLater
    <2>4. QED BY <2>1, <2>2, <2>3
  <1>3. CASE /\ ran' = Append(ran, r.line) /\ r.kind = "input"
             /\ Known(r.id) /\ r.seq = Loaded(r.id).seq + 1
    <2>1. r.id = req.id
      BY <1>3 DEF Ids
    <2>2. Loaded(req.id).seq \in Nat /\ r.seq = req.seq
      BY <1>3, <2>1, LoadedNumbers DEF RequestInv, SequenceClose
    <2>3. \A i \in DOMAIN ran : ran[i] < r.line
      BY <1>3, <2>1, <2>2 DEF RequestInv, NextLineIsLater
    <2>4. r.line <= taken
      BY <1>3 DEF RequestInv, LinesTaken
    <2>5. r.line \in Nat /\ Len(ran) \in Nat
      BY <1>1 DEF Request
    <2>6. /\ DOMAIN ran = 1..Len(ran)
          /\ DOMAIN ran' = 1..(Len(ran) + 1)
          /\ \A i \in DOMAIN ran' : ran'[i] = IF i = Len(ran) + 1 THEN r.line ELSE ran[i]
      BY <1>1, <1>3, <2>5
    <2>7. LinesTaken'
      BY <2>4, <2>5, <2>6 DEF RequestInv, LinesTaken
    <2>8. RanOnceInOrder'
      <3>1. SUFFICES ASSUME NEW i \in DOMAIN ran', NEW j \in DOMAIN ran', i < j
                     PROVE  ran'[i] < ran'[j]
        BY DEF RanOnceInOrder
      <3>2. i \in DOMAIN ran /\ ran'[i] = ran[i]
        BY <2>5, <2>6, <3>1
      <3>3. CASE j = Len(ran) + 1
        BY <2>3, <2>6, <3>2, <3>3
      <3>4. CASE j # Len(ran) + 1
        BY <2>5, <2>6, <3>1, <3>2, <3>4 DEF RequestInv, RanOnceInOrder
      <3>5. QED BY <3>3, <3>4
    <2>9. NextLineIsLater'
      <3>1. Loaded(req.id)'.seq = req.seq
        BY <1>3, <2>1, <2>2 DEF Moves, Max2
      <3>2. QED BY <3>1 DEF NextLineIsLater
    <2>10. QED BY <2>7, <2>8, <2>9
  <1>4. QED BY <1>2, <1>3 DEF Moves

LEMMA ServedRows ==
  ASSUME RequestInv, NEW r, Served(r)
  PROVE  OtherIdsGone' /\ SequenceClose' /\ FirstOpens' /\ AckKnown' /\ OutboxIssued'
  <1> USE ServedAir
  <1>1. /\ Loaded(req.id).seq \in Nat /\ Loaded(req.id).next \in Nat
        /\ Known(req.id) <=> Loaded(req.id).seq # 0
        /\ Loaded(req.id)'.seq \in Nat /\ Loaded(req.id)'.next \in Nat
    BY LoadedNumbers DEF RequestInv, Moves
  <1>2. Known(req.id)' <=> Loaded(req.id)'.seq > 0
    BY DEF Known
  <1>3. OtherIdsGone'
    <2>1. \A i \in Ids : i < req.id => ~Known(i)'
      BY DEF RequestInv, OtherIdsGone, Moves, Known, Ids
    <2>2. \A i \in Ids : i > req.id => rows'[i].seq = 0
      BY DEF RequestInv, OtherIdsGone, Moves, Ids
    <2>3. QED BY <2>1, <2>2 DEF RequestInv, OtherIdsGone
  <1>4. SequenceClose'
    <2>1. Known(req.id)' => Loaded(req.id)'.seq <= req.seq /\ req.seq <= Loaded(req.id)'.seq + 1
      <3>1. CASE Known(req.id)
        <4>1. Loaded(req.id).seq <= req.seq /\ req.seq <= Loaded(req.id).seq + 1
          BY <3>1 DEF RequestInv, SequenceClose
        <4>2. Loaded(req.id)'.seq <= req.seq
          BY <1>1, <3>1, <4>1 DEF Moves, Max2
        <4>3. Loaded(req.id).seq <= Loaded(req.id)'.seq
          BY DEF Moves
        <4>4. QED BY <1>1, <4>1, <4>2, <4>3
      <3>2. CASE ~Known(req.id) /\ r.id = req.id /\ Opens(r)
        BY <3>2, OpeningIsFirst DEF Moves
      <3>3. CASE ~Known(req.id) /\ ~(r.id = req.id /\ Opens(r))
        BY <3>3 DEF Moves, Known
      <3>4. QED BY <3>1, <3>2, <3>3
    <2>2. QED BY <2>1 DEF RequestInv, SequenceClose
  <1>5. FirstOpens'
    BY DEF RequestInv, FirstOpens
  <1>6. AckKnown'
    <2>1. SUFFICES ASSUME phase \in {"call", "show", "select"}, Known(req.id)'
                   PROVE  req.ack <= Loaded(req.id)'.next
      BY DEF AckKnown
    <2>2. CASE Known(req.id)
      <3>1. req.ack <= Loaded(req.id).next
        BY <2>1, <2>2 DEF RequestInv, AckKnown
      <3>2. Loaded(req.id).next <= Loaded(req.id)'.next
        BY DEF Moves
      <3>3. QED BY <1>1, <3>1, <3>2
    <2>3. CASE ~Known(req.id)
      <3>1. r.id = req.id /\ Opens(r)
        BY <2>1, <2>3 DEF Moves, Known
      <3>2. phase = "call" /\ req.seq = 1
        BY <2>1, <2>3, <3>1, OpeningIsFirst
      <3>3. req.ack = 0
        BY <3>2 DEF RequestInv, FirstOpens
      <3>4. QED BY <1>1, <3>3
    <2>4. QED BY <2>2, <2>3
  <1>7. OutboxIssued'
    BY TransactionTypes DEF RequestInv, Served
  <1>8. QED BY <1>3, <1>4, <1>5, <1>6, <1>7

(***************************************************************************)
(* The steps of the cores, one lemma each.                                 *)
(***************************************************************************)

LEMMA RowIsReply ==
  ASSUME NEW s \in Row, NEW q \in Nat, NEW b \in BOOLEAN
  PROVE  /\ [seq |-> s.seq, out |-> s.out, closed |-> s.closed, reset |-> FALSE] \in Reply
         /\ [seq |-> q, out |-> NoOutput, closed |-> b, reset |-> ~b] \in Reply
         /\ NoReply \in Reply
  BY NoRowGood DEF Row, Reply, NoReply, NoRow

LEMMA ServeStep ==
  ASSUME RequestInv, Serve
  PROVE  RequestInv'
  <1>1. Served(req) /\ link = "sent" /\ link' = "answered" /\ reply' = Answer(req, rows'[req.id])
    BY DEF Serve, Served
  <1> USE ServedAir
  <1>2. req \in Request /\ req' = req /\ phase' = phase /\ strays' = strays
    BY <1>1
  <1>3. phase \notin {"show", "select"}
    BY <1>1 DEF RequestInv, AnswerCurrent
  <1>4. /\ rows' \in [Ids -> Row] /\ age' \in [Ids -> {"live", "lapsed", "old"}]
        /\ purged' \subseteq Ids /\ emitted' \subseteq Chunk /\ ran' \in Seq(Lines)
    BY <1>1, TransactionTypes DEF RequestInv, Served
  <1>5. reply' \in Reply
    <2>1. rows'[req.id] \in Row
      BY <1>1, <1>4
    <2>2. CASE Admitted(req)
      BY <1>1, <2>1, <2>2, RowIsReply DEF Answer
    <2>3. CASE ~Admitted(req)
      BY <1>1, <1>2, <2>1, <2>3, RowIsReply DEF Answer
    <2>4. QED BY <2>2, <2>3
  <1>6. TypeOK'
    BY <1>1, <1>4, <1>5 DEF RequestInv, TypeOK, Served, edgeVars
  <1>7. ReopenedOnlyFirst'
    <2>1. SUFFICES ASSUME NEW x \in strays, x.id = req.id, Opens(x), ~Known(req.id)'
                   PROVE  req.seq = 1 /\ phase \in {"closing", "gone"}
      BY <1>2 DEF ReopenedOnlyFirst
    <2>2. ~Known(req.id)
      BY <1>1, <2>1, LoadedNumbers DEF Moves, Known, RequestInv
    <2>3. req.seq = 1 /\ (phase \in {"closing", "gone"} \/ phase = "call")
      BY <2>1, <2>2 DEF RequestInv, ReopenedOnlyFirst
    <2>4. phase # "call"
      <3>1. SUFFICES ASSUME phase = "call" PROVE FALSE
        OBVIOUS
      <3>2. Opens(req)
        BY <2>3, <3>1 DEF RequestInv, FirstOpens, Opens
      <3>3. QED BY <1>1, <2>1, <2>2, <3>2 DEF Moves, Known
    <2>5. QED BY <2>3, <2>4
  <1>8. AnswerCurrent'
    <2>1. CASE Execute(req)
      <3>1. PICK s \in Row :
              /\ Good(s) /\ Commit(req.id, s, TRUE) /\ Admitted(req)
              /\ s.seq = Max2(Loaded(req.id).seq, req.seq)
        BY <1>2, <2>1, ExecuteEffect DEF RequestInv
      <3>2. rows'[req.id] = s /\ Loaded(req.id)' = s
        BY <1>1, <3>1, CommitEffect DEF RequestInv
      <3>3. /\ reply'.seq = s.seq /\ reply'.out = s.out /\ reply'.reset = FALSE
        BY <1>1, <3>1, <3>2 DEF Answer
      <3>4. s.seq = req.seq
        BY <1>1, <3>1, LoadedNumbers DEF Max2, RequestInv, SequenceClose
      <3>5. DOMAIN s.out \subseteq 1..s.next
        BY <3>1, GoodFields
      <3>6. QED BY <1>1, <1>2, <1>3, <3>2, <3>3, <3>4, <3>5 DEF AnswerCurrent
    <2>2. CASE Unknown(req)
      <3>1. ~Admitted(req)
        BY <2>2 DEF Unknown
      <3>2. reply'.seq = req.seq
        BY <1>1, <3>1 DEF Answer
      <3>3. ~Known(req.id)' /\ ~Opens(req) /\ Opens(req)' = Opens(req)
        BY <1>1, <1>2, <3>1 DEF Moves, Admitted, Opens
      <3>4. QED BY <1>1, <1>2, <1>3, <3>2, <3>3 DEF AnswerCurrent
    <2>3. QED BY <1>1, <2>1, <2>2 DEF Served, Transaction
  <1>9. QED BY <1>1, <1>6, <1>7, <1>8, ServedRows, ServedLines DEF RequestInv

LEMMA ServeStrayStep ==
  ASSUME RequestInv, ServeStray
  PROVE  RequestInv'
  <1>1. PICK r \in strays : Transaction(r)
    BY DEF ServeStray
  <1>2. Served(r) /\ link' = link /\ reply' = reply
    BY <1>1 DEF ServeStray, Served, linkVars
  <1> USE ServedAir
  <1>3. req \in Request /\ req' = req /\ phase' = phase /\ strays' = strays
    BY <1>2 DEF RequestInv, TypeOK
  <1>4. TypeOK'
    <2>1. /\ rows' \in [Ids -> Row] /\ age' \in [Ids -> {"live", "lapsed", "old"}]
          /\ purged' \subseteq Ids /\ emitted' \subseteq Chunk /\ ran' \in Seq(Lines)
      BY <1>2, TransactionTypes DEF RequestInv, Served
    <2>2. QED BY <1>2, <2>1 DEF RequestInv, TypeOK, Served, edgeVars
  <1>5. \A i \in Ids : Known(i) => Known(i)'
    BY <1>2, LoadedNumbers DEF RequestInv, Moves, Known
  <1>6. ReopenedOnlyFirst'
    <2>1. SUFFICES ASSUME NEW x \in strays, x.id = req.id, Opens(x), ~Known(req.id)'
                   PROVE  req.seq = 1 /\ (phase \in {"closing", "gone"} \/ (phase = "call" /\ link # "answered"))
      BY <1>2, <1>3 DEF ReopenedOnlyFirst
    <2>2. ~Known(req.id)
      BY <1>2, <1>5, <2>1
    <2>3. QED BY <2>1, <2>2 DEF RequestInv, ReopenedOnlyFirst
  <1>7. AnswerCurrent'
    <2>1. CASE ~(link = "answered" /\ phase \in {"call", "show"})
      BY <1>2, <1>3, <2>1 DEF RequestInv, AnswerCurrent
    <2>2. CASE link = "answered" /\ phase \in {"call", "show"}
      <3>1. Known(req.id)' => Known(req.id)
        <4>1. SUFFICES ASSUME Known(req.id)', ~Known(req.id) PROVE FALSE
          OBVIOUS
        <4>2. r.id = req.id /\ Opens(r)
          BY <1>2, <4>1 DEF Moves, Known
        <4>3. phase = "call" /\ link # "answered"
          BY <1>2, <2>2, <4>1, <4>2, OpeningIsFirst
        <4>4. QED BY <2>2, <4>3
      <3>2. ~reply.reset /\ Known(req.id)' =>
              /\ Loaded(req.id)'.seq >= req.seq
              /\ DOMAIN reply.out \subseteq 1..Loaded(req.id)'.next
        <4>1. SUFFICES ASSUME ~reply.reset, Known(req.id)'
                       PROVE  /\ Loaded(req.id)'.seq >= req.seq
                              /\ DOMAIN reply.out \subseteq 1..Loaded(req.id)'.next
          OBVIOUS
        <4>2. /\ Loaded(req.id).seq >= req.seq
              /\ DOMAIN reply.out \subseteq 1..Loaded(req.id).next
          BY <2>2, <3>1, <4>1 DEF RequestInv, AnswerCurrent
        <4>3. /\ Loaded(req.id).seq <= Loaded(req.id)'.seq
              /\ Loaded(req.id).next <= Loaded(req.id)'.next
          BY <1>2 DEF Moves
        <4>4. /\ Loaded(req.id).seq \in Nat /\ Loaded(req.id).next \in Nat
              /\ Loaded(req.id)'.seq \in Nat /\ Loaded(req.id)'.next \in Nat
          BY <1>2, LoadedNumbers DEF Moves, RequestInv
        <4>5. QED BY <1>2, <4>2, <4>3, <4>4
      <3>3. reply.reset => ~Known(req.id)' /\ ~Opens(req)
        BY <2>2, <3>1 DEF RequestInv, AnswerCurrent
      <3>4. Opens(req)' = Opens(req)
        BY <1>3 DEF Opens
      <3>5. QED BY <1>2, <1>3, <2>2, <3>2, <3>3, <3>4 DEF RequestInv, AnswerCurrent
    <2>3. QED BY <2>1, <2>2
  <1>8. QED BY <1>2, <1>4, <1>6, <1>7, ServedRows, ServedLines DEF RequestInv
LEMMA OtherTransactionStep ==
  ASSUME RequestInv, OtherTransaction
  PROVE  RequestInv'
  <1>1. PICK sid \in Ids, t \in WideRow :
          /\ Continues(t, rows[sid]) /\ t.next <= MaxOut /\ Commit(sid, t, FALSE)
          /\ age[sid] = "live" /\ MaySignIn(rows[sid])
          /\ UNCHANGED <<edgeVars, linkVars, ran, lost, shown>>
    <2>1. PICK sid \in Ids, revoked \in BOOLEAN :
            LET t == IF revoked THEN Revoke(rows[sid]) ELSE Write(rows[sid], Notice)
            IN  /\ age[sid] = "live" /\ MaySignIn(rows[sid])
                /\ t.next <= MaxOut
                /\ Commit(sid, t, FALSE)
                /\ UNCHANGED <<edgeVars, linkVars, ran, lost, shown>>
      BY DEF OtherTransaction
    <2>2. Notice \in Authors /\ Good(rows[sid])
      BY LoadedGood, <2>1 DEF Notice, Authors, RequestInv, Loaded
    <2>3. Continues(IF revoked THEN Revoke(rows[sid]) ELSE Write(rows[sid], Notice), rows[sid])
      BY <2>2, RevokeGood, WriteGood
    <2>4. QED BY <2>1, <2>3 DEF Continues, Good
  <1>2. Good(t) /\ t \in Row /\ t.seq = rows[sid].seq /\ t.next >= rows[sid].next /\ t.seq \in Nat /\ t.next \in Nat
    BY <1>1, NarrowRow, GoodFields DEF Continues
  <1>3. /\ rows' \in [Ids -> Row] /\ age' \in [Ids -> {"live", "lapsed", "old"}]
        /\ purged' \subseteq Ids /\ emitted' \subseteq Chunk
        /\ OutboxIssued'
        /\ \A i \in Ids : /\ rows'[i] = IF i = sid THEN t ELSE Loaded(i)
                          /\ Loaded(i)' = rows'[i]
    BY <1>1, <1>2, CommitEffect DEF RequestInv
  <1>4. /\ phase' = phase /\ req' = req /\ taken' = taken /\ link' = link /\ reply' = reply
        /\ strays' = strays /\ ran' = ran /\ InAir' = InAir
    BY <1>1 DEF edgeVars, linkVars, InAir
  <1>5. Loaded(sid) = rows[sid]
    BY <1>1 DEF Loaded
  <1>6. \A i \in Ids : /\ Loaded(i)'.seq = Loaded(i).seq /\ Loaded(i)'.next >= Loaded(i).next
                       /\ Loaded(i).next \in Nat /\ Loaded(i)'.next \in Nat
                       /\ rows'[i].seq = Loaded(i).seq
    BY <1>2, <1>3, <1>5, LoadedNumbers DEF RequestInv
  <1>7. \A i \in Ids : /\ Known(i)' = Known(i)
                       /\ rows[i].seq = 0 => rows'[i].seq = 0
    BY <1>6 DEF Known, Loaded, NoRow
  <1>8. req \in Request /\ req.id \in Ids /\ req.ack \in Nat
    BY DEF RequestInv, TypeOK, Request
  <1>9. TypeOK'
    BY <1>1, <1>3 DEF RequestInv, TypeOK, edgeVars, linkVars
  <1>10. LinesTaken' /\ FirstOpens' /\ RanOnceInOrder'
    BY <1>4 DEF RequestInv, LinesTaken, FirstOpens, RanOnceInOrder
  <1>11. OtherIdsGone'
    BY <1>4, <1>7 DEF RequestInv, OtherIdsGone
  <1>12. SequenceClose'
    BY <1>4, <1>6, <1>7, <1>8 DEF RequestInv, SequenceClose
  <1>13. ReopenedOnlyFirst'
    BY <1>4, <1>7, <1>8 DEF RequestInv, ReopenedOnlyFirst
  <1>14. AnswerCurrent'
    <2>1. SUFFICES ASSUME link = "answered", phase \in {"call", "show"}, ~reply.reset, Known(req.id)
                   PROVE  DOMAIN reply.out \subseteq 1..Loaded(req.id)'.next
      BY <1>4, <1>6, <1>7, <1>8 DEF RequestInv, AnswerCurrent, Opens
    <2>2. DOMAIN reply.out \subseteq 1..Loaded(req.id).next
      BY <2>1 DEF RequestInv, AnswerCurrent
    <2>3. /\ Loaded(req.id)'.next >= Loaded(req.id).next
          /\ Loaded(req.id)'.next \in Nat /\ Loaded(req.id).next \in Nat
      BY <1>4, <1>6, <1>8
    <2>4. QED BY <2>2, <2>3
  <1>15. AckKnown'
    BY <1>4, <1>6, <1>7, <1>8 DEF RequestInv, AckKnown
  <1>16. NextLineIsLater'
    BY <1>4, <1>6, <1>7, <1>8 DEF RequestInv, NextLineIsLater
  <1>17. QED BY <1>3, <1>9, <1>10, <1>11, <1>12, <1>13, <1>14, <1>15, <1>16 DEF RequestInv

LEMMA ElapseStep ==
  ASSUME RequestInv, Elapse
  PROVE  RequestInv'
  <1>1. PICK sid \in Ids :
          /\ rows[sid].seq > 0
          /\ \/ age[sid] = "live" /\ age' = [age EXCEPT ![sid] = "lapsed"]
             \/ /\ age[sid] = "lapsed"
                /\ sid < MaxIds /\ \A r \in strays : r.id # sid
                /\ age' = [age EXCEPT ![sid] = "old"]
    BY DEF Elapse
  <1>2. /\ phase' = phase /\ req' = req /\ typed' = typed /\ taken' = taken /\ link' = link /\ reply' = reply
        /\ strays' = strays /\ ran' = ran /\ InAir' = InAir /\ rows' = rows
        /\ lost' = lost /\ purged' = purged /\ emitted' = emitted /\ shown' = shown
    BY DEF Elapse, edgeVars, linkVars, histVars, InAir
  <1>3. age \in [Ids -> {"live", "lapsed", "old"}] /\ req \in Request /\ req.id \in Ids
    BY DEF RequestInv, TypeOK, Request
  <1>4. age' \in [Ids -> {"live", "lapsed", "old"}]
    BY <1>1, <1>3
  <1>5. \A i \in Ids : /\ Known(i)' => Known(i) /\ Loaded(i)' = Loaded(i)
                       /\ Known(i) /\ ~Known(i)' => \A r \in strays : r.id # i
    BY <1>1, <1>2, <1>3 DEF Known, Loaded, NoRow
  <1>6. TypeOK'
    BY <1>2, <1>4 DEF RequestInv, TypeOK
  <1>7. LinesTaken' /\ FirstOpens' /\ RanOnceInOrder' /\ OutboxIssued'
    BY <1>2 DEF RequestInv, LinesTaken, FirstOpens, RanOnceInOrder, OutboxIssued
  <1>8. OtherIdsGone'
    BY <1>2, <1>5 DEF RequestInv, OtherIdsGone
  <1>9. SequenceClose'
    BY <1>2, <1>3, <1>5 DEF RequestInv, SequenceClose
  <1>10. ReopenedOnlyFirst'
    BY <1>2, <1>3, <1>5 DEF RequestInv, ReopenedOnlyFirst
  <1>11. AnswerCurrent'
    BY <1>2, <1>3, <1>5 DEF RequestInv, AnswerCurrent, Opens
  <1>12. AckKnown'
    BY <1>2, <1>3, <1>5 DEF RequestInv, AckKnown
  <1>13. NextLineIsLater'
    BY <1>2, <1>3, <1>5 DEF RequestInv, NextLineIsLater
  <1>14. QED BY <1>6, <1>7, <1>8, <1>9, <1>10, <1>11, <1>12, <1>13 DEF RequestInv

(***************************************************************************)
(* The steps of the edge and of the hop: they leave the rows alone.        *)
(***************************************************************************)

LEMMA SameRows ==
  ASSUME UNCHANGED dbVars
  PROVE  \A i \in Ids : Loaded(i)' = Loaded(i) /\ Known(i)' = Known(i)
  BY DEF dbVars, Loaded, Known

\* What every step below uses of the state it starts in.
LEMMA Before ==
  ASSUME RequestInv
  PROVE  /\ req \in Request /\ req.id \in Ids /\ req.seq \in Nat /\ req.ack \in Nat
         /\ req.kind \in Kinds /\ req.line \in 0..MaxLines
         /\ strays \subseteq Request /\ reply \in Reply /\ taken \in 0..MaxLines
         /\ Loaded(req.id).seq \in Nat /\ Loaded(req.id).next \in Nat
         /\ ran \in Seq(Lines) /\ req.seq >= 1
  <1>1. /\ req \in Request /\ strays \subseteq Request /\ reply \in Reply /\ taken \in 0..MaxLines
        /\ ran \in Seq(Lines)
    BY DEF RequestInv, TypeOK
  <1>2. req.id \in Ids /\ req.seq \in Nat /\ req.ack \in Nat /\ req.kind \in Kinds /\ req.line \in 0..MaxLines
    BY <1>1 DEF Request
  <1>3. Loaded(req.id).seq \in Nat /\ Loaded(req.id).next \in Nat
    BY <1>2, LoadedNumbers DEF RequestInv
  <1>4. req.seq >= 1
    BY DEF RequestInv, FirstOpens
  <1>5. QED BY <1>1, <1>2, <1>3, <1>4

LEMMA RequestSeq ==
  ASSUME NEW r \in Request, NEW q \in Nat
  PROVE  LET t == [r EXCEPT !.seq = q]
         IN  /\ t \in Request /\ t.id = r.id /\ t.seq = q /\ t.ack = r.ack
             /\ t.kind = r.kind /\ t.line = r.line
  BY DEF Request

LEMMA RequestAck ==
  ASSUME NEW r \in Request, NEW a \in Nat
  PROVE  LET t == [r EXCEPT !.ack = a]
         IN  /\ t \in Request /\ t.id = r.id /\ t.seq = r.seq /\ t.ack = a
             /\ t.kind = r.kind /\ t.line = r.line
  BY DEF Request

LEMMA CloseRequestTyped ==
  ASSUME NEW r \in Request
  PROVE  LET t == CloseRequest(r)
         IN  /\ t \in Request /\ t.id = r.id /\ t.seq = r.seq /\ t.ack = r.ack
             /\ t.kind = "close"
  <1>1. "close" \in Kinds /\ 0 \in 0..MaxLines
    BY DEF Kinds
  <1>2. CloseRequest(r) = [r EXCEPT !.kind = "close", !.line = 0]
    BY DEF CloseRequest
  <1>3. QED BY <1>1, <1>2 DEF Request

LEMMA EmptyReply == NoReply \in Reply
  BY NoRowGood DEF Row, Reply, NoReply, NoRow

\* Steps that change at most the counters, the fate of the attempt, or strays.
LEMMA HopStep ==
  ASSUME RequestInv, TypeLine \/ Send \/ Refuse \/ Abandon \/ LoseReply \/ DropStray
  PROVE  RequestInv'
  <1> USE Before
  <1>1. /\ phase' = phase /\ req' = req /\ taken' = taken /\ UNCHANGED dbVars /\ UNCHANGED histVars
        /\ strays' \subseteq strays \cup {req}
        /\ strays' \subseteq strays \/ (link = "sent" /\ link' = "failed")
        /\ \/ link' = link /\ reply' = reply
           \/ link' # "answered" /\ link' \in {"sent", "failed"} /\ reply' \in {reply, NoReply}
              /\ phase \in {"call", "closing", "gone"}
        /\ typed' \in 0..MaxLines
    <2>1. CASE TypeLine
      BY <2>1 DEF TypeLine, linkVars, RequestInv, TypeOK
    <2>2. CASE Send
      BY <2>2 DEF Send, edgeVars, RequestInv, TypeOK
    <2>3. link = "sent" => phase \in {"call", "closing", "gone"}
      BY DEF RequestInv, TypeOK, AnswerCurrent
    <2>4. CASE Refuse
      BY <2>3, <2>4 DEF Refuse, edgeVars, RequestInv, TypeOK
    <2>5. CASE Abandon
      BY <2>3, <2>5 DEF Abandon, edgeVars, RequestInv, TypeOK
    <2>6. CASE LoseReply
      BY <2>6 DEF LoseReply, edgeVars, RequestInv, TypeOK
    <2>7. CASE DropStray
      BY <2>7 DEF DropStray, edgeVars, RequestInv, TypeOK
    <2>8. QED BY <2>1, <2>2, <2>4, <2>5, <2>6, <2>7
  <1>2. \A i \in Ids : Loaded(i)' = Loaded(i) /\ Known(i)' = Known(i)
    BY <1>1, SameRows
  <1>3. rows' = rows /\ ran' = ran
    BY <1>1 DEF dbVars, histVars
  <1>4. link = "sent" => phase \in {"call", "closing", "gone"}
    BY DEF RequestInv, TypeOK, AnswerCurrent
  <1>5. InAir' \subseteq InAir
    BY <1>1, <1>4 DEF InAir
  <1>6. TypeOK'
    BY <1>1, EmptyReply DEF RequestInv, TypeOK, dbVars, histVars
  <1>7. LinesTaken' /\ RanOnceInOrder' /\ OutboxIssued'
    BY <1>1, <1>3 DEF RequestInv, LinesTaken, RanOnceInOrder, OutboxIssued
  <1>8. OtherIdsGone'
    BY <1>1, <1>2, <1>3 DEF RequestInv, OtherIdsGone, Ids
  <1>9. SequenceClose'
    BY <1>1, <1>2, <1>4 DEF RequestInv, SequenceClose
  <1>10. FirstOpens'
    BY <1>1, <1>5 DEF RequestInv, FirstOpens
  <1>11. ReopenedOnlyFirst'
    <2>1. SUFFICES ASSUME NEW x \in strays', x.id = req.id, Opens(x), ~Known(req.id)
                   PROVE  /\ req.seq = 1
                          /\ \/ phase \in {"closing", "gone"}
                             \/ phase = "call" /\ link' # "answered"
      BY <1>1, <1>2 DEF ReopenedOnlyFirst
    <2>2. CASE x \in strays
      <3>1. req.seq = 1 /\ (phase \in {"closing", "gone"} \/ (phase = "call" /\ link # "answered"))
        BY <2>1, <2>2 DEF RequestInv, ReopenedOnlyFirst
      <3>2. QED BY <1>1, <3>1
    <2>3. CASE x \notin strays
      BY <1>1, <1>4, <2>1, <2>3 DEF Opens
    <2>4. QED BY <2>2, <2>3
  <1>12. AnswerCurrent'
    BY <1>1, <1>2 DEF RequestInv, AnswerCurrent, Opens
  <1>13. AckKnown'
    BY <1>1, <1>2 DEF RequestInv, AckKnown
  <1>14. NextLineIsLater'
    BY <1>1, <1>2, <1>3, <1>5 DEF RequestInv, NextLineIsLater
  <1>15. QED BY <1>6, <1>7, <1>8, <1>9, <1>10, <1>11, <1>12, <1>13, <1>14 DEF RequestInv
\* No opening is in the air once the edge holds an answer.
LEMMA AnsweredNotReopened ==
  ASSUME RequestInv, link = "answered" \/ phase = "select", phase \in {"call", "show", "select"}
  PROVE  \A x \in strays : x.id = req.id /\ Opens(x) => Known(req.id)
  <1>1. phase = "call" => link = "answered"
    BY DEF RequestInv, AnswerCurrent
  <1>2. QED BY <1>1 DEF RequestInv, ReopenedOnlyFirst

LEMMA ReceiveResetStep ==
  ASSUME RequestInv, ReceiveReset
  PROVE  RequestInv'
  <1> USE Before
  <1> DEFINE new == OpenRequest(req.id + 1)
  <1>1. /\ phase = "call" /\ link = "answered" /\ reply.reset /\ req.id < MaxIds
        /\ req' = new /\ phase' = phase /\ typed' = typed /\ taken' = taken /\ strays' = strays
        /\ lost' = (IF req.kind = "input" THEN lost \cup {req.line} ELSE lost)
        /\ link' = "idle" /\ reply' = NoReply /\ rows' = rows /\ age' = age /\ ran' = ran
        /\ purged' = purged /\ emitted' = emitted /\ shown' = shown
    BY DEF ReceiveReset, dbVars
  <1>2. new.id = req.id + 1 /\ new.seq = 1 /\ new.kind = "open" /\ new.line = 0 /\ new.ack = 0 /\ new \in Request
    BY <1>1 DEF OpenRequest, Request, Kinds, Ids
  <1> HIDE DEF new
  <1>3. \A i \in Ids : Known(i)' <=> Known(i)
    BY <1>1, SameRows DEF dbVars
  <1>4. ~Known(req.id) /\ ~Known(new.id) /\ new.id \in Ids
    <2>1. ~Known(req.id)
      BY <1>1 DEF RequestInv, AnswerCurrent
    <2>2. rows[new.id].seq = 0 /\ new.id \in Ids
      BY <1>1, <1>2 DEF RequestInv, OtherIdsGone, Ids
    <2>3. QED BY <2>1, <2>2 DEF Known, Loaded, NoRow
  <1>5. \A x \in strays : x.id \in Ids /\ x.id <= req.id /\ ~Opens(x)
    <2>1. \A x \in strays : x.id \in Ids
      BY DEF Request
    <2>2. \A x \in strays : x.id = req.id => ~Opens(x)
      BY <1>1, <1>4, AnsweredNotReopened
    <2>3. QED BY <2>1, <2>2 DEF RequestInv, OtherIdsGone, Ids
  <1>6. ~Known(req.id)'
    BY <1>1, <1>4 DEF Known, Loaded
  <1>7. TypeOK'
    <2>1. req.kind = "input" => req.line \in Lines
      BY DEF RequestInv, LinesTaken, Lines
    <2>2. QED BY <1>1, <1>2, <2>1, EmptyReply DEF RequestInv, TypeOK
  <1>8. LinesTaken' /\ RanOnceInOrder' /\ OutboxIssued'
    BY <1>1, <1>2 DEF RequestInv, LinesTaken, RanOnceInOrder, OutboxIssued
  <1>9. OtherIdsGone'
    <2>1. \A j \in Ids : j < new.id => ~Known(j)'
      BY <1>2, <1>3, <1>4 DEF RequestInv, OtherIdsGone, Ids
    <2>2. \A j \in Ids : j > new.id => rows[j].seq = 0
      BY <1>2 DEF RequestInv, OtherIdsGone, Ids
    <2>3. \A x \in strays : x.id <= new.id /\ ~Opens(x)
      BY <1>2, <1>5 DEF Ids
    <2>4. QED BY <1>1, <2>1, <2>2, <2>3 DEF OtherIdsGone
  <1>10. SequenceClose' /\ NextLineIsLater' /\ AckKnown' /\ ReopenedOnlyFirst'
    <2>1. \A x \in strays : x.id # new.id
      BY <1>2, <1>5 DEF Ids
    <2>2. SequenceClose' /\ AckKnown' /\ NextLineIsLater'
      BY <1>1, <1>2, <1>6, <2>1 DEF SequenceClose, NextLineIsLater, AckKnown
    <2>3. ReopenedOnlyFirst'
      BY <1>1, <1>2 DEF ReopenedOnlyFirst
    <2>4. QED BY <2>2, <2>3
  <1>11. FirstOpens'
    BY <1>1, <1>2 DEF RequestInv, FirstOpens, InAir
  <1>12. AnswerCurrent'
    BY <1>1 DEF AnswerCurrent
  <1>13. QED BY <1>7, <1>8, <1>9, <1>10, <1>11, <1>12 DEF RequestInv

LEMMA ReceiveStep ==
  ASSUME RequestInv, Receive
  PROVE  RequestInv'
  <1> USE Before
  <1>1. /\ phase = "call" /\ link = "answered" /\ ~reply.reset /\ phase' = "show"
        /\ UNCHANGED <<req, typed, taken, linkVars, dbVars, histVars>>
    BY DEF Receive
  <1>2. /\ req' = req /\ taken' = taken /\ strays' = strays /\ link' = link /\ reply' = reply
        /\ rows' = rows /\ ran' = ran /\ InAir' = InAir
    BY <1>1 DEF linkVars, dbVars, histVars, InAir
  <1>3. \A i \in Ids : Loaded(i)' = Loaded(i) /\ Known(i)' = Known(i)
    BY <1>1, SameRows
  <1>4. TypeOK'
    BY <1>1 DEF RequestInv, TypeOK, linkVars, dbVars, histVars
  <1>5. LinesTaken' /\ RanOnceInOrder' /\ OutboxIssued'
    BY <1>2 DEF RequestInv, LinesTaken, RanOnceInOrder, OutboxIssued
  <1>6. OtherIdsGone'
    BY <1>2, <1>3 DEF RequestInv, OtherIdsGone
  <1>7. SequenceClose'
    BY <1>1, <1>2, <1>3 DEF RequestInv, SequenceClose
  <1>8. FirstOpens'
    BY <1>1, <1>2 DEF RequestInv, FirstOpens
  <1>9. ReopenedOnlyFirst'
    BY <1>1, <1>2, <1>3, AnsweredNotReopened DEF ReopenedOnlyFirst
  <1>10. AnswerCurrent'
    BY <1>1, <1>2, <1>3 DEF RequestInv, AnswerCurrent, Opens
  <1>11. AckKnown'
    BY <1>1, <1>2, <1>3 DEF RequestInv, AckKnown
  <1>12. NextLineIsLater'
    BY <1>2, <1>3 DEF RequestInv, NextLineIsLater
  <1>13. QED BY <1>4, <1>5, <1>6, <1>7, <1>8, <1>9, <1>10, <1>11, <1>12 DEF RequestInv

LEMMA ShowChunkStep ==
  ASSUME RequestInv, ShowChunk
  PROVE  RequestInv'
  <1> USE Before
  <1>1. PICK n \in Unshown :
          /\ shown' = Append(shown, [sid |-> req.id, id |-> n, by |-> reply.out[n]])
          /\ req' = [req EXCEPT !.ack = n]
    BY DEF ShowChunk
  <1>2. /\ phase = "show" /\ phase' = phase /\ typed' = typed /\ taken' = taken /\ strays' = strays
        /\ link' = link /\ reply' = reply /\ rows' = rows /\ age' = age /\ ran' = ran
        /\ lost' = lost /\ purged' = purged /\ emitted' = emitted
    BY DEF ShowChunk, linkVars, dbVars
  <1>3. PICK D \in SUBSET (1..MaxOut) : reply.out \in [D -> Authors]
    BY DEF Reply, Outbox
  <1>4. n \in DOMAIN reply.out /\ n \in 1..MaxOut /\ reply.out[n] \in Authors
    BY <1>1, <1>3 DEF Unshown
  <1>5. /\ req' \in Request /\ req'.id = req.id /\ req'.seq = req.seq /\ req'.kind = req.kind
        /\ req'.line = req.line /\ req'.ack = n
    BY <1>1, <1>4, RequestAck
  <1>6. \A i \in Ids : Loaded(i)' = Loaded(i) /\ Known(i)' = Known(i)
    BY <1>2, SameRows DEF dbVars
  <1>7. Known(req.id)' = Known(req.id) /\ Loaded(req.id)' = Loaded(req.id)
    BY <1>2, <1>5 DEF Known, Loaded
  <1>8. TypeOK'
    <2>1. [sid |-> req.id, id |-> n, by |-> reply.out[n]] \in Chunk
      BY <1>4 DEF Chunk
    <2>2. shown \in Seq(Chunk)
      BY DEF RequestInv, TypeOK
    <2>3. shown' \in Seq(Chunk)
      BY <1>1, <2>1, <2>2
    <2>4. QED BY <1>2, <1>5, <2>3 DEF RequestInv, TypeOK
  <1>9. LinesTaken' /\ RanOnceInOrder' /\ OutboxIssued'
    BY <1>2, <1>5 DEF RequestInv, LinesTaken, RanOnceInOrder, OutboxIssued
  <1>10. OtherIdsGone'
    BY <1>2, <1>5, <1>6 DEF RequestInv, OtherIdsGone
  <1>11. SequenceClose'
    BY <1>2, <1>5, <1>7 DEF RequestInv, SequenceClose
  <1>12. FirstOpens'
    BY <1>2, <1>5 DEF RequestInv, FirstOpens, InAir
  <1>13. link = "answered" /\ ~reply.reset
    BY <1>2 DEF RequestInv, AnswerCurrent
  <1>14. ReopenedOnlyFirst'
    <2>1. \A x \in strays : x.id = req.id /\ Opens(x) => Known(req.id)
      BY <1>2, <1>13, AnsweredNotReopened
    <2>2. QED BY <1>2, <1>5, <1>7, <2>1 DEF ReopenedOnlyFirst
  <1>15. AnswerCurrent'
    BY <1>2, <1>5, <1>7, <1>13 DEF RequestInv, AnswerCurrent
  <1>16. AckKnown'
    <2>1. Known(req.id) => DOMAIN reply.out \subseteq 1..Loaded(req.id).next
      BY <1>2, <1>13 DEF RequestInv, AnswerCurrent
    <2>2. QED BY <1>4, <1>5, <1>7, <2>1 DEF AckKnown
  <1>17. NextLineIsLater'
    <2>1. SUFFICES ASSUME NEW x \in InAir', x.kind = "input", x.id = req.id, x.seq = req.seq,
                          Known(req.id), Loaded(req.id).seq < req.seq
                   PROVE  \A i \in DOMAIN ran : ran[i] < x.line
      BY <1>2, <1>5, <1>7 DEF NextLineIsLater
    <2>2. \E y \in InAir : /\ y.kind = "input" /\ y.id = req.id /\ y.seq = req.seq
                           /\ y.line = x.line
      BY <1>2, <1>5, <2>1 DEF InAir
    <2>3. QED BY <2>1, <2>2 DEF RequestInv, NextLineIsLater
  <1>18. QED BY <1>8, <1>9, <1>10, <1>11, <1>12, <1>14, <1>15, <1>16, <1>17 DEF RequestInv
LEMMA SettleStep ==
  ASSUME RequestInv, Settle
  PROVE  RequestInv'
  <1> USE Before
  <1>1. /\ phase = "show" /\ link' = "idle" /\ reply' = NoReply
        /\ typed' = typed /\ taken' = taken /\ strays' = strays /\ rows' = rows /\ age' = age
        /\ ran' = ran /\ lost' = lost /\ purged' = purged /\ emitted' = emitted /\ shown' = shown
        /\ \/ phase' = "closing" /\ req' = CloseRequest(req)
           \/ phase' = "select" /\ req' = [req EXCEPT !.seq = req.seq + 1]
    BY DEF Settle, dbVars, histVars
  <1>2. link = "answered" /\ ~reply.reset
    BY <1>1 DEF RequestInv, AnswerCurrent
  <1>3. /\ req' \in Request /\ req'.id = req.id /\ req'.ack = req.ack
        /\ \/ phase' = "closing" /\ req'.seq = req.seq /\ req'.kind = "close"
           \/ phase' = "select" /\ req'.seq = req.seq + 1 /\ req'.kind = req.kind /\ req'.line = req.line
    <2>1. req.seq + 1 \in Nat
      OBVIOUS
    <2>2. CASE phase' = "closing" /\ req' = CloseRequest(req)
      BY <2>2, CloseRequestTyped
    <2>3. CASE phase' = "select" /\ req' = [req EXCEPT !.seq = req.seq + 1]
      BY <2>1, <2>3, RequestSeq
    <2>4. QED BY <1>1, <2>2, <2>3
  <1>4. \A i \in Ids : Loaded(i)' = Loaded(i) /\ Known(i)' = Known(i)
    BY <1>1, SameRows DEF dbVars
  <1>5. Known(req.id)' = Known(req.id) /\ Loaded(req.id)' = Loaded(req.id)
    BY <1>1, <1>3 DEF Known, Loaded
  <1>6. TypeOK'
    BY <1>1, <1>3, EmptyReply DEF RequestInv, TypeOK
  <1>7. LinesTaken' /\ RanOnceInOrder' /\ OutboxIssued'
    BY <1>1, <1>3 DEF RequestInv, LinesTaken, RanOnceInOrder, OutboxIssued
  <1>8. OtherIdsGone'
    BY <1>1, <1>3, <1>4 DEF RequestInv, OtherIdsGone
  <1>9. SequenceClose'
    <2>1. Known(req.id) => Loaded(req.id).seq = req.seq
      BY <1>1, <1>2 DEF RequestInv, AnswerCurrent, SequenceClose
    <2>2. \A x \in strays : x.id = req.id => x.seq \in Nat /\ x.seq <= req.seq
      BY DEF RequestInv, SequenceClose, Request
    <2>3. QED BY <1>1, <1>3, <1>5, <2>1, <2>2 DEF SequenceClose
  <1>10. FirstOpens'
    BY <1>1, <1>3 DEF RequestInv, FirstOpens, InAir
  <1>11. ReopenedOnlyFirst'
    <2>1. \A x \in strays : x.id = req.id /\ Opens(x) => Known(req.id)
      BY <1>1, <1>2, AnsweredNotReopened
    <2>2. QED BY <1>1, <1>3, <1>5, <2>1 DEF ReopenedOnlyFirst
  <1>12. AnswerCurrent'
    BY <1>1 DEF AnswerCurrent
  <1>13. AckKnown'
    BY <1>1, <1>3, <1>5 DEF RequestInv, AckKnown
  <1>14. NextLineIsLater'
    <2>1. CASE phase' = "closing"
      BY <1>1, <1>3, <1>5, <2>1 DEF RequestInv, NextLineIsLater, InAir
    <2>2. CASE phase' = "select"
      <3>1. \A x \in strays : x.id = req.id => x.seq # req'.seq
        BY <1>3, <2>2 DEF RequestInv, SequenceClose, Request
      <3>2. QED BY <1>1, <1>3, <2>2, <3>1 DEF NextLineIsLater, InAir
    <2>3. QED BY <1>3, <2>1, <2>2
  <1>15. QED BY <1>6, <1>7, <1>8, <1>9, <1>10, <1>11, <1>12, <1>13, <1>14 DEF RequestInv

LEMMA SelectStep ==
  ASSUME RequestInv, TakeLine \/ Poll \/ IdleClose
  PROVE  RequestInv'
  <1> USE Before
  <1>1. /\ phase = "select" /\ phase' = "call" /\ link' = link /\ reply' = reply
        /\ typed' = typed /\ strays' = strays /\ rows' = rows /\ age' = age
        /\ ran' = ran /\ lost' = lost /\ purged' = purged /\ emitted' = emitted /\ shown' = shown
        /\ \/ taken' = taken /\ req' = [req EXCEPT !.kind = "poll", !.line = 0]
           \/ taken' = taken /\ req' = [req EXCEPT !.kind = "close", !.line = 0]
           \/ /\ taken < typed /\ taken' = taken + 1
              /\ req' = [req EXCEPT !.kind = "input", !.line = taken + 1]
    BY DEF TakeLine, Poll, IdleClose, CloseRequest, linkVars, dbVars, histVars
  <1>2. link = "idle" /\ req.seq > 1
    BY <1>1 DEF RequestInv, AnswerCurrent, FirstOpens
  <1>3. taken' \in 0..MaxLines /\ taken <= taken' /\ taken' \in Nat
    <2>1. typed \in 0..MaxLines
      BY DEF RequestInv, TypeOK
    <2>2. taken' = taken \/ (taken < typed /\ taken' = taken + 1)
      BY <1>1
    <2>3. QED BY <2>1, <2>2
  <1>4. /\ req' \in Request /\ req'.id = req.id /\ req'.ack = req.ack /\ req'.seq = req.seq
        /\ \/ req'.kind \in {"poll", "close"}
           \/ req'.kind = "input" /\ req'.line = taken + 1 /\ taken' = taken + 1
    <2>1. "poll" \in Kinds /\ "close" \in Kinds /\ "input" \in Kinds /\ 0 \in 0..MaxLines
      BY DEF Kinds
    <2>2. CASE req' = [req EXCEPT !.kind = "poll", !.line = 0]
      BY <2>1, <2>2 DEF Request
    <2>3. CASE req' = [req EXCEPT !.kind = "close", !.line = 0]
      BY <2>1, <2>3 DEF Request
    <2>4. CASE taken' = taken + 1 /\ req' = [req EXCEPT !.kind = "input", !.line = taken + 1]
      <3>1. taken + 1 \in 0..MaxLines
        BY <1>3, <2>4
      <3>2. QED BY <2>1, <2>4, <3>1 DEF Request
    <2>5. QED BY <1>1, <2>2, <2>3, <2>4
  <1>5. \A i \in Ids : Loaded(i)' = Loaded(i) /\ Known(i)' = Known(i)
    BY <1>1, SameRows DEF dbVars
  <1>6. Known(req.id)' = Known(req.id) /\ Loaded(req.id)' = Loaded(req.id)
    BY <1>1, <1>4 DEF Known, Loaded
  <1>7. TypeOK'
    BY <1>1, <1>3, <1>4 DEF RequestInv, TypeOK
  <1>8. RanOnceInOrder' /\ OutboxIssued'
    BY <1>1 DEF RequestInv, RanOnceInOrder, OutboxIssued
  <1>9. LinesTaken'
    <2>1. \A x \in strays : x.kind = "input" => 1 <= x.line /\ x.line <= taken /\ x.line \in Nat
      BY DEF RequestInv, LinesTaken, Request
    <2>2. \A i \in DOMAIN ran : ran[i] <= taken /\ ran[i] \in Nat
      BY DEF RequestInv, LinesTaken, Lines
    <2>3. taken \in Nat /\ req'.kind = "input" => 1 <= req'.line /\ req'.line <= taken'
      BY <1>3, <1>4
    <2>4. \A x \in strays : x.kind = "input" => 1 <= x.line /\ x.line <= taken'
      BY <1>3, <2>1
    <2>5. \A i \in DOMAIN ran : ran[i] <= taken'
      BY <1>3, <2>2
    <2>6. QED BY <1>1, <2>3, <2>4, <2>5 DEF LinesTaken
  <1>10. OtherIdsGone'
    BY <1>1, <1>4, <1>5 DEF RequestInv, OtherIdsGone
  <1>11. SequenceClose'
    BY <1>1, <1>4, <1>6 DEF RequestInv, SequenceClose
  <1>12. FirstOpens'
    BY <1>1, <1>2, <1>4 DEF RequestInv, FirstOpens, InAir
  <1>13. ReopenedOnlyFirst'
    <2>1. \A x \in strays : x.id = req.id /\ Opens(x) => Known(req.id)
      BY <1>1, AnsweredNotReopened
    <2>2. QED BY <1>1, <1>4, <1>6, <2>1 DEF ReopenedOnlyFirst
  <1>14. AnswerCurrent'
    BY <1>1, <1>2 DEF AnswerCurrent
  <1>15. AckKnown'
    BY <1>1, <1>4, <1>6 DEF RequestInv, AckKnown
  <1>16. NextLineIsLater'
    <2>1. SUFFICES ASSUME NEW x \in InAir', x.kind = "input", x.id = req.id, x.seq = req.seq
                   PROVE  \A i \in DOMAIN ran : ran[i] < x.line
      BY <1>1, <1>4 DEF NextLineIsLater
    <2>2. x \notin strays
      BY <1>1, <2>1 DEF RequestInv, SequenceClose
    <2>3. x = req'
      BY <1>1, <2>1, <2>2 DEF InAir
    <2>4. x.line = taken + 1
      BY <1>4, <2>1, <2>3
    <2>5. \A i \in DOMAIN ran : ran[i] <= taken /\ ran[i] \in Nat
      BY DEF RequestInv, LinesTaken, Lines
    <2>6. QED BY <2>4, <2>5
  <1>17. QED BY <1>7, <1>8, <1>9, <1>10, <1>11, <1>12, <1>13, <1>14, <1>15, <1>16 DEF RequestInv

LEMMA EndStep ==
  ASSUME RequestInv, Hangup \/ Depart
  PROVE  RequestInv'
  <1> USE Before
  <1>1. /\ phase' \in {"closing", "gone"} /\ link' = "idle" /\ reply' = NoReply
        /\ typed' = typed /\ taken' = taken /\ rows' = rows /\ age' = age
        /\ ran' = ran /\ lost' = lost /\ purged' = purged /\ emitted' = emitted /\ shown' = shown
        /\ req' = CloseRequest(req) \/ (req' = req /\ phase # "select")
        /\ strays' = strays \/ (link = "sent" /\ strays' = strays \cup {req})
    BY DEF Hangup, Depart, dbVars, histVars
  <1>2. /\ req' \in Request /\ req'.id = req.id /\ req'.ack = req.ack /\ req'.seq = req.seq
        /\ (req' = req /\ phase # "select") \/ req'.kind = "close"
    BY <1>1, CloseRequestTyped
  <1>3. \A i \in Ids : Loaded(i)' = Loaded(i) /\ Known(i)' = Known(i)
    BY <1>1, SameRows DEF dbVars
  <1>4. Known(req.id)' = Known(req.id) /\ Loaded(req.id)' = Loaded(req.id)
    BY <1>1, <1>2 DEF Known, Loaded
  <1>5. link = "sent" => phase # "select"
    BY DEF RequestInv, AnswerCurrent
  <1>6. \A x \in InAir' : x \in InAir \/ (x = req' /\ x.kind = "close")
    BY <1>1, <1>2, <1>5 DEF InAir
  <1>7. TypeOK'
    BY <1>1, <1>2, EmptyReply DEF RequestInv, TypeOK
  <1>8. LinesTaken' /\ RanOnceInOrder' /\ OutboxIssued'
    BY <1>1, <1>2 DEF RequestInv, LinesTaken, RanOnceInOrder, OutboxIssued
  <1>9. OtherIdsGone'
    BY <1>1, <1>2, <1>3 DEF RequestInv, OtherIdsGone, Ids
  <1>10. SequenceClose'
    BY <1>1, <1>2, <1>4 DEF RequestInv, SequenceClose
  <1>11. FirstOpens'
    BY <1>1, <1>2, <1>6 DEF RequestInv, FirstOpens
  <1>12. ReopenedOnlyFirst'
    <2>1. SUFFICES ASSUME NEW x \in strays', x.id = req.id, Opens(x), ~Known(req.id)
                   PROVE  req.seq = 1
      BY <1>1, <1>2, <1>4 DEF ReopenedOnlyFirst
    <2>2. CASE x \in strays
      BY <2>1, <2>2 DEF RequestInv, ReopenedOnlyFirst
    <2>3. CASE x \notin strays
      BY <1>1, <2>1, <2>3 DEF Opens
    <2>4. QED BY <2>2, <2>3
  <1>13. AnswerCurrent'
    BY <1>1 DEF AnswerCurrent
  <1>14. AckKnown'
    BY <1>1 DEF AckKnown
  <1>15. NextLineIsLater'
    BY <1>1, <1>2, <1>4, <1>6 DEF RequestInv, NextLineIsLater
  <1>16. QED BY <1>7, <1>8, <1>9, <1>10, <1>11, <1>12, <1>13, <1>14, <1>15 DEF RequestInv

(***************************************************************************)
(* The theorems.                                                           *)
(***************************************************************************)

LEMMA InitHolds == Init => RequestInv
  <1> SUFFICES ASSUME Init PROVE RequestInv
    OBVIOUS
  <1>1. /\ 1 \in Ids /\ req.id = 1 /\ req.seq = 1 /\ req.kind = "open" /\ req.line = 0 /\ req.ack = 0
        /\ req \in Request
    BY DEF Init, OpenRequest, Request, Ids, Kinds
  <1>2. \A i \in Ids : rows[i] = NoRow /\ Loaded(i) = NoRow /\ ~Known(i)
    BY DEF Init, Loaded, Known, NoRow
  <1>3. TypeOK
    BY <1>1, EmptyReply, NoRowGood DEF Init, TypeOK
  <1>4. LinesTaken /\ RanOnceInOrder
    BY <1>1 DEF Init, LinesTaken, RanOnceInOrder
  <1>5. OtherIdsGone
    BY <1>1, <1>2 DEF Init, OtherIdsGone, Ids, NoRow
  <1>6. SequenceClose /\ ReopenedOnlyFirst /\ AckKnown /\ NextLineIsLater
    BY <1>1, <1>2 DEF Init, SequenceClose, ReopenedOnlyFirst, AckKnown, NextLineIsLater
  <1>7. FirstOpens
    BY <1>1 DEF Init, FirstOpens, InAir
  <1>8. AnswerCurrent
    BY DEF Init, AnswerCurrent
  <1>9. OutboxIssued
    BY <1>2, NoRowGood DEF OutboxIssued, Good
  <1>10. QED BY <1>3, <1>4, <1>5, <1>6, <1>7, <1>8, <1>9 DEF RequestInv

LEMMA StutterHolds ==
  ASSUME RequestInv, UNCHANGED vars
  PROVE  RequestInv'
  <1> USE DEF vars
  <1>1. InAir' = InAir /\ \A i \in Ids : Loaded(i)' = Loaded(i) /\ Known(i)' = Known(i)
    BY DEF InAir, Loaded, Known
  <1>2. req.id \in Ids
    BY Before
  <1>3. TypeOK' /\ LinesTaken' /\ RanOnceInOrder' /\ OutboxIssued'
    BY DEF RequestInv, TypeOK, LinesTaken, RanOnceInOrder, OutboxIssued
  <1>4. OtherIdsGone' /\ SequenceClose' /\ FirstOpens' /\ ReopenedOnlyFirst'
    BY <1>1, <1>2 DEF RequestInv, OtherIdsGone, SequenceClose, FirstOpens, ReopenedOnlyFirst, Opens
  <1>5. AnswerCurrent' /\ AckKnown' /\ NextLineIsLater'
    BY <1>1, <1>2 DEF RequestInv, AnswerCurrent, AckKnown, NextLineIsLater, Opens
  <1>6. QED BY <1>3, <1>4, <1>5 DEF RequestInv

\* The inductive invariant holds in every reachable state: what the edge, its
\* retries and the rows know of each other.
THEOREM RequestInvariant == Spec => []RequestInv
  <1>1. RequestInv /\ [Next]_vars => RequestInv'
    BY HopStep, ReceiveResetStep, ReceiveStep, ShowChunkStep, SettleStep, SelectStep, EndStep,
       ServeStep, ServeStrayStep, OtherTransactionStep, ElapseStep, StutterHolds
       DEF Next, EdgeNext, NetworkNext, CoreNext
  <1>2. QED BY InitHolds, <1>1, PTL DEF Spec

\* Every variable keeps its type.
THEOREM TypeCorrect == Spec => []TypeOK
  <1>1. RequestInv => TypeOK
    BY DEF RequestInv
  <1>2. QED BY <1>1, RequestInvariant, PTL

\* However often requests are retried, abandoned and answered in vain, whatever
\* the queue, the outbox and the number of UUIDs: no line runs twice, and none
\* after a later one.
THEOREM LinesRunOnceInOrder == Spec => []RanOnceInOrder
  <1>1. RequestInv => RanOnceInOrder
    BY DEF RequestInv
  <1>2. QED BY <1>1, RequestInvariant, PTL

\* An answer the edge holds is the answer to the request it is sending.
THEOREM AnswersMatch == Spec => []AnswerMatches
  <1>1. RequestInv => AnswerMatches
    BY DEF RequestInv, AnswerCurrent, AnswerMatches
  <1>2. QED BY <1>1, RequestInvariant, PTL

\* What the edge repeats until it is answered is never what dispatch refuses:
\* the sequence number is at most one ahead, the acknowledgement not at all.
THEOREM EdgeNeverWedged == Spec => []NeverWedged
  <1>1. RequestInv => NeverWedged
    <2>1. SUFFICES ASSUME RequestInv, phase = "call", Admitted(req)
                   PROVE  LET s == Closing(Loaded(req.id), req)
                          IN  ~SequenceGap(s, req) /\ ~AckAhead(s, req)
      BY DEF NeverWedged, Rejects
    <2> DEFINE s == Closing(Loaded(req.id), req)
    <2>2. /\ req \in Request /\ req.id \in Ids /\ req.seq \in Nat /\ req.ack \in Nat
          /\ Loaded(req.id).seq \in Nat /\ Loaded(req.id).next \in Nat
      BY <2>1, Before
    <2>3. /\ s.next = Loaded(req.id).next
          /\ s.seq = IF req.kind = "close" THEN Max2(Loaded(req.id).seq, req.seq) ELSE Loaded(req.id).seq
      BY <2>1, <2>2, LoadedGood, ClosingGood DEF RequestInv
    <2> HIDE DEF s
    <2>4. req.seq <= Loaded(req.id).seq + 1 /\ req.ack <= Loaded(req.id).next
      <3>1. CASE Known(req.id)
        BY <2>1, <3>1 DEF RequestInv, SequenceClose, AckKnown
      <3>2. CASE ~Known(req.id)
        <4>1. req.seq = 1
          BY <2>1, <3>2 DEF Admitted, Opens
        <4>2. req.ack = 0
          BY <2>1, <4>1 DEF RequestInv, FirstOpens
        <4>3. QED BY <2>2, <4>1, <4>2
      <3>3. QED BY <3>1, <3>2
    <2>5. s.seq >= Loaded(req.id).seq /\ s.seq \in Nat
      BY <2>2, <2>3 DEF Max2
    <2>6. ~SequenceGap(s, req) /\ ~AckAhead(s, req)
      BY <2>2, <2>3, <2>4, <2>5 DEF SequenceGap, AckAhead
    <2>7. QED BY <2>6 DEF s
  <1>2. QED BY <1>1, RequestInvariant, PTL

=============================================================================

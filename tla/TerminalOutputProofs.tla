-------------------------- MODULE TerminalOutputProofs --------------------------
(***************************************************************************)
(* For any number of lines, identifiers and UUIDs and any capacities: every*)
(* line but the last has its fate, output reaches the socket once, in      *)
(* order and without a gap, and the protocol implements ReliableTerminal.  *)
(***************************************************************************)
EXTENDS TerminalProtocolProofs, FiniteSetTheorems

USE BoundsAssumption

(***************************************************************************)
(* What the stages of a transaction do to an outbox.                       *)
(***************************************************************************)

\* t is s after some writes: closed or not, nothing taken back, no gap left.
Grows(t, s) ==
  /\ t.next >= s.next
  /\ s.closed => t.closed
  /\ DOMAIN t.out = DOMAIN s.out \cup (s.next + 1)..t.next
  /\ \A j \in DOMAIN s.out : t.out[j] = s.out[j]

\* t is s after a revocation.
Departs(t, s) ==
  /\ t.next > s.next /\ t.closed
  /\ DOMAIN t.out = {t.next} /\ t.out[t.next] = Farewell

LEMMA GrowsNot ==
  ASSUME NEW s, Good(s)
  PROVE  Grows(s, s)
  BY GoodFields DEF Grows

LEMMA GrowsTwice ==
  ASSUME NEW s, NEW t, NEW u, Good(s), Good(t), Good(u), Grows(t, s), Grows(u, t)
  PROVE  Grows(u, s)
  <1>1. s.next \in Nat /\ t.next \in Nat /\ u.next \in Nat
    BY GoodFields
  <1>2. u.next >= s.next /\ (s.closed => u.closed)
    BY <1>1 DEF Grows
  <1>3. DOMAIN u.out = DOMAIN s.out \cup (s.next + 1)..u.next
    BY <1>1 DEF Grows
  <1>4. \A j \in DOMAIN s.out : u.out[j] = s.out[j]
    BY DEF Grows
  <1>5. QED BY <1>2, <1>3, <1>4 DEF Grows

LEMMA WriteGrows ==
  ASSUME NEW s, Good(s), NEW by \in Authors
  PROVE  /\ Grows(Write(s, by), s)
         /\ ~(Cardinality(DOMAIN s.out) >= OutboxCap) =>
              /\ Write(s, by).next = s.next + 1 /\ Write(s, by).closed = s.closed
              /\ Write(s, by).out[s.next + 1] = by
  <1> USE GoodFields
  <1> DEFINE D == DOMAIN s.out \cup {s.next + 1}
             o == [i \in D |-> IF i = s.next + 1 THEN by ELSE s.out[i]]
  <1>1. CASE Cardinality(DOMAIN s.out) >= OutboxCap
    <2>1. Write(s, by) = [s EXCEPT !.closed = TRUE]
      BY <1>1 DEF Write
    <2> HIDE DEF o, D
    <2>2. Write(s, by).out = s.out /\ Write(s, by).next = s.next /\ Write(s, by).closed
      BY <2>1 DEF WideRow
    <2>3. Grows(Write(s, by), s)
      BY <2>2 DEF Grows
    <2>4. QED BY <1>1, <2>3
  <1>2. CASE ~(Cardinality(DOMAIN s.out) >= OutboxCap)
    <2>1. Write(s, by) = [s EXCEPT !.next = s.next + 1, !.out = o]
      BY <1>2 DEF Write
    <2>2. /\ DOMAIN o = DOMAIN s.out \cup (s.next + 1)..(s.next + 1)
          /\ \A j \in DOMAIN s.out : o[j] = s.out[j]
          /\ o[s.next + 1] = by
      OBVIOUS
    <2> HIDE DEF o, D
    <2>3. Write(s, by).out = o /\ Write(s, by).next = s.next + 1 /\ Write(s, by).closed = s.closed
      BY <2>1 DEF WideRow
    <2>4. QED BY <2>2, <2>3 DEF Grows
  <1>3. QED BY <1>1, <1>2

LEMMA WriteIfGrows ==
  ASSUME NEW s, Good(s), NEW b, NEW by \in Authors
  PROVE  Grows(WriteIf(s, b, by), s)
  BY WriteGrows, GrowsNot DEF WriteIf

LEMMA RevokeDeparts ==
  ASSUME NEW s, Good(s)
  PROVE  Departs(Revoke(s), s)
  <1> DEFINE w == Write(s, Farewell)
             e == [w EXCEPT !.out = NoOutput, !.closed = TRUE]
  <1>1. Farewell \in Authors
    BY DEF Farewell, Authors
  <1>2. Good(w) /\ w.next >= s.next
    BY <1>1, WriteGood DEF Continues
  <1>3. Good(e)
    BY <1>2, EmptyGood DEF Continues
  <1>4. Revoke(s) = Write(e, Farewell)
    BY DEF Revoke
  <1>5. e.out = NoOutput /\ e.closed /\ e.next = w.next
    <2> HIDE DEF w
    <2>1. QED BY <1>2, GoodFields DEF WideRow
  <1> HIDE DEF w, e
  <1>6. DOMAIN e.out = {} /\ Cardinality(DOMAIN e.out) = 0
    BY <1>5, FS_EmptySet DEF NoOutput
  <1>7. ~(Cardinality(DOMAIN e.out) >= OutboxCap)
    BY <1>6
  <1>8. /\ Grows(Write(e, Farewell), e)
        /\ Write(e, Farewell).next = e.next + 1 /\ Write(e, Farewell).closed
        /\ Write(e, Farewell).out[e.next + 1] = Farewell
    BY <1>1, <1>3, <1>5, <1>7, WriteGrows
  <1>9. e.next \in Nat /\ w.next \in Nat /\ s.next \in Nat
    BY <1>2, <1>3, GoodFields
  <1>10. DOMAIN Write(e, Farewell).out = {e.next + 1}
    BY <1>6, <1>8, <1>9 DEF Grows
  <1>11. QED BY <1>2, <1>4, <1>5, <1>8, <1>9, <1>10 DEF Departs

LEMMA CommandGrows ==
  ASSUME NEW s, Good(s), NEW r \in Request, NEW outcome, NEW speaks
  PROVE  Grows(Command(s, r, outcome, speaks), s)
  <1>1. r.line \in Authors /\ Notice \in Authors
    BY DEF Request, Authors, Notice
  <1> DEFINE spoken == IF outcome = "failed" THEN Write(s, Notice) ELSE WriteIf(s, speaks, r.line)
             t == Command(s, r, outcome, speaks)
  <1>2. Continues(spoken, s) /\ Grows(spoken, s)
    BY <1>1, WriteGood, WriteIfGood, WriteGrows, WriteIfGrows
  <1>3. t = [spoken EXCEPT !.seq = r.seq, !.closed = spoken.closed \/ outcome = "quit"]
    BY DEF Command
  <1> HIDE DEF spoken, t
  <1>4. t.out = spoken.out /\ t.next = spoken.next /\ (spoken.closed => t.closed)
    BY <1>2, <1>3, GoodFields DEF Continues, WideRow
  <1>5. QED BY <1>2, <1>4 DEF Grows, t

\* The greeting always fits: it is the first chunk of its outbox.
LEMMA CommandGreets ==
  ASSUME NEW s, Good(s), DOMAIN s.out = {}, NEW r \in Request, NEW speaks, speaks
  PROVE  LET t == Command(s, r, "done", speaks)
         IN  t.next = s.next + 1 /\ t.out[s.next + 1] = r.line
  <1>1. r.line \in Authors
    BY DEF Request, Authors
  <1> DEFINE w == Write(s, r.line)
             t == Command(s, r, "done", speaks)
  <1>2. ~(Cardinality(DOMAIN s.out) >= OutboxCap)
    BY FS_EmptySet
  <1>3. Good(w) /\ w.next = s.next + 1 /\ w.out[s.next + 1] = r.line
    BY <1>1, <1>2, WriteGood, WriteGrows DEF Continues
  <1>4. t = [w EXCEPT !.seq = r.seq, !.closed = w.closed \/ "done" = "quit"]
    BY DEF Command, WriteIf
  <1> HIDE DEF w, t
  <1>5. t.out = w.out /\ t.next = w.next
    BY <1>3, <1>4, GoodFields DEF WideRow
  <1>6. QED BY <1>3, <1>5 DEF t

LEMMA SwallowSame ==
  ASSUME NEW s, Good(s), NEW r
  PROVE  LET t == Swallow(s, r)
         IN  t.out = s.out /\ t.next = s.next /\ t.closed = s.closed
  BY GoodFields DEF Swallow, WideRow

LEMMA TrimKeeps ==
  ASSUME NEW s, Good(s), NEW ack
  PROVE  LET t == Trim(s, ack)
         IN  /\ t.seq = s.seq /\ t.next = s.next /\ t.closed = s.closed
             /\ DOMAIN t.out = {j \in DOMAIN s.out : j > ack}
             /\ \A j \in DOMAIN t.out : t.out[j] = s.out[j]
  <1> DEFINE o == [i \in {j \in DOMAIN s.out : j > ack} |-> s.out[i]]
  <1>1. Trim(s, ack) = [s EXCEPT !.out = o]
    BY DEF Trim
  <1>2. DOMAIN o = {j \in DOMAIN s.out : j > ack} /\ \A j \in DOMAIN o : o[j] = s.out[j]
    OBVIOUS
  <1> HIDE DEF o
  <1>3. QED BY <1>1, <1>2, GoodFields DEF WideRow

LEMMA ClosingKeeps ==
  ASSUME NEW s, Good(s), NEW r
  PROVE  LET t == Closing(s, r)
         IN  /\ t.out = s.out /\ t.next = s.next /\ (s.closed => t.closed)
             /\ r.kind # "close" => t = s
  BY GoodFields DEF Closing, WideRow
(***************************************************************************)
(* What a transaction does to its session's row and to the lines run.      *)
(***************************************************************************)

\* t is s after the output up to ack was acknowledged and more was written.
Issues(t, s, ack) ==
  /\ t.next >= s.next
  /\ DOMAIN t.out = {j \in DOMAIN s.out : j > ack} \cup (s.next + 1)..t.next
  /\ \A j \in DOMAIN s.out : j > ack => t.out[j] = s.out[j]

\* What Execute(r) commits, as row t: a farewell or a growing outbox; a line
\* runs unless the row is closed, before or by now; a row that has seen nothing
\* but an opening says nothing more until the next number.
Performs(t, r) ==
  LET s == Loaded(r.id)
  IN  /\ Issues(t, s, r.ack) \/ Departs(t, s)
      /\ s.closed => t.closed /\ Issues(t, s, r.ack) /\ t.next = s.next /\ ran' = ran
      /\ r.kind = "input" /\ r.seq = s.seq + 1 => t.closed \/ ran' = Append(ran, r.line)
      /\ s.seq >= 1 /\ Max2(s.seq, r.seq) <= 1 => Issues(t, s, r.ack) /\ t.next = s.next
      /\ s = NoRow => Issues(t, s, r.ack) /\ t.next = 1 /\ t.out[1] = r.line

LEMMA ExecuteOutput ==
  ASSUME TypeOK, OutboxIssued, NEW r \in Request, Execute(r),
         \A i \in Ids : rows[i].seq = 0 => rows[i] = NoRow
  PROVE  Performs(rows'[r.id], r)
  <1> DEFINE s0 == Loaded(r.id)
             c0 == Closing(s0, r)
             s1 == Trim(c0, r.ack)
             s2(revoked, notice) == IF revoked THEN Revoke(s1) ELSE WriteIf(s1, notice = "demoted", Notice)
             w2(revoked, notice) == WriteIf(s2(revoked, notice), notice = "scene", Notice)
             s3(revoked, notice, speaks, outcome) ==
               IF Fresh(s2(revoked, notice), r)
                 THEN Command(w2(revoked, notice), r, outcome, speaks)
                 ELSE s2(revoked, notice)
  <1>1. PICK revoked \in BOOLEAN, speaks \in BOOLEAN, notice \in {"none", "demoted", "scene"},
             outcome \in Outcomes(r) :
          /\ Admitted(r)
          /\ ~Rejects(r)
          /\ revoked \/ notice # "none" => MaySignIn(s1)
          /\ notice = "scene" => r.kind = "input"
          /\ r.kind = "open" => speaks
          /\ Swallow(s3(revoked, notice, speaks, outcome), r).next <= MaxOut
          /\ Commit(r.id, Swallow(s3(revoked, notice, speaks, outcome), r), TRUE)
          /\ ran' = IF Fresh(s2(revoked, notice), r) /\ r.kind = "input" THEN Append(ran, r.line) ELSE ran
    BY Zenon DEF Execute
  <1> DEFINE a2 == s2(revoked, notice)
             b2 == w2(revoked, notice)
             a3 == s3(revoked, notice, speaks, outcome)
             s4 == Swallow(a3, r)
  <1>2. s0 \in Row /\ Good(s0) /\ r.id \in Ids /\ r.seq \in Nat /\ r.ack \in Nat /\ r.line \in Nat
    BY LoadedGood DEF Request
  <1>3. /\ Good(c0) /\ c0.next = s0.next /\ c0.out = s0.out
        /\ c0.seq = IF r.kind = "close" THEN Max2(s0.seq, r.seq) ELSE s0.seq
        /\ s0.closed => c0.closed
        /\ r.kind # "close" => c0 = s0
    BY <1>2, ClosingGood, ClosingKeeps
  <1>4. /\ Good(s1) /\ s1.seq = c0.seq /\ s1.next = c0.next /\ s1.closed = c0.closed
        /\ DOMAIN s1.out = {j \in DOMAIN s0.out : j > r.ack}
        /\ \A j \in DOMAIN s1.out : s1.out[j] = s0.out[j]
    <2> HIDE DEF c0
    <2>1. QED BY <1>3, TrimGood, TrimKeeps DEF Continues
  <1>5. Notice \in Authors /\ Farewell \in Authors
    BY DEF Notice, Farewell, Authors
  <1>6. /\ Good(a2) /\ a2.seq = s1.seq
        /\ Grows(a2, s1) \/ Departs(a2, s1)
        /\ ~revoked /\ notice = "none" => a2 = s1
    <2> HIDE DEF s1
    <2>1. CASE revoked
      BY <1>4, <2>1, RevokeGood, RevokeDeparts DEF Continues
    <2>2. CASE ~revoked
      <3>1. a2 = WriteIf(s1, notice = "demoted", Notice)
        BY <2>2
      <3>2. notice = "none" => a2 = s1
        BY <3>1 DEF WriteIf
      <3>3. QED BY <1>4, <1>5, <2>2, <3>1, <3>2, WriteIfGood, WriteIfGrows DEF Continues
    <2>3. QED BY <2>1, <2>2
  <1>7. Good(b2) /\ Grows(b2, a2) /\ (notice # "scene" => b2 = a2)
    <2> HIDE DEF a2
    <2>1. b2 = WriteIf(a2, notice = "scene", Notice)
      BY DEF a2
    <2>2. QED BY <1>5, <1>6, <2>1, WriteIfGood, WriteIfGrows DEF Continues, WriteIf
  <1>8. /\ Good(a3)
        /\ IF Fresh(a2, r) THEN a3 = Command(b2, r, outcome, speaks) /\ Grows(a3, a2) ELSE a3 = a2
    <2>1. CASE Fresh(a2, r)
      <3>1. a3 = Command(b2, r, outcome, speaks)
        BY <2>1
      <3> HIDE DEF a3, b2, a2
      <3>2. Good(a3) /\ Grows(a3, b2)
        BY <1>7, <3>1, CommandGood, CommandGrows
      <3>3. QED BY <1>6, <1>7, <2>1, <3>1, <3>2, GrowsTwice
    <2>2. CASE ~Fresh(a2, r)
      <3>1. a3 = a2
        BY <2>2
      <3> HIDE DEF a3, a2
      <3>2. QED BY <1>6, <2>2, <3>1
    <2>3. QED BY <2>1, <2>2
  <1>9. Good(s4) /\ s4.out = a3.out /\ s4.next = a3.next /\ s4.closed = a3.closed
    <2> HIDE DEF a3
    <2>1. QED BY <1>8, SwallowGood, SwallowSame
  <1>10. rows'[r.id] = s4
    <2>1. Commit(r.id, s4, TRUE)
      BY <1>1
    <2> HIDE DEF s4
    <2>2. QED BY <1>2, <2>1 DEF Commit
  <1>11. /\ Admitted(r)
         /\ revoked \/ notice # "none" => MaySignIn(s1)
         /\ notice = "scene" => r.kind = "input"
         /\ r.kind = "open" => speaks
         /\ ran' = IF Fresh(a2, r) /\ r.kind = "input" THEN Append(ran, r.line) ELSE ran
    BY <1>1
  <1>12. outcome \in Outcomes(r)
    OBVIOUS
  <1> HIDE DEF s0, c0, s1, a2, b2, a3, s4
  <1>13. /\ s0.seq \in Nat /\ c0.seq \in Nat /\ s1.seq \in Nat /\ a2.seq \in Nat
         /\ s0.next \in Nat /\ s1.next \in Nat /\ a2.next \in Nat /\ a3.next \in Nat
    BY <1>2, <1>3, <1>4, <1>6, <1>8, GoodFields
  <1>14. Grows(a3, a2) /\ (a2.closed => a3 = a2)
    BY <1>6, <1>8, GrowsNot DEF Fresh
  <1>15. Issues(a3, s0, r.ack) \/ Departs(a3, s0)
    <2>1. CASE Grows(a2, s1)
      <3>1. Grows(a3, s1)
        BY <1>4, <1>6, <1>8, <1>14, <2>1, GrowsTwice
      <3>2. QED BY <1>3, <1>4, <3>1 DEF Grows, Issues
    <2>2. CASE Departs(a2, s1)
      <3>1. a3 = a2
        BY <1>14, <2>2 DEF Departs
      <3>2. QED BY <1>3, <1>4, <2>2, <3>1 DEF Departs
    <2>3. QED BY <1>6, <2>1, <2>2
  <1>16. s0.closed => a3.closed /\ Issues(a3, s0, r.ack) /\ a3.next = s0.next /\ ran' = ran
    <2>1. SUFFICES ASSUME s0.closed
                   PROVE  a3.closed /\ Issues(a3, s0, r.ack) /\ a3.next = s0.next /\ ran' = ran
      OBVIOUS
    <2>2. s1.closed
      BY <1>3, <1>4, <2>1
    <2>3. a2 = s1
      BY <1>6, <1>11, <2>2 DEF MaySignIn
    <2>4. a3 = s1 /\ ran' = ran
      BY <1>8, <1>11, <2>2, <2>3 DEF Fresh
    <2>5. (s0.next + 1)..s0.next = {}
      BY <1>13
    <2>6. QED BY <1>3, <1>4, <1>13, <2>2, <2>4, <2>5 DEF Issues
  <1>17. r.kind = "input" /\ r.seq = s0.seq + 1 => a3.closed \/ ran' = Append(ran, r.line)
    BY <1>3, <1>4, <1>6, <1>11, <1>14 DEF Fresh
  <1>18. s0.seq >= 1 /\ Max2(s0.seq, r.seq) <= 1 => Issues(a3, s0, r.ack) /\ a3.next = s0.next
    <2>1. SUFFICES ASSUME s0.seq >= 1, Max2(s0.seq, r.seq) <= 1
                   PROVE  Issues(a3, s0, r.ack) /\ a3.next = s0.next
      OBVIOUS
    <2>2. s1.seq = 1 /\ r.seq <= 1
      BY <1>2, <1>3, <1>4, <1>13, <2>1 DEF Max2
    <2>3. a2 = s1
      BY <1>6, <1>11, <2>2 DEF MaySignIn
    <2>4. a3 = s1
      BY <1>2, <1>8, <2>2, <2>3 DEF Fresh
    <2>5. (s0.next + 1)..s0.next = {}
      BY <1>13
    <2>6. QED BY <1>3, <1>4, <1>13, <2>4, <2>5 DEF Issues
  <1>19. s0 = NoRow => Issues(a3, s0, r.ack) /\ a3.next = 1 /\ a3.out[1] = r.line
    <2>1. SUFFICES ASSUME s0 = NoRow
                   PROVE  Issues(a3, s0, r.ack) /\ a3.next = 1 /\ a3.out[1] = r.line
      OBVIOUS
    <2>2. s0.seq = 0 /\ s0.next = 0 /\ s0.closed = FALSE /\ DOMAIN s0.out = {}
      BY <2>1 DEF NoRow, NoOutput
    <2>3. r.kind = "open" /\ r.seq = 1
      BY <1>11, <2>2 DEF Admitted, Known, Opens, s0
    <2>4. /\ s1.seq = 0 /\ s1.next = 0 /\ s1.closed = FALSE /\ DOMAIN s1.out = {}
          /\ outcome = "done"
      BY <1>3, <1>4, <1>12, <2>2, <2>3 DEF Outcomes
    <2>5. a2 = s1 /\ b2 = s1
      BY <1>6, <1>7, <1>11, <2>4 DEF MaySignIn
    <2>6. Fresh(a2, r)
      BY <2>3, <2>4, <2>5 DEF Fresh
    <2>7. a3 = Command(s1, r, "done", speaks) /\ speaks
      BY <1>8, <1>11, <2>3, <2>4, <2>5, <2>6
    <2>8. a3.next = 1 /\ a3.out[1] = r.line
      <3>1. Good(s1) /\ DOMAIN s1.out = {} /\ r \in Request
        BY <1>4, <2>4
      <3>2. a3.next = s1.next + 1 /\ a3.out[s1.next + 1] = r.line
        BY <2>7, <3>1, CommandGreets, Zenon
      <3>3. QED BY <2>4, <3>2
    <2>9. ~Departs(a3, s0) \/ Issues(a3, s0, r.ack)
      <3>1. Grows(a3, s1)
        BY <1>14, <2>5
      <3>2. QED BY <1>3, <1>4, <3>1 DEF Grows, Issues
    <2>10. QED BY <1>15, <2>8, <2>9
  <1>20. Issues(s4, s0, r.ack) <=> Issues(a3, s0, r.ack)
    BY <1>9 DEF Issues
  <1>21. Departs(s4, s0) <=> Departs(a3, s0)
    BY <1>9 DEF Departs
  <1>22. QED BY <1>9, <1>10, <1>15, <1>16, <1>17, <1>18, <1>19, <1>20, <1>21 DEF Performs, s0
(***************************************************************************)
(* Only the session in use has a row that transactions can write to.  Both *)
(* kinds of transaction do the same to it, with output up to a gone.       *)
(***************************************************************************)

Advances(a) ==
  LET s == Loaded(req.id)
      t == rows'[req.id]
  IN  /\ \E seen \in BOOLEAN : Commit(req.id, t, seen)
      /\ req' = req
      /\ Good(s) /\ Good(t) /\ t \in Row /\ t.seq # 0
      /\ Issues(t, s, a) \/ Departs(t, s)
      /\ a \in Nat /\ a <= req.ack
      /\ s.closed => t.closed /\ Issues(t, s, a) /\ t.next = s.next
      /\ s = NoRow => Issues(t, s, a) /\ t.next = 1 /\ t.out[1] = Notice /\ req.seq = 1
      /\ s # NoRow => Known(req.id)
      /\ s # NoRow /\ req.seq = 1 => Issues(t, s, a) /\ t.next = s.next

LEMMA AbsentRow ==
  ASSUME ProtocolInv, NEW i \in Ids, ~Known(i)
  PROVE  Loaded(i) = NoRow
  <1>1. rows[i].seq \in Nat
    BY DEF ProtocolInv, RequestInv, TypeOK, Row
  <1>2. rows[i].seq = 0 => rows[i] = NoRow
    BY DEF ProtocolInv, OutputInv, OutboxEmitted
  <1>3. QED BY <1>1, <1>2 DEF Loaded, Known

LEMMA ServedAdvances ==
  ASSUME ProtocolInv, NEW r, Served(r)
  PROVE  \/ UNCHANGED <<rows, age, purged, emitted, ran>> /\ ~Admitted(r)
         \/ r.id = req.id /\ Admitted(r) /\ Performs(rows'[req.id], r) /\ Advances(r.ack)
  <1> USE ServedAir
  <1>1. RequestInv /\ TypeOK /\ OutboxIssued
    BY DEF ProtocolInv, RequestInv
  <1>2. CASE Unknown(r)
    BY <1>2 DEF Unknown
  <1>3. CASE Execute(r)
    <2>1. PICK s \in Row :
            /\ Good(s) /\ Commit(r.id, s, TRUE) /\ Admitted(r)
            /\ s.seq = Max2(Loaded(r.id).seq, r.seq)
      BY <1>1, <1>3, ExecuteEffect
    <2>2. r.id = req.id
      BY <1>1, <2>1 DEF Admitted, Ids
    <2>3. rows'[req.id] = s
      BY <1>1, <2>1, <2>2 DEF Commit
    <2>4. Performs(s, r)
      BY <1>1, <1>3, <2>2, <2>3, ExecuteOutput DEF ProtocolInv, OutputInv, OutboxEmitted
    <2>5. Good(Loaded(req.id)) /\ Loaded(req.id).seq \in Nat
      BY <1>1, LoadedGood, LoadedNumbers
    <2>6. s.seq # 0
      BY <1>1, <2>1, <2>2, <2>5 DEF Max2
    <2>7. r.ack \in Nat /\ r.ack <= req.ack
      BY <1>1, <2>2 DEF Request, ProtocolInv, OutputInv, AckBehind
    <2>8. Loaded(req.id) # NoRow => Known(req.id)
      BY <1>1, AbsentRow
    <2>9. Loaded(req.id) = NoRow => req.seq = 1 /\ r.line = Notice
      <3>1. SUFFICES ASSUME Loaded(req.id) = NoRow PROVE req.seq = 1 /\ r.line = Notice
        OBVIOUS
      <3>2. ~Known(req.id) /\ Opens(r)
        BY <2>1, <2>2, <3>1 DEF Known, NoRow, Admitted
      <3>3. QED BY <1>1, <2>2, <3>2, OpeningIsFirst DEF ProtocolInv, OutputInv, EmittedIssued
    <2>10. Loaded(req.id) # NoRow /\ req.seq = 1 => Loaded(req.id).seq >= 1 /\ Max2(Loaded(req.id).seq, r.seq) <= 1
      <3>1. SUFFICES ASSUME Loaded(req.id) # NoRow, req.seq = 1
                     PROVE  Loaded(req.id).seq >= 1 /\ Max2(Loaded(req.id).seq, r.seq) <= 1
        OBVIOUS
      <3>2. Loaded(req.id).seq # 0 /\ Loaded(req.id).seq <= 1
        BY <1>1, <2>5, <2>8, <3>1 DEF RequestInv, SequenceClose, Known
      <3>3. r.seq <= 1
        BY <1>1, <2>2, <3>1
      <3>4. QED BY <2>5, <3>2, <3>3 DEF Max2
    <2>11. Advances(r.ack)
      <3>1. req' = req
        BY <1>1
      <3>2. QED BY <3>1, <2>1, <2>2, <2>3, <2>4, <2>5, <2>6, <2>7, <2>8, <2>9, <2>10 DEF Performs, Advances
    <2>12. QED BY <2>1, <2>2, <2>3, <2>4, <2>11
  <1>4. QED BY <1>2, <1>3 DEF Served, Transaction

LEMMA OtherAdvances ==
  ASSUME ProtocolInv, OtherTransaction
  PROVE  /\ Advances(0) /\ rows'[req.id].seq = Loaded(req.id).seq
         /\ ~Loaded(req.id).closed
  <1>1. PICK sid \in Ids, revoked \in BOOLEAN :
          LET t == IF revoked THEN Revoke(rows[sid]) ELSE Write(rows[sid], Notice)
          IN  /\ age[sid] = "live" /\ MaySignIn(rows[sid])
              /\ t.next <= MaxOut
              /\ Commit(sid, t, FALSE)
              /\ req' = req
    BY DEF OtherTransaction, edgeVars
  <1> DEFINE s == rows[sid]
             t == IF revoked THEN Revoke(s) ELSE Write(s, Notice)
  <1>2. RequestInv /\ TypeOK /\ OutboxIssued /\ req.id \in Ids /\ req.ack \in Nat /\ req.seq \in Nat
    BY Before DEF ProtocolInv, RequestInv
  <1>3. Loaded(sid) = s /\ Good(s) /\ s.seq \in Nat /\ s.seq > 1 /\ ~s.closed
    BY <1>1, <1>2, LoadedGood, LoadedNumbers DEF Loaded, MaySignIn
  <1>4. sid = req.id
    <2>1. Known(sid)
      BY <1>3 DEF Known
    <2>2. ~(sid > req.id) /\ ~(sid < req.id)
      BY <1>2, <1>3, <2>1 DEF RequestInv, OtherIdsGone
    <2>3. QED BY <1>2, <2>2 DEF Ids
  <1>5. Notice \in Authors
    BY DEF Notice, Authors
  <1>6. Good(t) /\ t.seq = s.seq /\ (Grows(t, s) \/ Departs(t, s))
    BY <1>3, <1>5, RevokeGood, RevokeDeparts, WriteGood, WriteGrows DEF Continues
  <1>7. t.next <= MaxOut /\ Commit(req.id, t, FALSE) /\ req' = req
    BY <1>1, <1>4
  <1> HIDE DEF t, s
  <1>8. t \in Row /\ rows'[req.id] = t
    BY <1>2, <1>6, <1>7, NarrowRow DEF Commit
  <1>9. s # NoRow /\ Known(req.id) /\ req.seq # 1
    <2>1. Known(req.id) /\ s # NoRow
      BY <1>3, <1>4 DEF Known, NoRow
    <2>2. s.seq <= req.seq
      BY <1>2, <1>3, <1>4, <2>1 DEF RequestInv, SequenceClose
    <2>3. QED BY <1>2, <1>3, <2>1, <2>2
  <1>10. Grows(t, s) => Issues(t, s, 0)
    <2>1. DOMAIN s.out = {j \in DOMAIN s.out : j > 0}
      BY <1>3, GoodFields
    <2>2. QED BY <2>1 DEF Grows, Issues
  <1>11. ~s.closed
    BY <1>3
  <1>12. Loaded(req.id) = s /\ t.seq # 0 /\ 0 <= req.ack
    BY <1>2, <1>3, <1>4, <1>6
  <1>13. QED BY <1>3, <1>6, <1>7, <1>8, <1>9, <1>10, <1>11, <1>12 DEF Advances
(***************************************************************************)
(* Output: the conjuncts that speak of rows and of what was emitted.       *)
(***************************************************************************)

\* What a commit of the row in use does to everything else.
LEMMA AdvanceCommits ==
  ASSUME ProtocolInv, NEW a, Advances(a)
  PROVE  /\ \A i \in Ids : i # req.id => rows'[i] = Loaded(i)
         /\ \A i \in Ids : Loaded(i)' = rows'[i]
         /\ emitted' = emitted \cup ChunksOf(req.id, rows'[req.id])
         /\ purged' = purged \cup {i \in Ids : age[i] = "old"}
         /\ Known(req.id)'  <=> rows'[req.id].seq > 0
  <1>1. PICK seen \in BOOLEAN : Commit(req.id, rows'[req.id], seen)
    BY DEF Advances
  <1>2. req.id \in Ids /\ TypeOK /\ OutboxIssued
    BY Before DEF ProtocolInv, RequestInv
  <1>3. Good(rows'[req.id]) /\ rows'[req.id] \in Row
    BY DEF Advances
  <1>4. \A i \in Ids : Loaded(i)' = rows'[i]
    BY <1>1, <1>2, <1>3, CommitEffect
  <1>5. \A i \in Ids : i # req.id => rows'[i] = Loaded(i)
    BY <1>1 DEF Commit
  <1>6. emitted' = emitted \cup ChunksOf(req.id, rows'[req.id]) /\ purged' = purged \cup {i \in Ids : age[i] = "old"}
    BY <1>1 DEF Commit
  <1>7. Known(req.id)' <=> rows'[req.id].seq > 0
    BY <1>2, <1>4 DEF Known, Advances
  <1>8. QED BY <1>4, <1>5, <1>6, <1>7

\* A chunk in the new outbox was in the old one or has a fresh identifier; it
\* can be the greeting of a row made anew.
LEMMA ChunkOldOrFresh ==
  ASSUME ProtocolInv, NEW a, Advances(a), NEW e \in ChunksOf(req.id, rows'[req.id])
  PROVE  /\ e = [sid |-> req.id, id |-> e.id, by |-> rows'[req.id].out[e.id]]
         /\ e.sid = req.id /\ e.id \in DOMAIN rows'[req.id].out /\ e.by = rows'[req.id].out[e.id]
         /\ e.id \in Nat /\ e.id >= 1 /\ e.id <= rows'[req.id].next
         /\ \/ e \in emitted
            \/ e.id > Loaded(req.id).next
  <1> DEFINE s == Loaded(req.id)
             t == rows'[req.id]
  <1>1. PICK j \in DOMAIN t.out : e = [sid |-> req.id, id |-> j, by |-> t.out[j]]
    BY DEF ChunksOf
  <1>2. e.sid = req.id /\ e.id = j /\ e.by = t.out[j]
    BY <1>1
  <1>3. Good(t) /\ Good(s)
    BY DEF Advances
  <1>4. j \in Nat /\ j >= 1 /\ j <= t.next /\ t.next \in Nat /\ s.next \in Nat
    BY <1>3, GoodFields
  <1>5. CASE Departs(t, s)
    BY <1>1, <1>2, <1>4, <1>5 DEF Departs
  <1>6. CASE Issues(t, s, a) /\ j > s.next
    BY <1>1, <1>2, <1>4, <1>6
  <1>7. CASE Issues(t, s, a) /\ ~(j > s.next)
    <2>1. j \in DOMAIN s.out /\ t.out[j] = s.out[j]
      BY <1>4, <1>7 DEF Issues
    <2>2. e \in ChunksOf(req.id, s)
      BY <1>1, <2>1 DEF ChunksOf
    <2>3. ChunksOf(req.id, NoRow) = {}
      BY DEF ChunksOf, NoRow, NoOutput
    <2>4. req.id \in Ids
      BY Before DEF ProtocolInv
    <2>5. e \in emitted
      BY <2>2, <2>3, <2>4 DEF ProtocolInv, OutputInv, OutboxEmitted, Loaded
    <2>6. QED BY <1>1, <1>2, <1>4, <2>5
  <1>8. QED BY <1>5, <1>6, <1>7 DEF Advances
LEMMA AdvanceEmits ==
  ASSUME ProtocolInv, NEW a, Advances(a), strays' = strays
  PROVE  EmittedIssued'
  <1> DEFINE s == Loaded(req.id)
             t == rows'[req.id]
  <1>1. /\ req' = req /\ Good(s) /\ Good(t)
        /\ Issues(t, s, a) \/ Departs(t, s)
        /\ s = NoRow => Issues(t, s, a) /\ t.next = 1 /\ t.out[1] = Notice /\ req.seq = 1
        /\ s # NoRow => Known(req.id)
        /\ s # NoRow /\ req.seq = 1 => Issues(t, s, a) /\ t.next = s.next
    BY DEF Advances
  <1>2. EmittedIssued /\ req.id \in Ids /\ TypeOK
    BY Before DEF ProtocolInv, RequestInv, OutputInv
  <1>3. emitted' = emitted \cup ChunksOf(req.id, t) /\ Loaded(req.id)' = t
    BY <1>1, <1>2, AdvanceCommits
  <1>4. s.next \in Nat /\ t.next \in Nat /\ t.next >= s.next
    BY <1>1, GoodFields DEF Issues, Departs
  <1>5. \A e \in emitted : e.id \in Nat /\ e.sid \in Nat
    BY <1>2 DEF TypeOK, Chunk, Ids
  <1>6. \A e \in emitted' : e.sid <= req.id
    BY <1>2, <1>3, <1>5, ChunkOldOrFresh DEF EmittedIssued, Ids
  <1>7. \A e \in emitted' : e.sid = req.id => e.id <= t.next
    <2>1. SUFFICES ASSUME NEW e \in emitted, e.sid = req.id PROVE e.id <= t.next
      BY <1>3, ChunkOldOrFresh
    <2>2. CASE s = NoRow
      BY <1>1, <1>2, <2>1, <2>2 DEF EmittedIssued
    <2>3. CASE s # NoRow
      BY <1>1, <1>2, <1>4, <1>5, <2>1, <2>3 DEF EmittedIssued
    <2>4. QED BY <2>2, <2>3
  <1>8. req.seq = 1 => \A e \in emitted' : e.sid = req.id => e.id = 1 /\ e.by = Notice
    <2>1. SUFFICES ASSUME req.seq = 1, NEW e \in ChunksOf(req.id, t), e \notin emitted
                   PROVE  e.id = 1 /\ e.by = Notice
      BY <1>2, <1>3 DEF EmittedIssued
    <2>2. e.id \in Nat /\ e.id >= 1 /\ e.id <= t.next /\ e.by = t.out[e.id] /\ e.id > s.next
      BY <2>1, ChunkOldOrFresh
    <2>3. CASE s = NoRow
      BY <1>1, <2>2, <2>3
    <2>4. CASE s # NoRow
      BY <1>1, <1>4, <2>1, <2>2, <2>4
    <2>5. QED BY <2>3, <2>4
  <1>9. QED BY <1>1, <1>2, <1>3, <1>6, <1>7, <1>8 DEF EmittedIssued, Opens

LEMMA AdvanceOutboxes ==
  ASSUME ProtocolInv, NEW a, Advances(a)
  PROVE  /\ \A i \in Ids : rows'[i].seq = 0 => rows'[i] = NoRow
         /\ \A i \in Ids : ChunksOf(i, rows'[i]) \subseteq emitted'
         /\ ChunksOf(req.id, reply) \subseteq emitted'
  <1>1. OutboxEmitted
    BY DEF ProtocolInv, OutputInv
  <1>2. ChunksOf(req.id, NoRow) = {} /\ \A i \in Ids : ChunksOf(i, NoRow) = {}
    BY DEF ChunksOf, NoRow, NoOutput
  <1>3. \A i \in Ids : /\ Loaded(i).seq = 0 => Loaded(i) = NoRow
                       /\ ChunksOf(i, Loaded(i)) \subseteq emitted
    BY <1>1, <1>2 DEF OutboxEmitted, Loaded
  <1>4. rows'[req.id].seq # 0
    BY DEF Advances
  <1>5. QED BY <1>1, <1>3, <1>4, AdvanceCommits DEF OutboxEmitted

LEMMA AdvanceWhole ==
  ASSUME ProtocolInv, NEW a, Advances(a)
  PROVE  LET t == rows'[req.id]
         IN  \/ \A j \in (req.ack + 1)..t.next : j \in DOMAIN t.out
             \/ t.closed /\ \A j \in DOMAIN t.out : j > req.ack => t.out[j] = Farewell
  <1> DEFINE s == Loaded(req.id)
             t == rows'[req.id]
  <1>1. /\ Good(s) /\ Good(t) /\ a \in Nat /\ a <= req.ack /\ req.ack \in Nat
        /\ Issues(t, s, a) \/ Departs(t, s)
        /\ s = NoRow => Issues(t, s, a) /\ t.next = 1
        /\ s # NoRow => Known(req.id)
        /\ s.closed => t.closed /\ t.next = s.next
    BY Before DEF Advances, ProtocolInv
  <1>2. s.next \in Nat /\ t.next \in Nat
    BY <1>1, GoodFields
  <1>3. CASE Departs(t, s)
    BY <1>3 DEF Departs
  <1>4. CASE Issues(t, s, a) /\ s = NoRow
    BY <1>1, <1>2, <1>4 DEF Issues, NoRow
  <1>5. CASE Issues(t, s, a) /\ s # NoRow
    <2>1. \/ \A j \in (req.ack + 1)..s.next : j \in DOMAIN s.out
          \/ s.closed /\ \A j \in DOMAIN s.out : j > req.ack => s.out[j] = Farewell
      BY <1>1, <1>5 DEF ProtocolInv, OutputInv, OutboxWhole
    <2>2. CASE \A j \in (req.ack + 1)..s.next : j \in DOMAIN s.out
      BY <1>1, <1>2, <1>5, <2>2 DEF Issues
    <2>3. CASE s.closed /\ \A j \in DOMAIN s.out : j > req.ack => s.out[j] = Farewell
      BY <1>1, <1>2, <1>5, <2>3 DEF Issues
    <2>4. QED BY <2>1, <2>2, <2>3
  <1>6. QED BY <1>1, <1>3, <1>4, <1>5
LEMMA AdvanceKeeps ==
  ASSUME ProtocolInv, NEW a, Advances(a)
  PROVE  OutputKept'
  <1> DEFINE s == Loaded(req.id)
             t == rows'[req.id]
  <1>1. /\ req' = req /\ a \in Nat /\ a <= req.ack /\ req.ack \in Nat /\ req.id \in Ids
        /\ Good(s)
        /\ Issues(t, s, a) \/ Departs(t, s)
    BY Before DEF Advances, ProtocolInv
  <1>2. emitted' = emitted \cup ChunksOf(req.id, t) /\ purged' = purged \cup {i \in Ids : age[i] = "old"}
    BY AdvanceCommits
  <1>3. SUFFICES ASSUME NEW e \in emitted', e.sid = req.id, e.id > req.ack, req.id \notin purged',
                        ~Revoked(req.id)'
                 PROVE  e.id \in DOMAIN t.out /\ t.out[e.id] = e.by
    BY <1>1 DEF OutputKept
  <1>4. CASE e \in ChunksOf(req.id, t)
    BY <1>4, ChunkOldOrFresh
  <1>5. CASE e \in emitted /\ Departs(t, s)
    <2>1. [sid |-> req.id, id |-> t.next, by |-> Farewell] \in ChunksOf(req.id, t)
      BY <1>5 DEF Departs, ChunksOf
    <2>2. Revoked(req.id)'
      BY <1>1, <1>2, <2>1 DEF Revoked
    <2>3. QED BY <1>3, <2>2
  <1>6. CASE e \in emitted /\ Issues(t, s, a)
    <2>1. s = rows[req.id] /\ req.id \notin purged
      BY <1>1, <1>2, <1>3 DEF Loaded
    <2>2. ~Revoked(req.id)
      BY <1>1, <1>2, <1>3 DEF Revoked
    <2>3. e.id \in DOMAIN s.out /\ s.out[e.id] = e.by
      BY <1>3, <1>6, <2>1, <2>2 DEF ProtocolInv, OutputInv, OutputKept
    <2>4. e.id \in Nat /\ e.id > a
      BY <1>1, <1>3, <2>3, GoodFields
    <2>5. QED BY <1>6, <2>3, <2>4 DEF Issues
  <1>7. QED BY <1>1, <1>2, <1>4, <1>5, <1>6

\* A transaction whose answer nobody reads keeps the whole of OutputInv.
LEMMA AdvanceOutput ==
  ASSUME ProtocolInv, NEW a, Advances(a), strays' = strays, reply' = reply, shown' = shown
  PROVE  OutputInv'
  <1>1. req' = req
    BY DEF Advances
  <1>2. req.id \in Ids /\ Loaded(req.id)' = rows'[req.id] /\ OutputInv
    BY <1>1, Before, AdvanceCommits DEF ProtocolInv
  <1>3. OutboxEmitted'
    BY <1>1, AdvanceOutboxes DEF OutboxEmitted, ChunksOf
  <1>4. OutboxWhole'
    <2>1. \A i \in Unshown :
            reply.out[i] = Farewell \/ \A j \in (req.ack + 1)..i : j \in DOMAIN reply.out
      BY <1>2 DEF OutputInv, OutboxWhole
    <2>2. Unshown' = Unshown
      BY <1>1 DEF Unshown
    <2>3. Loaded(req.id)' = rows'[req.id]
      BY <1>2
    <2>4. QED BY <1>1, <2>1, <2>2, <2>3, AdvanceWhole DEF OutboxWhole
  <1>5. AckBehind' /\ AckIsLastShown' /\ ShownOnceNoGap'
    BY <1>1, <1>2 DEF OutputInv, AckBehind, AckIsLastShown, ShownOnceNoGap
  <1>6. QED BY <1>3, <1>4, <1>5, AdvanceEmits, AdvanceKeeps DEF OutputInv

(***************************************************************************)
(* Lines: what a transaction of the terminal keeps.                        *)
(***************************************************************************)

LEMMA RanAppended ==
  ASSUME ran \in Seq(Lines), NEW n \in Lines, ran' = Append(ran, n)
  PROVE  Ran' = Ran \cup {n}
  <1>1. /\ Len(ran) \in Nat /\ DOMAIN ran = 1..Len(ran) /\ DOMAIN ran' = 1..(Len(ran) + 1)
        /\ \A i \in DOMAIN ran' : ran'[i] = IF i = Len(ran) + 1 THEN n ELSE ran[i]
    OBVIOUS
  <1>2. \A i \in DOMAIN ran : i \in DOMAIN ran' /\ ran'[i] = ran[i]
    BY <1>1
  <1>3. Len(ran) + 1 \in DOMAIN ran' /\ ran'[Len(ran) + 1] = n
    BY <1>1
  <1>4. \A i \in DOMAIN ran' : i \in DOMAIN ran \/ ran'[i] = n
    BY <1>1
  <1>5. QED BY <1>2, <1>3, <1>4 DEF Ran

\* A transaction runs at most one line: the one taken last, as the number the
\* edge is at, and only in a row that is open.
LEMMA ServedRuns ==
  ASSUME ProtocolInv, NEW r, Served(r), ran' # ran
  PROVE  /\ r.id = req.id /\ r.seq = req.seq /\ r.kind = "input" /\ r.line = taken
         /\ taken \in Lines /\ taken \notin Settled
         /\ ran' = Append(ran, taken) /\ Ran' = Ran \cup {taken}
         /\ Known(req.id) /\ Loaded(req.id).seq + 1 = req.seq /\ ~Loaded(req.id).closed
  <1>1. RequestInv /\ LineInv
    BY DEF ProtocolInv
  <1> USE <1>1, ServedAir
  <1>2. r.id = req.id /\ Performs(rows'[req.id], r)
    BY ServedAdvances
  <1>3. /\ ran' = Append(ran, r.line) /\ r.kind = "input"
        /\ Known(r.id) /\ r.seq = Loaded(r.id).seq + 1
    BY DEF Moves
  <1>4. Loaded(req.id).seq \in Nat /\ r.seq = req.seq
    BY <1>2, <1>3, LoadedNumbers DEF RequestInv, SequenceClose
  <1>5. r.line = taken /\ taken \notin lost
    BY <1>2, <1>3, <1>4 DEF LineInv, LastLineInAir
  <1>6. taken \in Lines
    BY <1>3, <1>5 DEF RequestInv, LinesTaken, TypeOK, Lines
  <1>7. \A i \in DOMAIN ran : ran[i] < r.line
    BY <1>2, <1>3, <1>4 DEF RequestInv, NextLineIsLater
  <1>8. taken \notin Ran
    BY <1>5, <1>6, <1>7 DEF Ran, Lines
  <1>9. ran \in Seq(Lines)
    BY DEF RequestInv, TypeOK
  <1>10. Ran' = Ran \cup {taken}
    BY <1>3, <1>5, <1>6, <1>9, RanAppended
  <1>11. ~Loaded(req.id).closed
    BY <1>2 DEF Performs
  <1>12. QED BY <1>2, <1>3, <1>4, <1>5, <1>6, <1>8, <1>10, <1>11 DEF Settled

LEMMA ServedRan ==
  ASSUME ProtocolInv, NEW r, Served(r)
  PROVE  Ran \subseteq Ran'
  BY ServedRuns DEF Ran

\* Before the row reaches the number being sent its line has not run; after it
\* the line has run, or the row is closed.
LEMMA ServedReaches ==
  ASSUME ProtocolInv, NEW r, Served(r)
  PROVE  /\ phase = "select" /\ Known(req.id)' => Loaded(req.id)'.seq < req.seq
         /\ phase \in {"call", "show"} /\ req.kind = "input" =>
              (Known(req.id)' /\ Loaded(req.id)'.seq = req.seq /\ ~Loaded(req.id)'.closed => taken \in Ran')
  <1>1. RequestInv /\ LineInv /\ TypeOK
    BY DEF ProtocolInv, RequestInv
  <1> USE <1>1, ServedAir
  <1> DEFINE s == Loaded(req.id)
             t == Loaded(req.id)'
  <1>2. s.seq \in Nat /\ t.seq \in Nat /\ (Known(req.id) <=> s.seq # 0)
    BY LoadedNumbers DEF Moves
  <1>3. CASE UNCHANGED <<rows, age, purged, emitted, ran>>
    <2>1. Known(req.id)' = Known(req.id) /\ t = s /\ Ran' = Ran
      BY <1>3 DEF Known, Loaded, Ran
    <2>2. QED BY <2>1 DEF LineInv, ReachedMeansRan
  <1>4. CASE r.id = req.id /\ Admitted(r) /\ Performs(rows'[req.id], r) /\ Advances(r.ack)
    <2>1. t = rows'[req.id]
      BY <1>4, AdvanceCommits
    <2>2. CASE ~Known(req.id)
      <3>1. Opens(r)
        BY <1>4, <2>2 DEF Admitted
      <3>2. req.seq = 1 /\ phase \in {"call", "closing", "gone"}
        BY <1>4, <2>2, <3>1, OpeningIsFirst
      <3>3. phase = "call" => req.kind = "open"
        BY <3>2 DEF RequestInv, FirstOpens
      <3>4. QED BY <3>2, <3>3
    <2>3. CASE Known(req.id)
      <3>1. t.seq = Max2(s.seq, r.seq)
        BY <1>4, <2>3 DEF Moves
      <3>2. phase = "select" => r.seq < req.seq /\ s.seq < req.seq
        <4>1. phase = "select" => r \in strays
          BY DEF Served, RequestInv, AnswerCurrent
        <4>2. QED BY <1>4, <2>3, <4>1 DEF RequestInv, SequenceClose, LineInv, ReachedMeansRan
      <3>3. phase = "select" => t.seq < req.seq
        BY <3>1, <3>2 DEF Max2
      <3>4. ASSUME phase \in {"call", "show"}, req.kind = "input", t.seq = req.seq, ~t.closed
            PROVE  taken \in Ran'
        <4>1. s.seq <= req.seq /\ req.seq <= s.seq + 1
          BY <2>3 DEF RequestInv, SequenceClose
        <4>2. ~s.closed
          BY <1>4, <2>1, <3>4 DEF Performs
        <4>3. CASE s.seq = req.seq
          BY <2>3, <3>4, <4>2, <4>3, ServedRan DEF LineInv, ReachedMeansRan
        <4>4. CASE s.seq < req.seq
          <5>1. r.seq = req.seq /\ r.seq = s.seq + 1
            BY <1>2, <3>1, <3>4, <4>1, <4>4 DEF Max2
          <5>2. r.kind = "input"
            BY <1>4, <3>4, <5>1 DEF Served, LineInv, LastLineInAir
          <5>3. ran' = Append(ran, r.line)
            BY <1>4, <2>1, <3>4, <5>1, <5>2 DEF Performs
          <5>4. ran \in Seq(Lines)
            BY DEF TypeOK
          <5>5. ran' # ran
            BY <5>3, <5>4
          <5>6. QED BY <5>5, ServedRuns
        <4>5. QED BY <1>2, <4>1, <4>3, <4>4
      <3>5. QED BY <3>3, <3>4
    <2>4. QED BY <2>2, <2>3
  <1>5. QED BY <1>3, <1>4, ServedAdvances

LEMMA ServedFates ==
  ASSUME ProtocolInv, NEW r, Served(r)
  PROVE  LinesSettled' /\ LastLineInAir'
  <1>1. LineInv
    BY DEF ProtocolInv
  <1>2. /\ phase' = phase /\ req' = req /\ typed' = typed /\ taken' = taken /\ strays' = strays
        /\ lost' = lost /\ InAir' = InAir
    BY DEF Served, edgeVars, InAir
  <1>3. Settled \subseteq Settled'
    BY <1>2, ServedRan DEF Settled
  <1>4. LinesSettled'
    BY <1>1, <1>2, <1>3 DEF LineInv, LinesSettled
  <1>5. LastLineInAir'
    BY <1>1, <1>2 DEF LineInv, LastLineInAir
  <1>6. QED BY <1>4, <1>5
(***************************************************************************)
(* The steps of the cores, one lemma each.                                 *)
(***************************************************************************)

LEMMA ServeSteps ==
  ASSUME ProtocolInv, Serve
  PROVE  LineInv' /\ OutputInv'
  <1>1. /\ Served(req) /\ link = "sent" /\ link' = "answered" /\ reply' = Answer(req, rows'[req.id])
        /\ req' = req /\ phase' = phase /\ taken' = taken /\ strays' = strays /\ shown' = shown
    BY DEF Serve, Served, edgeVars
  <1>2. RequestInv /\ LineInv /\ OutputInv /\ req.id \in Ids
    BY Before DEF ProtocolInv
  <1>3. Known(req.id)' <=> Loaded(req.id)'.seq > 0
    BY DEF Known
  <1>4. CASE UNCHANGED <<rows, age, purged, emitted, ran>> /\ ~Admitted(req)
    <2>1. reply'.out = NoOutput /\ (reply'.reset \/ req.kind = "close")
      BY <1>1, <1>4 DEF Answer
    <2>2. DOMAIN NoOutput = {}
      BY DEF NoOutput
    <2>3. Loaded(req.id)' = Loaded(req.id) /\ Known(req.id)' = Known(req.id)
      BY <1>1, <1>4 DEF Loaded, Known
    <2>4. ReachedMeansRan'
      BY <1>1, <1>2, <2>1, <2>3, ServedReaches DEF ReachedMeansRan
    <2>5. LineInv'
      BY <1>1, <1>2, <2>4, ServedFates DEF LineInv
    <2>6. EmittedIssued' /\ AckBehind' /\ AckIsLastShown' /\ ShownOnceNoGap'
      BY <1>1, <1>2, <1>4, <2>3 DEF OutputInv, EmittedIssued, AckBehind, AckIsLastShown, ShownOnceNoGap, Opens
    <2>7. OutboxEmitted'
      BY <1>1, <1>2, <1>4, <2>1, <2>2 DEF OutputInv, OutboxEmitted, ChunksOf
    <2>8. OutboxWhole'
      BY <1>1, <1>2, <1>4, <2>1, <2>2, <2>3 DEF OutputInv, OutboxWhole, Unshown
    <2>9. OutputKept'
      BY <1>1, <1>2, <1>4 DEF OutputInv, OutputKept, Revoked
    <2>10. QED BY <2>5, <2>6, <2>7, <2>8, <2>9 DEF OutputInv
  <1>5. CASE Admitted(req) /\ Performs(rows'[req.id], req) /\ Advances(req.ack)
    <2> DEFINE t == rows'[req.id]
    <2>1. reply'.out = t.out /\ reply'.closed = t.closed /\ reply'.seq = t.seq
      BY <1>1, <1>5 DEF Answer
    <2>2. Loaded(req.id)' = t /\ Known(req.id)' /\ t.seq = req.seq
      <3>1. Loaded(req.id)' = t /\ t.seq \in Nat
        BY <1>1, <1>2, <1>5, AdvanceCommits DEF Advances, Row
      <3>2. reply'.seq = req.seq
        BY <1>1, <1>2, ServeStep DEF RequestInv, AnswerCurrent
      <3>3. t.seq > 0
        BY <3>1, <1>5 DEF Advances
      <3>4. QED BY <1>3, <2>1, <3>1, <3>2, <3>3
    <2>3. ReachedMeansRan'
      BY <1>1, <2>1, <2>2, ServedReaches DEF ReachedMeansRan
    <2>4. LineInv'
      BY <1>1, <1>2, <2>3, ServedFates DEF LineInv
    <2>5. OutboxEmitted'
      <3>1. ChunksOf(req.id, reply') = ChunksOf(req.id, t)
        BY <2>1 DEF ChunksOf
      <3>2. ChunksOf(req.id, reply)' = ChunksOf(req.id, reply')
        BY <1>1 DEF ChunksOf
      <3>3. QED BY <1>1, <1>2, <1>5, <3>1, <3>2, AdvanceOutboxes DEF OutboxEmitted, ChunksOf
    <2>6. OutboxWhole'
      <3>1. \/ \A j \in (req.ack + 1)..t.next : j \in DOMAIN t.out
            \/ t.closed /\ \A j \in DOMAIN t.out : j > req.ack => t.out[j] = Farewell
        BY <1>5, AdvanceWhole
      <3>2. Unshown' = {i \in DOMAIN t.out : i > req.ack}
        BY <1>1, <2>1 DEF Unshown
      <3>3. \A i \in DOMAIN t.out : i \in 1..t.next /\ t.next \in Nat
        BY <1>5, GoodFields DEF Advances
      <3>4. \A i \in Unshown' : t.out[i] = Farewell \/ \A j \in (req.ack + 1)..i : j \in DOMAIN t.out
        BY <3>1, <3>2, <3>3, Before DEF ProtocolInv
      <3>5. QED BY <1>1, <2>1, <2>2, <3>1, <3>4 DEF OutboxWhole
    <2>7. AckBehind' /\ AckIsLastShown' /\ ShownOnceNoGap'
      BY <1>1, <1>2 DEF OutputInv, AckBehind, AckIsLastShown, ShownOnceNoGap
    <2>8. QED BY <1>1, <1>5, <2>4, <2>5, <2>6, <2>7, AdvanceEmits, AdvanceKeeps DEF OutputInv
  <1>6. QED BY <1>1, <1>4, <1>5, ServedAdvances

LEMMA ServeStraySteps ==
  ASSUME ProtocolInv, ServeStray
  PROVE  LineInv' /\ OutputInv'
  <1>1. PICK r \in strays : Transaction(r)
    BY DEF ServeStray
  <1>2. /\ Served(r) /\ link' = link /\ reply' = reply /\ req' = req /\ phase' = phase
        /\ taken' = taken /\ strays' = strays /\ shown' = shown
    BY <1>1 DEF ServeStray, Served, linkVars, edgeVars
  <1>3. LineInv /\ OutputInv /\ req.id \in Ids
    BY Before DEF ProtocolInv
  <1>4. ReachedMeansRan'
    BY <1>2, <1>3, ServedReaches, ServedRan DEF LineInv, ReachedMeansRan
  <1>5. LineInv'
    BY <1>2, <1>4, ServedFates DEF LineInv
  <1>6. OutputInv'
    <2>1. CASE UNCHANGED <<rows, age, purged, emitted, ran>>
      <3>1. Loaded(req.id)' = Loaded(req.id) /\ Known(req.id)' = Known(req.id) /\ Unshown' = Unshown
        BY <1>2, <2>1 DEF Loaded, Known, Unshown
      <3>2. EmittedIssued' /\ AckBehind' /\ AckIsLastShown' /\ ShownOnceNoGap'
        BY <1>2, <1>3, <2>1, <3>1 DEF OutputInv, EmittedIssued, AckBehind, AckIsLastShown, ShownOnceNoGap, Opens
      <3>3. OutboxEmitted' /\ OutputKept'
        BY <1>2, <1>3, <2>1 DEF OutputInv, OutboxEmitted, ChunksOf, OutputKept, Revoked
      <3>4. OutboxWhole'
        BY <1>2, <1>3, <2>1, <3>1 DEF OutputInv, OutboxWhole
      <3>5. QED BY <3>2, <3>3, <3>4 DEF OutputInv
    <2>2. CASE Advances(r.ack)
      BY <1>2, <2>2, AdvanceOutput
    <2>3. QED BY <1>2, <2>1, <2>2, ServedAdvances
  <1>7. QED BY <1>5, <1>6

LEMMA OtherTransactionSteps ==
  ASSUME ProtocolInv, OtherTransaction
  PROVE  LineInv' /\ OutputInv'
  <1>1. /\ phase' = phase /\ req' = req /\ typed' = typed /\ taken' = taken /\ link' = link
        /\ reply' = reply /\ strays' = strays /\ ran' = ran /\ lost' = lost /\ shown' = shown
    BY DEF OtherTransaction, edgeVars, linkVars
  <1>2. /\ Advances(0) /\ rows'[req.id].seq = Loaded(req.id).seq /\ ~Loaded(req.id).closed
    BY OtherAdvances
  <1>3. LineInv /\ req.id \in Ids
    BY Before DEF ProtocolInv
  <1>4. Loaded(req.id)' = rows'[req.id]
    BY <1>1, <1>2, <1>3, AdvanceCommits
  <1>5. Loaded(req.id)'.seq = Loaded(req.id).seq /\ (Known(req.id)' <=> Known(req.id))
    BY <1>1, <1>2, <1>4 DEF Known
  <1>6. InAir' = InAir /\ Ran' = Ran
    BY <1>1 DEF InAir, Ran
  <1>7. LinesSettled' /\ LastLineInAir'
    BY <1>1, <1>3, <1>6 DEF LineInv, LinesSettled, LastLineInAir, Settled
  <1>8. ReachedMeansRan'
    BY <1>1, <1>2, <1>3, <1>5, <1>6 DEF LineInv, ReachedMeansRan
  <1>9. QED BY <1>1, <1>2, <1>7, <1>8, AdvanceOutput DEF LineInv

(***************************************************************************)
(* The steps of the edge and of the hop, and the passing of time.          *)
(***************************************************************************)

\* Steps that show nothing and leave the rows alone, or let one expire.
LEMMA OutputUntouched ==
  ASSUME ProtocolInv, rows' = rows, emitted' = emitted, shown' = shown, purged' = purged,
         \A i \in Ids : Known(i)' => Known(i) /\ Loaded(i)' = Loaded(i),
         req'.id = req.id, req'.ack = req.ack, req'.seq = 1 => req.seq = 1,
         Opens(req') => req'.line = Notice,
         reply' \in {reply, NoReply}, strays' \subseteq strays \cup {req}
  PROVE  OutputInv'
  <1>1. OutputInv /\ req.id \in Ids /\ req.ack \in Nat
    BY Before DEF ProtocolInv
  <1>2. DOMAIN NoReply.out = {}
    BY DEF NoReply, NoOutput
  <1>3. Known(req.id)' => Known(req.id) /\ Loaded(req.id)' = Loaded(req.id)
    BY <1>1 DEF Known, Loaded
  <1>4. EmittedIssued'
    BY <1>1, <1>3 DEF OutputInv, EmittedIssued, Opens
  <1>5. OutboxEmitted'
    <2>1. ChunksOf(req.id, reply') \subseteq ChunksOf(req.id, reply)
      BY <1>2 DEF ChunksOf
    <2>2. ChunksOf(req'.id, reply') \subseteq emitted
      BY <1>1, <2>1 DEF OutputInv, OutboxEmitted
    <2>3. QED BY <1>1, <2>2 DEF OutputInv, OutboxEmitted, ChunksOf
  <1>6. AckBehind' /\ AckIsLastShown' /\ ShownOnceNoGap'
    BY <1>1 DEF OutputInv, AckBehind, AckIsLastShown, ShownOnceNoGap
  <1>7. OutboxWhole'
    <2>1. reply' = reply => Unshown' = Unshown
      BY DEF Unshown
    <2>2. reply' = NoReply => Unshown' = {}
      BY <1>2 DEF Unshown
    <2>3. QED BY <1>1, <1>3, <2>1, <2>2 DEF OutputInv, OutboxWhole
  <1>8. OutputKept'
    BY <1>1 DEF OutputInv, OutputKept, Revoked
  <1>9. QED BY <1>4, <1>5, <1>6, <1>7, <1>8 DEF OutputInv
LEMMA ExpirySteps ==
  ASSUME ProtocolInv, Elapse
  PROVE  LineInv' /\ OutputInv'
  <1>1. PICK sid \in Ids :
          \/ age[sid] = "live" /\ age' = [age EXCEPT ![sid] = "lapsed"]
          \/ age[sid] = "lapsed" /\ age' = [age EXCEPT ![sid] = "old"]
    BY DEF Elapse
  <1>2. /\ phase' = phase /\ req' = req /\ typed' = typed /\ taken' = taken /\ link' = link /\ reply' = reply
        /\ strays' = strays /\ ran' = ran /\ InAir' = InAir /\ rows' = rows /\ Ran' = Ran
        /\ lost' = lost /\ purged' = purged /\ emitted' = emitted /\ shown' = shown
    BY DEF Elapse, edgeVars, linkVars, histVars, InAir, Ran
  <1>3. age \in [Ids -> {"live", "lapsed", "old"}] /\ req.id \in Ids /\ LineInv
    BY Before DEF ProtocolInv, RequestInv, TypeOK
  <1>4. \A i \in Ids : Known(i)' => Known(i) /\ Loaded(i)' = Loaded(i)
    BY <1>1, <1>2, <1>3 DEF Known, Loaded, NoRow
  <1>5. LinesSettled' /\ LastLineInAir'
    BY <1>2, <1>3 DEF LineInv, LinesSettled, LastLineInAir, Settled
  <1>6. ReachedMeansRan'
    BY <1>2, <1>3, <1>4 DEF LineInv, ReachedMeansRan
  <1>7. \A r \in strays \cup {req} : Opens(r) => r.line = Notice
    BY DEF ProtocolInv, OutputInv, EmittedIssued
  <1>8. OutputInv'
    BY <1>2, <1>4, <1>7, OutputUntouched
  <1>9. QED BY <1>5, <1>6, <1>8 DEF LineInv

\* What the steps of the edge below use: the rows stay as they are.
LEMMA QuietSteps ==
  ASSUME UNCHANGED dbVars, UNCHANGED ran
  PROVE  /\ rows' = rows /\ Ran' = Ran
         /\ \A i \in Ids : Loaded(i)' = Loaded(i) /\ Known(i)' = Known(i)
  BY SameRows DEF dbVars, Ran

LEMMA HopSteps ==
  ASSUME ProtocolInv, TypeLine \/ Send \/ Refuse \/ Abandon \/ LoseReply \/ DropStray
  PROVE  LineInv' /\ OutputInv'
  <1>1. RequestInv /\ LineInv /\ OutputInv /\ req.id \in Ids /\ TypeOK
    BY Before DEF ProtocolInv, RequestInv
  <1>2. link = "sent" => phase \in {"call", "closing", "gone"}
    BY <1>1 DEF RequestInv, TypeOK, AnswerCurrent
  <1>3. /\ phase' = phase /\ req' = req /\ taken' = taken /\ UNCHANGED dbVars /\ UNCHANGED histVars
        /\ strays' \subseteq strays \/ (link = "sent" /\ strays' = strays \cup {req})
        /\ (link' = link /\ reply' = reply) \/ (link' # "answered" /\ reply' \in {reply, NoReply})
        /\ typed' \in Nat /\ typed <= typed'
    <2>1. typed \in Nat /\ typed <= typed /\ typed + 1 \in Nat /\ typed <= typed + 1
      BY <1>1 DEF TypeOK
    <2>2. CASE TypeLine
      BY <2>1, <2>2 DEF TypeLine, linkVars
    <2>3. CASE Send
      BY <2>1, <2>3 DEF Send, edgeVars
    <2>4. CASE Refuse
      BY <2>1, <2>4 DEF Refuse, edgeVars
    <2>5. CASE Abandon
      BY <2>1, <2>5 DEF Abandon, edgeVars
    <2>6. CASE LoseReply
      BY <2>1, <2>6 DEF LoseReply, edgeVars
    <2>7. CASE DropStray
      BY <2>1, <2>7 DEF DropStray, edgeVars
    <2>8. QED BY <2>2, <2>3, <2>4, <2>5, <2>6, <2>7
  <1>4. /\ rows' = rows /\ Ran' = Ran /\ lost' = lost /\ emitted' = emitted /\ shown' = shown /\ purged' = purged
        /\ \A i \in Ids : Loaded(i)' = Loaded(i) /\ Known(i)' = Known(i)
    BY <1>3, QuietSteps DEF histVars
  <1>5. Known(req.id)' = Known(req.id) /\ Loaded(req.id)' = Loaded(req.id)
    BY <1>3, <1>4 DEF Known, Loaded, dbVars
  <1>6. InAir' \subseteq InAir
    BY <1>2, <1>3 DEF InAir
  <1>7. LinesSettled'
    <2>1. taken <= typed' /\ Settled' = Settled
      BY <1>1, <1>3, <1>4 DEF LineInv, LinesSettled, TypeOK, Settled
    <2>2. QED BY <1>1, <1>3, <1>4, <2>1 DEF LineInv, LinesSettled
  <1>8. LastLineInAir'
    BY <1>1, <1>3, <1>4, <1>6 DEF LineInv, LastLineInAir
  <1>9. ReachedMeansRan'
    BY <1>1, <1>3, <1>4, <1>5 DEF LineInv, ReachedMeansRan
  <1>10. OutputInv'
    <2>1. Opens(req') => req'.line = Notice
      BY <1>1, <1>3 DEF OutputInv, EmittedIssued, Opens
    <2>2. QED BY <1>3, <1>4, <2>1, OutputUntouched
  <1>11. QED BY <1>7, <1>8, <1>9, <1>10 DEF LineInv

LEMMA ReceiveSteps ==
  ASSUME ProtocolInv, Receive
  PROVE  LineInv' /\ OutputInv'
  <1>1. RequestInv /\ LineInv /\ OutputInv /\ req.id \in Ids
    BY Before DEF ProtocolInv, RequestInv
  <1>2. /\ phase = "call" /\ phase' = "show" /\ req' = req /\ typed' = typed /\ taken' = taken
        /\ link' = link /\ reply' = reply /\ strays' = strays /\ UNCHANGED dbVars
        /\ ran' = ran /\ lost' = lost /\ emitted' = emitted /\ shown' = shown /\ purged' = purged
    BY DEF Receive, linkVars, histVars
  <1>3. /\ rows' = rows /\ Ran' = Ran /\ InAir' = InAir
        /\ \A i \in Ids : Loaded(i)' = Loaded(i) /\ Known(i)' = Known(i)
    BY <1>2, QuietSteps DEF InAir
  <1>4. Known(req.id)' = Known(req.id) /\ Loaded(req.id)' = Loaded(req.id)
    BY <1>2, <1>3 DEF Known, Loaded, dbVars
  <1>5. LinesSettled' /\ LastLineInAir'
    BY <1>1, <1>2, <1>3 DEF LineInv, LinesSettled, LastLineInAir, Settled
  <1>6. ReachedMeansRan'
    BY <1>1, <1>2, <1>3, <1>4 DEF LineInv, ReachedMeansRan
  <1>7. OutputInv'
    <2>1. Opens(req') => req'.line = Notice
      BY <1>1, <1>2 DEF OutputInv, EmittedIssued, Opens
    <2>2. QED BY <1>2, <1>3, <2>1, OutputUntouched
  <1>8. QED BY <1>5, <1>6, <1>7 DEF LineInv

\* The socket gets the identifier after the last one it got, or a farewell.
LEMMA ShowChunkSteps ==
  ASSUME ProtocolInv, ShowChunk
  PROVE  LineInv' /\ OutputInv'
  <1> DEFINE c(n) == [sid |-> req.id, id |-> n, by |-> reply.out[n]]
  <1>1. RequestInv /\ LineInv /\ OutputInv /\ TypeOK
    BY DEF ProtocolInv, RequestInv
  <1>2. PICK n \in Unshown :
          /\ \A j \in Unshown : n <= j
          /\ shown' = Append(shown, c(n))
          /\ req' = [req EXCEPT !.ack = n]
    BY DEF ShowChunk
  <1>3. /\ phase = "show" /\ phase' = phase /\ typed' = typed /\ taken' = taken
        /\ link' = link /\ reply' = reply /\ strays' = strays /\ UNCHANGED dbVars
        /\ ran' = ran /\ lost' = lost /\ emitted' = emitted /\ purged' = purged
    BY DEF ShowChunk, linkVars
  <1>4. PICK D \in SUBSET (1..MaxOut) : reply.out \in [D -> Authors]
    BY <1>1 DEF TypeOK, Reply, Outbox
  <1>5. n \in DOMAIN reply.out /\ n \in Nat /\ n > req.ack /\ req.ack \in Nat /\ req.id \in Ids
    BY <1>1, <1>4, Before DEF Unshown
  <1>6. /\ req'.id = req.id /\ req'.seq = req.seq /\ req'.kind = req.kind
        /\ req'.line = req.line /\ req'.ack = n
    BY <1>1, <1>2, <1>5, RequestAck, Before
  <1>7. /\ rows' = rows /\ Ran' = Ran
        /\ \A i \in Ids : Loaded(i)' = Loaded(i) /\ Known(i)' = Known(i)
    BY <1>3, QuietSteps
  <1>8. Known(req.id)' = Known(req.id) /\ Loaded(req.id)' = Loaded(req.id)
    BY <1>3, <1>6, <1>7 DEF Known, Loaded, dbVars
  <1>9. LinesSettled'
    BY <1>1, <1>3, <1>6, <1>7 DEF LineInv, LinesSettled, Settled
  <1>10. LastLineInAir'
    <2>1. \A r \in InAir' : \E x \in InAir : r.kind = x.kind /\ r.id = x.id /\ r.seq = x.seq /\ r.line = x.line
      BY <1>3, <1>6 DEF InAir
    <2>2. QED BY <1>1, <1>3, <1>6, <2>1 DEF LineInv, LastLineInAir
  <1>11. ReachedMeansRan'
    BY <1>1, <1>3, <1>6, <1>7, <1>8 DEF LineInv, ReachedMeansRan
  <1>12. reply.out[n] = Farewell \/ n = req.ack + 1
    <2>1. CASE \A j \in (req.ack + 1)..n : j \in DOMAIN reply.out
      <3>1. req.ack + 1 \in Unshown
        BY <1>5, <2>1 DEF Unshown
      <3>2. QED BY <1>2, <1>5, <3>1
    <2>2. QED BY <1>1, <1>2, <2>1 DEF OutputInv, OutboxWhole
  <1>13. EmittedIssued' /\ AckBehind'
    <2>1. EmittedIssued'
      BY <1>1, <1>3, <1>6, <1>8 DEF OutputInv, EmittedIssued, Opens
    <2>2. \A r \in strays : r.ack \in Nat
      BY <1>1 DEF TypeOK, Request
    <2>3. AckBehind'
      BY <1>1, <1>3, <1>5, <1>6, <2>2 DEF OutputInv, AckBehind
    <2>4. QED BY <2>1, <2>3
  <1>14. OutboxEmitted'
    BY <1>1, <1>3, <1>6, <1>7 DEF OutputInv, OutboxEmitted, ChunksOf
  <1>15. OutboxWhole'
    <2>1. Known(req.id) =>
            LET s == Loaded(req.id)
            IN  \/ \A j \in (n + 1)..s.next : j \in DOMAIN s.out
                \/ s.closed /\ \A j \in DOMAIN s.out : j > n => s.out[j] = Farewell
      <3>1. SUFFICES ASSUME Known(req.id)
                     PROVE  LET s == Loaded(req.id)
                            IN  \/ \A j \in (n + 1)..s.next : j \in DOMAIN s.out
                                \/ s.closed /\ \A j \in DOMAIN s.out : j > n => s.out[j] = Farewell
        OBVIOUS
      <3> DEFINE s == Loaded(req.id)
      <3>2. Good(s) /\ s.next \in Nat /\ \A j \in DOMAIN s.out : j \in Nat
        BY <1>1, <1>5, LoadedGood, GoodFields DEF RequestInv
      <3>3. \/ \A j \in (req.ack + 1)..s.next : j \in DOMAIN s.out
            \/ s.closed /\ \A j \in DOMAIN s.out : j > req.ack => s.out[j] = Farewell
        BY <1>1, <3>1 DEF OutputInv, OutboxWhole
      <3> HIDE DEF s
      <3>4. QED BY <1>5, <3>2, <3>3 DEF s
    <2>2. Unshown' = {i \in DOMAIN reply.out : i > n}
      BY <1>3, <1>6 DEF Unshown
    <2>3. \A i \in Unshown' : i \in Unshown /\ i \in Nat
      <3>1. \A i \in DOMAIN reply.out : i \in Nat
        <4>1. DOMAIN reply.out = D
          BY <1>4
        <4>2. \A i \in 1..MaxOut : i \in Nat
          OBVIOUS
        <4>3. QED BY <4>1, <4>2
      <3>2. QED BY <1>5, <2>2, <3>1 DEF Unshown
    <2>4. \A i \in Unshown' : reply.out[i] = Farewell \/ \A j \in (n + 1)..i : j \in DOMAIN reply.out
      BY <1>1, <1>5, <2>3 DEF OutputInv, OutboxWhole
    <2>5. QED BY <1>3, <1>6, <1>8, <2>1, <2>4 DEF OutboxWhole
  <1>16. /\ shown \in Seq(Chunk) /\ Len(shown) \in Nat /\ c(n) \in Chunk
    <2>1. c(n) \in emitted
      BY <1>1, <1>5 DEF OutputInv, OutboxEmitted, ChunksOf
    <2>2. QED BY <1>1, <2>1 DEF TypeOK
  <1>17. /\ shown' # <<>> /\ Len(shown') = Len(shown) + 1 /\ shown'[Len(shown) + 1] = c(n)
         /\ \A i \in 1..Len(shown) : shown'[i] = shown[i]
    BY <1>2, <1>16
  <1>18. AckIsLastShown'
    BY <1>5, <1>6, <1>16, <1>17 DEF AckIsLastShown, Ids
  <1>19. ShownOnceNoGap'
    <2>1. SUFFICES ASSUME NEW i \in 1..Len(shown) PROVE Successive(shown'[i], shown'[i + 1])
      BY <1>16, <1>17 DEF ShownOnceNoGap
    <2>2. CASE i < Len(shown)
      BY <1>1, <1>16, <1>17, <2>2 DEF OutputInv, ShownOnceNoGap
    <2>3. CASE i = Len(shown)
      <3> DEFINE last == shown[Len(shown)]
      <3>1. /\ last.sid <= req.id /\ shown'[i] = last /\ shown'[i + 1] = c(n)
            /\ req.ack = IF last.sid = req.id THEN last.id ELSE 0
            /\ last \in Chunk
        BY <1>1, <1>16, <1>17, <2>3 DEF OutputInv, AckIsLastShown
      <3>2. last.sid \in Nat /\ req.id \in Nat
        BY <1>5, <3>1 DEF Chunk, Ids
      <3>3. c(n).sid = req.id /\ c(n).id = n /\ c(n).by = reply.out[n]
        OBVIOUS
      <3> HIDE DEF c, last
      <3>4. QED BY <1>5, <1>12, <3>1, <3>2, <3>3 DEF Successive
    <2>4. QED BY <1>16, <2>2, <2>3
  <1>20. OutputKept'
    <2>1. \A e \in emitted : e.id \in Nat
      BY <1>1 DEF TypeOK, Chunk
    <2>2. QED BY <1>1, <1>3, <1>5, <1>6, <1>7, <2>1 DEF OutputInv, OutputKept, Revoked
  <1>21. QED BY <1>9, <1>10, <1>11, <1>13, <1>14, <1>15, <1>18, <1>19, <1>20 DEF LineInv, OutputInv
LEMMA ReceiveResetSteps ==
  ASSUME ProtocolInv, ReceiveReset
  PROVE  LineInv' /\ OutputInv'
  <1> DEFINE new == OpenRequest(req.id + 1)
  <1>1. /\ phase = "call" /\ req.id < MaxIds /\ req' = new /\ phase' = phase /\ typed' = typed
        /\ taken' = taken /\ strays' = strays /\ link' = "idle" /\ reply' = NoReply
        /\ lost' = (IF req.kind = "input" THEN lost \cup {req.line} ELSE lost)
        /\ UNCHANGED dbVars /\ ran' = ran /\ purged' = purged /\ emitted' = emitted /\ shown' = shown
    BY DEF ReceiveReset
  <1>2. /\ RequestInv /\ LineInv /\ OutputInv /\ TypeOK /\ req.id \in Ids
        /\ req.id \in Nat /\ req.kind \in Kinds /\ req \in InAir
    BY <1>1, Before DEF ProtocolInv, RequestInv, InAir, Ids
  <1>3. /\ new.id = req.id + 1 /\ new.seq = 1 /\ new.kind = "open" /\ new.line = Notice /\ new.ack = 0
        /\ new.id \in Ids /\ new.id \in Nat
    BY <1>1, <1>2 DEF OpenRequest, Notice, Ids
  <1> HIDE DEF new
  <1>4. /\ rows' = rows /\ Ran' = Ran
        /\ \A i \in Ids : Loaded(i)' = Loaded(i) /\ Known(i)' = Known(i)
    BY <1>1, QuietSteps
  <1>5. ~Known(req.id)'
    <2>1. rows[new.id].seq = 0
      BY <1>2, <1>3 DEF RequestInv, OtherIdsGone
    <2>2. Loaded(new.id).seq = 0
      BY <2>1 DEF Loaded, NoRow
    <2>3. QED BY <1>1, <1>3, <1>4, <2>2 DEF Known, Loaded, dbVars
  <1>6. \A r \in strays : r.id \in Nat /\ r.id # new.id
    BY <1>2, <1>3 DEF RequestInv, OtherIdsGone, TypeOK, Request, Ids
  <1>7. \A e \in emitted : e.sid \in Nat /\ e.sid < new.id
    BY <1>2, <1>3 DEF OutputInv, EmittedIssued, TypeOK, Chunk, Ids
  <1>8. req.kind = "input" => req.line = taken /\ taken \in Lines
    BY <1>2 DEF LineInv, LastLineInAir, RequestInv, LinesTaken, TypeOK, Lines
  <1>9. LinesSettled'
    <2>1. taken \in Nat
      BY <1>2 DEF TypeOK
    <2>2. lost' \subseteq 1..taken /\ Settled \subseteq Settled'
      <3>1. lost \subseteq 1..taken
        BY <1>2 DEF LineInv, LinesSettled
      <3>2. req.kind = "input" => req.line \in 1..taken
        BY <1>8, <2>1 DEF Lines
      <3>3. lost' \subseteq 1..taken /\ lost \subseteq lost'
        BY <1>1, <3>1, <3>2
      <3>4. QED BY <1>4, <3>3 DEF Settled
    <2>3. \A i \in 1..taken : i \in Settled'
      BY <1>1, <1>2, <1>4, <1>8, <2>1, <2>2 DEF LineInv, LinesSettled, Settled
    <2>4. QED BY <1>1, <1>2, <2>2, <2>3 DEF LineInv, LinesSettled
  <1>10. LastLineInAir'
    BY <1>1, <1>3, <1>6 DEF LastLineInAir, InAir
  <1>11. ReachedMeansRan'
    BY <1>1, <1>3 DEF ReachedMeansRan
  <1>12. EmittedIssued'
    <2>1. \A r \in strays : Opens(r) => r.line = Notice
      BY <1>2 DEF OutputInv, EmittedIssued
    <2>2. QED BY <1>1, <1>2, <1>3, <1>5, <1>7, <2>1 DEF EmittedIssued, Ids
  <1>13. OutboxEmitted'
    <2>1. ChunksOf(new.id, NoReply) = {}
      BY DEF ChunksOf, NoReply, NoOutput
    <2>2. QED BY <1>1, <1>2, <1>4, <2>1 DEF OutputInv, OutboxEmitted, ChunksOf
  <1>14. OutboxWhole'
    <2>1. Unshown' = {}
      BY <1>1 DEF Unshown, NoReply, NoOutput
    <2>2. QED BY <1>5, <2>1 DEF OutboxWhole
  <1>15. AckBehind'
    BY <1>1, <1>6 DEF AckBehind
  <1>16. AckIsLastShown' /\ ShownOnceNoGap'
    <2>1. shown = <<>> \/ shown[Len(shown)] \in Chunk
      BY <1>2 DEF TypeOK
    <2>2. shown # <<>> => shown[Len(shown)].sid \in Nat /\ shown[Len(shown)].sid < new.id
      BY <1>2, <1>3, <2>1 DEF OutputInv, AckIsLastShown, Chunk, Ids
    <2>3. AckIsLastShown'
      BY <1>1, <1>3, <2>2 DEF AckIsLastShown
    <2>4. QED BY <1>1, <1>2, <2>3 DEF OutputInv, ShownOnceNoGap
  <1>17. OutputKept'
    BY <1>1, <1>7 DEF OutputKept
  <1>18. QED BY <1>9, <1>10, <1>11, <1>12, <1>13, <1>14, <1>15, <1>16, <1>17 DEF LineInv, OutputInv

LEMMA SettleSteps ==
  ASSUME ProtocolInv, Settle
  PROVE  LineInv' /\ OutputInv'
  <1>1. /\ phase = "show" /\ link' = "idle" /\ reply' = NoReply
        /\ typed' = typed /\ taken' = taken /\ strays' = strays /\ UNCHANGED dbVars
        /\ ran' = ran /\ lost' = lost /\ purged' = purged /\ emitted' = emitted /\ shown' = shown
        /\ \/ phase' = "closing" /\ req' = CloseRequest(req)
           \/ phase' = "select" /\ req' = [req EXCEPT !.seq = req.seq + 1] /\ ~reply.closed
    BY DEF Settle, histVars
  <1>2. /\ RequestInv /\ LineInv /\ OutputInv /\ TypeOK /\ req \in InAir
        /\ req \in Request /\ req.seq \in Nat /\ req.id \in Ids /\ req.seq >= 1
    BY <1>1, Before DEF ProtocolInv, RequestInv, InAir
  <1>3. link = "answered" /\ ~reply.reset
    BY <1>1, <1>2 DEF RequestInv, AnswerCurrent
  <1>4. /\ req'.id = req.id /\ req'.ack = req.ack /\ req' \in Request
        /\ \/ phase' = "closing" /\ req'.seq = req.seq /\ req'.kind = "close"
           \/ phase' = "select" /\ req'.seq = req.seq + 1 /\ ~reply.closed
    <2>1. CASE phase' = "closing" /\ req' = CloseRequest(req)
      BY <1>2, <2>1, CloseRequestTyped
    <2>2. CASE phase' = "select" /\ req' = [req EXCEPT !.seq = req.seq + 1] /\ ~reply.closed
      <3>1. req.seq + 1 \in Nat
        BY <1>2
      <3>2. QED BY <1>2, <2>2, <3>1, RequestSeq
    <2>3. QED BY <1>1, <2>1, <2>2
  <1>5. /\ rows' = rows /\ Ran' = Ran
        /\ \A i \in Ids : Loaded(i)' = Loaded(i) /\ Known(i)' = Known(i)
    BY <1>1, QuietSteps
  <1>6. Known(req.id)' = Known(req.id) /\ Loaded(req.id)' = Loaded(req.id)
    BY <1>1, <1>4, <1>5 DEF Known, Loaded, dbVars
  <1>7. \A r \in strays : r.id = req.id => r.seq \in Nat /\ r.seq <= req.seq
    BY <1>2 DEF RequestInv, SequenceClose, TypeOK, Request
  <1>8. LinesSettled'
    <2>1. phase' = "select" => taken = 0 \/ taken \in Settled
      <3>1. SUFFICES ASSUME phase' = "select" PROVE taken = 0 \/ taken \in Settled
        OBVIOUS
      <3>2. CASE req.kind = "input"
        BY <1>1, <1>2, <1>3, <1>4, <3>1, <3>2 DEF LineInv, ReachedMeansRan, Settled
      <3>3. CASE req.kind # "input"
        BY <1>1, <1>2, <3>3 DEF LineInv, LinesSettled, TypeOK
      <3>4. QED BY <3>2, <3>3
    <2>2. Settled' = Settled
      BY <1>1, <1>5 DEF Settled
    <2>3. QED BY <1>1, <1>2, <1>4, <2>1, <2>2 DEF LineInv, LinesSettled, TypeOK
  <1>9. LastLineInAir'
    <2>1. CASE phase' = "closing"
      BY <1>1, <1>2, <1>4, <2>1 DEF LineInv, LastLineInAir, InAir
    <2>2. CASE phase' = "select"
      BY <1>1, <1>2, <1>4, <1>7, <2>2 DEF LastLineInAir, InAir
    <2>3. QED BY <1>4, <2>1, <2>2
  <1>10. ReachedMeansRan'
    <2>1. Known(req.id) => Loaded(req.id).seq <= req.seq /\ Loaded(req.id).seq \in Nat
      BY <1>2, Before DEF RequestInv, SequenceClose
    <2>2. QED BY <1>2, <1>4, <1>6, <2>1 DEF ReachedMeansRan
  <1>11. OutputInv'
    <2>1. (req'.seq = 1 => req.seq = 1) /\ ~Opens(req')
      BY <1>2, <1>4 DEF Opens
    <2>2. QED BY <1>1, <1>4, <1>5, <2>1, OutputUntouched
  <1>12. QED BY <1>8, <1>9, <1>10, <1>11 DEF LineInv

LEMMA SelectSteps ==
  ASSUME ProtocolInv, TakeLine \/ Poll \/ IdleClose
  PROVE  LineInv' /\ OutputInv'
  <1>1. /\ phase = "select" /\ phase' = "call" /\ link' = link /\ reply' = reply
        /\ typed' = typed /\ strays' = strays /\ UNCHANGED dbVars
        /\ ran' = ran /\ lost' = lost /\ purged' = purged /\ emitted' = emitted /\ shown' = shown
        /\ \/ taken' = taken /\ req' = [req EXCEPT !.kind = "poll", !.line = 0]
           \/ taken' = taken /\ req' = [req EXCEPT !.kind = "close", !.line = 0]
           \/ /\ taken < typed /\ taken' = taken + 1
              /\ req' = [req EXCEPT !.kind = "input", !.line = taken + 1]
    BY DEF TakeLine, Poll, IdleClose, CloseRequest, linkVars, histVars
  <1>2. /\ RequestInv /\ LineInv /\ OutputInv /\ req \in Request /\ req.id \in Ids
        /\ taken \in Nat /\ typed \in Nat /\ link = "idle"
    BY <1>1, Before DEF ProtocolInv, RequestInv, TypeOK, AnswerCurrent
  <1>3. /\ req'.id = req.id /\ req'.ack = req.ack /\ req'.seq = req.seq
        /\ \/ req'.kind \in {"poll", "close"} /\ taken' = taken
           \/ req'.kind = "input" /\ req'.line = taken + 1 /\ taken' = taken + 1 /\ taken < typed
    BY <1>1, <1>2 DEF Request
  <1>4. /\ rows' = rows /\ Ran' = Ran
        /\ \A i \in Ids : Loaded(i)' = Loaded(i) /\ Known(i)' = Known(i)
    BY <1>1, QuietSteps
  <1>5. Known(req.id)' = Known(req.id) /\ Loaded(req.id)' = Loaded(req.id)
    BY <1>1, <1>3, <1>4 DEF Known, Loaded, dbVars
  <1>6. \A r \in strays : r.id = req.id => r.seq # req.seq
    BY <1>1, <1>2 DEF RequestInv, SequenceClose, TypeOK, Request
  <1>7. \A i \in 1..taken : i \in Settled
    BY <1>1, <1>2 DEF LineInv, LinesSettled
  <1>8. LinesSettled'
    <2>1. Settled' = Settled
      BY <1>1, <1>4 DEF Settled
    <2>2. taken' <= typed /\ lost \subseteq 1..taken'
      BY <1>2, <1>3 DEF LineInv, LinesSettled
    <2>3. \A i \in 1..taken' : i \in 1..taken \/ (i = taken' /\ req'.kind = "input")
      BY <1>2, <1>3
    <2>4. QED BY <1>1, <1>7, <2>1, <2>2, <2>3 DEF LinesSettled
  <1>9. LastLineInAir'
    <2>1. lost \subseteq 1..taken
      BY <1>2 DEF LineInv, LinesSettled
    <2>2. QED BY <1>1, <1>2, <1>3, <1>6, <2>1 DEF LastLineInAir, InAir
  <1>10. ReachedMeansRan'
    <2>1. Known(req.id) => Loaded(req.id).seq # req.seq
      BY <1>1, <1>2, Before DEF LineInv, ReachedMeansRan
    <2>2. QED BY <1>1, <1>2, <1>3, <1>5, <2>1 DEF ReachedMeansRan
  <1>11. OutputInv'
    <2>1. ~Opens(req')
      BY <1>3 DEF Opens
    <2>2. QED BY <1>1, <1>3, <1>4, <2>1, OutputUntouched
  <1>12. QED BY <1>8, <1>9, <1>10, <1>11 DEF LineInv

LEMMA EndSteps ==
  ASSUME ProtocolInv, Hangup \/ Depart
  PROVE  LineInv' /\ OutputInv'
  <1>1. /\ phase' \in {"closing", "gone"} /\ link' = "idle" /\ reply' = NoReply
        /\ typed' = typed /\ taken' = taken /\ UNCHANGED dbVars
        /\ ran' = ran /\ lost' = lost /\ purged' = purged /\ emitted' = emitted /\ shown' = shown
        /\ req' = CloseRequest(req) \/ (req' = req /\ phase # "select")
        /\ strays' = strays \/ (link = "sent" /\ strays' = strays \cup {req})
    BY DEF Hangup, Depart, histVars
  <1>2. /\ RequestInv /\ LineInv /\ OutputInv /\ req \in Request /\ req.id \in Ids
        /\ link = "sent" => phase # "select"
    BY Before DEF ProtocolInv, RequestInv, AnswerCurrent
  <1>3. /\ req'.id = req.id /\ req'.ack = req.ack /\ req'.seq = req.seq
        /\ (req' = req /\ phase # "select") \/ req'.kind = "close"
    BY <1>1, <1>2, CloseRequestTyped
  <1>4. /\ rows' = rows /\ Ran' = Ran
        /\ \A i \in Ids : Loaded(i)' = Loaded(i) /\ Known(i)' = Known(i)
    BY <1>1, QuietSteps
  <1>5. Known(req.id)' = Known(req.id) /\ Loaded(req.id)' = Loaded(req.id)
    BY <1>1, <1>3, <1>4 DEF Known, Loaded, dbVars
  <1>6. \A x \in InAir' : x \in InAir \/ (x = req' /\ x.kind = "close")
    BY <1>1, <1>2, <1>3 DEF InAir
  <1>7. LinesSettled'
    <2>1. Settled' = Settled
      BY <1>1, <1>4 DEF Settled
    <2>2. QED BY <1>1, <1>2, <2>1 DEF LineInv, LinesSettled
  <1>8. LastLineInAir'
    BY <1>1, <1>2, <1>3, <1>6 DEF LineInv, LastLineInAir
  <1>9. ReachedMeansRan'
    BY <1>1 DEF ReachedMeansRan
  <1>10. OutputInv'
    <2>1. Opens(req') => req'.line = Notice
      BY <1>2, <1>3 DEF OutputInv, EmittedIssued, Opens
    <2>2. strays' \subseteq strays \cup {req}
      BY <1>1
    <2>3. QED BY <1>1, <1>3, <1>4, <2>1, <2>2, OutputUntouched
  <1>11. QED BY <1>7, <1>8, <1>9, <1>10 DEF LineInv
(***************************************************************************)
(* The inductive invariant.                                                *)
(***************************************************************************)

LEMMA InitSettled == Init => LineInv /\ OutputInv
  <1> SUFFICES ASSUME Init PROVE LineInv /\ OutputInv
    OBVIOUS
  <1>1. /\ req.id = 1 /\ req.seq = 1 /\ req.kind = "open" /\ req.line = 0 /\ req.ack = 0
        /\ phase = "call" /\ typed = 0 /\ taken = 0 /\ link = "idle" /\ strays = {} /\ ran = <<>>
        /\ lost = {} /\ emitted = {} /\ shown = <<>> /\ reply = NoReply
    BY DEF Init, OpenRequest
  <1>2. \A i \in Ids : rows[i] = NoRow
    BY DEF Init
  <1>3. LinesSettled /\ LastLineInAir /\ ReachedMeansRan
    BY <1>1 DEF LinesSettled, LastLineInAir, ReachedMeansRan, InAir
  <1>4. EmittedIssued /\ AckBehind /\ AckIsLastShown /\ OutputKept
    BY <1>1 DEF EmittedIssued, AckBehind, AckIsLastShown, OutputKept, Notice
  <1>5. ShownOnceNoGap
    BY <1>1 DEF ShownOnceNoGap
  <1>6. OutboxEmitted
    <2>1. \A i : ChunksOf(i, NoRow) = {} /\ ChunksOf(i, NoReply) = {}
      BY DEF ChunksOf, NoRow, NoReply, NoOutput
    <2>2. QED BY <1>1, <1>2, <2>1 DEF OutboxEmitted
  <1>7. OutboxWhole
    <2>1. Unshown = {}
      BY <1>1 DEF Unshown, NoReply, NoOutput
    <2>2. ~Known(req.id)
      <3>1. req.id \in Ids
        BY <1>1 DEF Ids
      <3>2. QED BY <1>2, <3>1 DEF Known, Loaded, NoRow
    <2>3. QED BY <2>1, <2>2 DEF OutboxWhole
  <1>8. QED BY <1>3, <1>4, <1>5, <1>6, <1>7 DEF LineInv, OutputInv

LEMMA StutterKeeps ==
  ASSUME ProtocolInv, UNCHANGED vars
  PROVE  LineInv' /\ OutputInv'
  <1> USE DEF vars
  <1>1. /\ InAir' = InAir /\ Ran' = Ran /\ \A i \in Ids : Loaded(i)' = Loaded(i) /\ Known(i)' = Known(i)
        /\ Known(req.id)' = Known(req.id) /\ Loaded(req.id)' = Loaded(req.id)
    BY DEF InAir, Ran, Loaded, Known
  <1>2. LineInv'
    BY <1>1 DEF ProtocolInv, LineInv, LinesSettled, LastLineInAir, ReachedMeansRan, Settled
  <1>3. OutputInv'
    <2>1. Opens(req') => req'.line = Notice
      BY DEF ProtocolInv, OutputInv, EmittedIssued, Opens
    <2>2. QED BY <1>1, <2>1, OutputUntouched
  <1>4. QED BY <1>2, <1>3

LEMMA ProtocolStep ==
  ASSUME ProtocolInv, [Next]_vars
  PROVE  ProtocolInv'
  <1>1. RequestInv
    BY DEF ProtocolInv
  <1>2. RequestInv'
    BY <1>1, HopStep, ReceiveResetStep, ReceiveStep, ShowChunkStep, SettleStep, SelectStep, EndStep,
       ServeStep, ServeStrayStep, OtherTransactionStep, ElapseStep, StutterHolds
       DEF Next, EdgeNext, NetworkNext, CoreNext
  <1>3. LineInv' /\ OutputInv'
    BY HopSteps, ReceiveResetSteps, ReceiveSteps, ShowChunkSteps, SettleSteps, SelectSteps, EndSteps,
       ServeSteps, ServeStraySteps, OtherTransactionSteps, ExpirySteps, StutterKeeps
       DEF Next, EdgeNext, NetworkNext, CoreNext
  <1>4. QED BY <1>2, <1>3 DEF ProtocolInv

\* The inductive invariant holds in every reachable state: what the edge, its
\* retries and the rows know of each other, what became of every line, and
\* where every chunk of output is.
THEOREM InductiveInvariant == Spec => []ProtocolInv
  <1>1. Init => ProtocolInv
    BY InitHolds, InitSettled DEF ProtocolInv
  <1>2. ProtocolInv /\ [Next]_vars => ProtocolInv'
    BY ProtocolStep
  <1>3. QED BY <1>1, <1>2, PTL DEF Spec

(***************************************************************************)
(* The invariants of the terminal.                                         *)
(***************************************************************************)

\* Whatever was retried, abandoned or lost: a line the edge took from its
\* channel has run, or a reset dropped it, or its own request is unanswered, as
\* long as the session is open.
THEOREM LinesAnswered == Spec => []AnsweredMeansRan
  <1>1. ProtocolInv => AnsweredMeansRan
    <2>1. SUFFICES ASSUME ProtocolInv, phase \in {"call", "show", "select"}, NEW n \in 1..taken
                   PROVE  n \in Ran \cup lost \cup InFlight
      BY DEF AnsweredMeansRan
    <2>2. LinesSettled /\ LastLineInAir
      BY <2>1 DEF ProtocolInv, LineInv
    <2>3. CASE n \in Settled
      BY <2>3 DEF Settled
    <2>4. CASE n = taken /\ phase \in {"call", "show"} /\ req.kind = "input"
      <3>1. req.line = taken
        BY <2>2, <2>4 DEF LastLineInAir, InAir
      <3>2. QED BY <2>4, <3>1 DEF InFlight
    <2>5. QED BY <2>1, <2>2, <2>3, <2>4 DEF LinesSettled
  <1>2. QED BY <1>1, InductiveInvariant, PTL

\* The socket shows each chunk once, in order and without a gap, whatever the
\* size of the outbox; only a farewell may stand for what it replaced.
THEOREM OutputShownInOrder == Spec => []ShownOnceNoGap
  <1>1. ProtocolInv => ShownOnceNoGap
    BY DEF ProtocolInv, OutputInv
  <1>2. QED BY <1>1, InductiveInvariant, PTL

\* Output that was committed and not shown is still in the row's outbox, unless
\* the row expired or a farewell replaced it: a lost answer loses nothing.
THEOREM OutputNotLost == Spec => []OutputKept
  <1>1. ProtocolInv => OutputKept
    BY DEF ProtocolInv, OutputInv
  <1>2. QED BY <1>1, InductiveInvariant, PTL

(***************************************************************************)
(* What a step may never do.                                               *)
(***************************************************************************)

\* A step of Next either is a transaction or leaves rows and ran alone.
LEMMA OnlyTransactionsWrite ==
  ASSUME ProtocolInv, [Next]_vars
  PROVE  \/ \E r : Served(r)
         \/ OtherTransaction
         \/ UNCHANGED <<rows, ran, emitted>>
  <1>1. CASE Serve
    BY <1>1 DEF Serve, Served
  <1>2. CASE ServeStray
    BY <1>2 DEF ServeStray, Served, linkVars
  <1>3. CASE OtherTransaction
    BY <1>3
  <1>4. CASE Elapse \/ Send \/ TypeLine \/ Refuse \/ Abandon \/ LoseReply \/ DropStray
    BY <1>4 DEF Elapse, Send, TypeLine, Refuse, Abandon, LoseReply, DropStray, histVars, dbVars
  <1>5. CASE ReceiveReset \/ Receive \/ ShowChunk \/ Settle \/ TakeLine \/ Poll \/ IdleClose \/ Hangup \/ Depart
    BY <1>5 DEF ReceiveReset, Receive, ShowChunk, Settle, TakeLine, Poll, IdleClose, Hangup, Depart, histVars, dbVars
  <1>6. CASE UNCHANGED vars
    BY <1>6 DEF vars
  <1>7. QED BY <1>1, <1>2, <1>3, <1>4, <1>5, <1>6 DEF Next, EdgeNext, NetworkNext, CoreNext

\* Requests abandoned before the hang-up can still be committed after it, but
\* none of them runs a line once the row is closed.
THEOREM HangupFinal == Spec => HangupIsFinal
  <1>1. ASSUME ProtocolInv, [Next]_vars, rows[req.id].closed
        PROVE  ran' = ran
    <2>1. CASE \E r : Served(r)
      <3>1. PICK r : Served(r)
        BY <2>1
      <3>2. ran' # ran => Known(req.id) /\ ~Loaded(req.id).closed
        BY <1>1, <3>1, ServedRuns
      <3>3. Known(req.id) => Loaded(req.id) = rows[req.id]
        BY DEF Known, Loaded, NoRow
      <3>4. QED BY <1>1, <3>2, <3>3
    <2>2. CASE OtherTransaction
      BY <2>2 DEF OtherTransaction
    <2>3. QED BY <1>1, <2>1, <2>2, OnlyTransactionsWrite
  <1>2. ProtocolInv /\ [Next]_vars =>
          [(phase \in {"closing", "gone"} /\ rows[req.id].closed) => ran' = ran]_vars
    BY <1>1
  <1>3. QED BY <1>2, InductiveInvariant, PTL DEF Spec, HangupIsFinal

\* No transaction, of this terminal or of another, opens a closed session again:
\* only its expiry ends it.
THEOREM ClosedFinal == Spec => ClosedIsFinal
  <1>1. ASSUME ProtocolInv, [Next]_vars, NEW sid \in Ids, rows[sid].closed, age[sid] # "old"
        PROVE  rows'[sid].closed
    <2>1. Loaded(sid) = rows[sid] /\ req.id \in Ids
      BY <1>1, Before DEF Loaded, ProtocolInv
    <2>2. ASSUME NEW a, Advances(a)
          PROVE  rows'[sid].closed
      <3>1. CASE sid = req.id
        BY <1>1, <2>1, <2>2, <3>1 DEF Advances
      <3>2. CASE sid # req.id
        BY <1>1, <2>1, <2>2, <3>2, AdvanceCommits
      <3>3. QED BY <3>1, <3>2
    <2>3. CASE \E r : Served(r)
      BY <1>1, <2>2, <2>3, ServedAdvances
    <2>4. CASE OtherTransaction
      BY <1>1, <2>2, <2>4, OtherAdvances
    <2>5. QED BY <1>1, <2>3, <2>4, OnlyTransactionsWrite
  <1>2. ProtocolInv /\ [Next]_vars =>
          [\A sid \in Ids : rows[sid].closed /\ age[sid] # "old" => rows'[sid].closed]_vars
    BY <1>1
  <1>3. QED BY <1>2, InductiveInvariant, PTL DEF Spec, ClosedIsFinal

(***************************************************************************)
(* The protocol implements ReliableTerminal: one lemma per action of it.   *)
(***************************************************************************)

\* A commit produces chunks under identifiers nothing was emitted with.
LEMMA AdvanceProduces ==
  ASSUME ProtocolInv, NEW a, Advances(a)
  PROVE  Promise!Produce
  <1> DEFINE s == Loaded(req.id)
             t == rows'[req.id]
  <1>1. emitted' = emitted \cup ChunksOf(req.id, t)
    BY AdvanceCommits
  <1>2. EmittedIssued /\ \A f \in emitted : f.id \in Nat
    BY DEF ProtocolInv, OutputInv, RequestInv, TypeOK, Chunk
  <1>3. ASSUME NEW e \in emitted' \ emitted, NEW f \in emitted, e.sid = f.sid, e.id = f.id
        PROVE  FALSE
    <2>1. e \in ChunksOf(req.id, t) /\ e \notin emitted
      BY <1>1, <1>3
    <2>2. /\ e = [sid |-> req.id, id |-> e.id, by |-> t.out[e.id]]
          /\ e.sid = req.id /\ e.id \in Nat /\ e.id >= 1 /\ e.id <= t.next /\ e.id > s.next
      BY <2>1, ChunkOldOrFresh
    <2>3. s.next \in Nat /\ t.next \in Nat
      BY GoodFields DEF Advances
    <2>4. CASE s = NoRow
      <3>1. t.next = 1 /\ t.out[1] = Notice /\ req.seq = 1
        BY <2>4 DEF Advances
      <3>2. f.id = 1 /\ f.by = Notice
        BY <1>2, <1>3, <2>2, <3>1 DEF EmittedIssued
      <3>3. e = [sid |-> req.id, id |-> 1, by |-> Notice]
        BY <1>3, <2>2, <3>1, <3>2
      <3>4. f \in Chunk
        BY DEF ProtocolInv, RequestInv, TypeOK
      <3>5. f = [sid |-> req.id, id |-> 1, by |-> Notice]
        BY <1>3, <2>2, <3>2, <3>4 DEF Chunk
      <3>6. QED BY <1>3, <2>1, <3>3, <3>5
    <2>5. CASE s # NoRow
      <3>1. Known(req.id)
        BY <2>5 DEF Advances
      <3>2. f.id <= s.next
        BY <1>2, <1>3, <2>2, <3>1 DEF EmittedIssued
      <3>3. QED BY <1>3, <2>2, <2>3, <3>2
    <2>6. QED BY <2>4, <2>5
  <1>4. QED BY <1>1, <1>3 DEF Promise!Produce

\* Nothing to commit is nothing produced.
LEMMA NothingProduced ==
  ASSUME emitted' = emitted
  PROVE  Promise!Produce
  BY DEF Promise!Produce

\* The line a transaction runs is the first one without a fate.
LEMMA ServedRunsNext ==
  ASSUME ProtocolInv, NEW r, Served(r), ran' # ran
  PROVE  Promise!RunNext
  <1>1. taken \in Lines /\ taken \notin Ran \cup lost /\ ran' = Append(ran, taken)
    BY ServedRuns DEF Settled
  <1>2. taken <= typed /\ \A n \in 1..taken : n \in Ran \cup lost \/ n = taken
    BY DEF ProtocolInv, LineInv, LinesSettled, Settled
  <1>3. typed \in Nat /\ taken \in Nat /\ taken >= 1
    BY <1>1 DEF ProtocolInv, RequestInv, TypeOK, Lines
  <1>4. taken \in 1..typed /\ \A m \in 1..(taken - 1) : m \in Ran \cup lost
    BY <1>2, <1>3
  <1>5. QED BY <1>1, <1>4 DEF Promise!RunNext, Promise!Ran, Ran

\* Every transaction, whoever sends it and however late, is work the player
\* was promised.
LEMMA TransactionWorks ==
  ASSUME ProtocolInv, Serve \/ ServeStray \/ OtherTransaction
  PROVE  Promise!Work
  <1>1. UNCHANGED <<typed, lost, shown, phase>>
    BY DEF Serve, ServeStray, OtherTransaction, edgeVars, linkVars
  <1>2. CASE OtherTransaction
    <2>1. ran' = ran
      BY <1>2 DEF OtherTransaction
    <2>2. Promise!Produce
      BY <1>2, OtherAdvances, AdvanceProduces
    <2>3. QED BY <1>1, <2>1, <2>2 DEF Promise!Work
  <1>3. CASE Serve \/ ServeStray
    <2>1. PICK r : Served(r)
      <3>1. CASE Serve
        BY <3>1 DEF Serve, Served
      <3>2. CASE ServeStray
        BY <3>2 DEF ServeStray, Served, linkVars
      <3>3. QED BY <1>3, <3>1, <3>2
    <2>2. Promise!RunNext \/ UNCHANGED ran
      BY <2>1, ServedRunsNext
    <2>3. Promise!Produce
      BY <2>1, ServedAdvances, AdvanceProduces, NothingProduced
    <2>4. QED BY <1>1, <2>2, <2>3 DEF Promise!Work
  <1>4. QED BY <1>2, <1>3

\* The chunk written to the socket was emitted and follows the last one there.
LEMMA ShowChunkShows ==
  ASSUME ProtocolInv, ShowChunk
  PROVE  Promise!Show
  <1> DEFINE c(n) == [sid |-> req.id, id |-> n, by |-> reply.out[n]]
  <1>1. RequestInv /\ OutputInv /\ TypeOK
    BY DEF ProtocolInv, RequestInv
  <1>2. PICK n \in Unshown :
          /\ \A j \in Unshown : n <= j
          /\ shown' = Append(shown, c(n))
    BY DEF ShowChunk
  <1>3. phase = "show" /\ UNCHANGED <<typed, ran, lost, emitted, phase>>
    BY DEF ShowChunk
  <1>4. PICK D \in SUBSET (1..MaxOut) : reply.out \in [D -> Authors]
    BY <1>1 DEF TypeOK, Reply, Outbox
  <1>5. n \in DOMAIN reply.out /\ n \in Nat /\ n > req.ack /\ req.ack \in Nat
    BY <1>1, <1>4, Before DEF Unshown
  <1>6. c(n) \in emitted
    BY <1>1, <1>5 DEF OutputInv, OutboxEmitted, ChunksOf
  <1>7. /\ shown \in Seq(Chunk) /\ c(n) \in Chunk
        /\ c(n).id = n /\ c(n).by = reply.out[n]
    BY <1>1, <1>6 DEF TypeOK
  <1>8. CASE shown = <<>>
    <2>1. req.ack = 0
      BY <1>1, <1>8 DEF OutputInv, AckIsLastShown
    <2>2. reply.out[n] = Farewell \/ \A j \in 1..n : j \in DOMAIN reply.out
      BY <1>1, <2>1 DEF OutputInv, OutboxWhole
    <2>3. 1 \in DOMAIN reply.out => n <= 1
      BY <1>2, <2>1 DEF Unshown
    <2>4. c(n).id = 1 \/ c(n).by = Farewell
      BY <1>5, <1>7, <2>1, <2>2, <2>3
    <2> HIDE DEF c
    <2>5. QED BY <1>2, <1>3, <1>6, <1>8, <2>4 DEF Promise!Show
  <1>9. CASE shown # <<>>
    <2> HIDE DEF c
    <2>1. /\ Len(shown) \in Nat /\ Len(shown) >= 1 /\ Len(shown') = Len(shown) + 1
          /\ shown'[Len(shown)] = shown[Len(shown)] /\ shown'[Len(shown) + 1] = c(n)
      BY <1>2, <1>7, <1>9
    <2>2. ShownOnceNoGap'
      BY ShowChunkSteps DEF OutputInv
    <2>3. Len(shown) \in 1..(Len(shown') - 1)
      BY <2>1
    <2>4. Successive(shown'[Len(shown)], shown'[Len(shown) + 1])
      BY <2>2, <2>3 DEF ShownOnceNoGap
    <2>5. Promise!Follows(shown[Len(shown)], c(n))
      BY <2>1, <2>4 DEF Successive, Promise!Follows
    <2>6. QED BY <1>2, <1>3, <1>6, <1>9, <2>5 DEF Promise!Show
  <1>10. QED BY <1>8, <1>9

\* A reset gives up no line but the first one without a fate.
LEMMA ReceiveResetLoses ==
  ASSUME ProtocolInv, ReceiveReset
  PROVE  Promise!LoseLine \/ UNCHANGED Promise!vars
  <1>1. phase = "call" /\ UNCHANGED <<typed, ran, emitted, shown, phase>>
    BY DEF ReceiveReset
  <1>2. CASE req.kind # "input"
    <2>1. lost' = lost
      BY <1>2 DEF ReceiveReset
    <2>2. QED BY <1>1, <2>1 DEF Promise!vars
  <1>3. CASE req.kind = "input"
    <2>1. LineInv /\ LinesTaken /\ typed \in Nat /\ taken \in Nat
      BY DEF ProtocolInv, RequestInv, TypeOK
    <2>2. req.line = taken /\ taken >= 1
      BY <1>1, <1>3, <2>1 DEF LineInv, LastLineInAir, InAir, LinesTaken
    <2>3. lost' = lost \cup {taken}
      BY <1>3, <2>2 DEF ReceiveReset
    <2>4. taken <= typed /\ \A n \in 1..taken : n \in Ran \cup lost \/ n = taken
      BY <2>1 DEF LineInv, LinesSettled, Settled
    <2>5. taken \in 1..typed /\ \A m \in 1..(taken - 1) : m \in Ran \cup lost
      BY <2>1, <2>2, <2>4
    <2>6. QED BY <1>1, <2>3, <2>5 DEF Promise!LoseLine, Promise!Ran, Ran
  <1>4. QED BY <1>2, <1>3

\* Everything else the edge does, the hop and the clock is no concern of the
\* player's, except that the player goes.
LEMMA EdgeLeavesOrStutters ==
  ASSUME \/ Send \/ Receive \/ Settle \/ TakeLine \/ Poll \/ IdleClose \/ Hangup \/ Depart
         \/ NetworkNext \/ Elapse \/ UNCHANGED vars
  PROVE  Promise!Leave \/ UNCHANGED Promise!vars
  <1>1. UNCHANGED <<typed, ran, lost, emitted, shown>>
    BY DEF Send, Receive, Settle, TakeLine, Poll, IdleClose, Hangup, Depart, NetworkNext, Refuse,
       Abandon, LoseReply, DropStray, Elapse, edgeVars, histVars, vars
  <1>2. \/ (phase \in {"closing", "gone"})' = (phase \in {"closing", "gone"})
        \/ phase \notin {"closing", "gone"} /\ phase' = "closing"
    BY DEF Send, Receive, Settle, TakeLine, Poll, IdleClose, Hangup, Depart, NetworkNext, Refuse,
       Abandon, LoseReply, DropStray, Elapse, edgeVars, histVars, vars
  <1>3. QED BY <1>1, <1>2 DEF Promise!Leave, Promise!vars

\* Retries, strays, dying cores and resets included, what the player sees is
\* the reliable terminal of ReliableTerminal: lines run once and in the order
\* typed, none skipped, and every chunk follows the one before it.
THEOREM Refinement == Spec => ImplementsPromise
  <1>1. Init => Promise!Init
    BY DEF Init, Promise!Init
  <1>2. ProtocolInv /\ [Next]_vars => [Promise!Next]_(Promise!vars)
    <2>1. SUFFICES ASSUME ProtocolInv, [Next]_vars
                   PROVE  Promise!Next \/ UNCHANGED Promise!vars
      OBVIOUS
    <2>2. CASE TypeLine
      BY <2>2 DEF TypeLine, histVars, Promise!TypeLine, Promise!Next
    <2>3. CASE Serve \/ ServeStray \/ OtherTransaction
      BY <2>1, <2>3, TransactionWorks DEF Promise!Next
    <2>4. CASE ShowChunk
      BY <2>1, <2>4, ShowChunkShows DEF Promise!Next
    <2>5. CASE ReceiveReset
      BY <2>1, <2>5, ReceiveResetLoses DEF Promise!Next
    <2>6. CASE \/ Send \/ Receive \/ Settle \/ TakeLine \/ Poll \/ IdleClose \/ Hangup \/ Depart
               \/ NetworkNext \/ Elapse \/ UNCHANGED vars
      BY <2>6, EdgeLeavesOrStutters DEF Promise!Next
    <2>7. QED BY <2>1, <2>2, <2>3, <2>4, <2>5, <2>6 DEF Next, EdgeNext, CoreNext
  <1>3. QED BY <1>1, <1>2, InductiveInvariant, PTL DEF Spec, ImplementsPromise, Promise!Spec

=============================================================================

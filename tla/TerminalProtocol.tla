---------------------------- MODULE TerminalProtocol ----------------------------
(***************************************************************************)
(* One telnet socket, the edge goroutine that serves it, the unreliable    *)
(* HTTP hop to whichever core is current, and the durable session rows the *)
(* cores keep in PostgreSQL.  The edge retries a request under the same    *)
(* sequence number until it is answered; the core executes a sequence      *)
(* number at most once and keeps its output until the edge acknowledges    *)
(* it.  Every core transaction holds one advisory lock, so a transaction   *)
(* is one step, whichever core (blue or green) runs it.                    *)
(*                                                                         *)
(* Transactions other terminals cause are the action OtherTransaction: a   *)
(* broadcast, a revocation, or a purge is all they can do to this row.     *)
(***************************************************************************)
EXTENDS Naturals, Sequences, FiniteSets

CONSTANTS
  MaxLines,   \* bound: lines the player types
  QueueCap,   \* capacity of the edge's input channel (8 in the code)
  OutboxCap,  \* chunks that fit in the outbox (64 KiB in the code)
  MaxOut,     \* bound: output identifiers of one session
  MaxPolls,   \* bound: an idle poll is sent only up to this sequence number
  MaxIds      \* bound: session UUIDs one socket goes through

ASSUME BoundsAssumption ==
  /\ MaxLines \in Nat /\ QueueCap \in Nat /\ MaxOut \in Nat /\ MaxPolls \in Nat
  /\ OutboxCap \in Nat \ {0} /\ MaxIds \in Nat \ {0}

Lines == 1..MaxLines
Ids   == 1..MaxIds

Kinds == {"open", "input", "poll", "close"}

\* Who caused a chunk of output: a line, the core itself, or a revocation.
Notice   == 0
Farewell == MaxLines + 1
Authors  == 0..(MaxLines + 1)

Request == [id: Ids, seq: Nat, kind: Kinds, line: 0..MaxLines, ack: Nat]
Outbox  == UNION {[D -> Authors] : D \in SUBSET (1..MaxOut)}
Row     == [seq: Nat, next: 0..MaxOut, out: Outbox, closed: BOOLEAN]
Reply   == [seq: Nat, out: Outbox, closed: BOOLEAN, reset: BOOLEAN]
Chunk   == [sid: Ids, id: 1..MaxOut, by: Authors]

VARIABLES
  \* the edge
  phase,    \* where serve's loop stands
  req,      \* the request it is sending, or will send next
  typed,    \* lines ReadLine has returned; line n is the n-th
  taken,    \* lines the loop has received from the input channel
  \* the hop between edge and core
  link,     \* fate of the current attempt
  reply,    \* the answer on its way, when link is "answered"
  strays,   \* abandoned requests a core may still commit
  \* PostgreSQL
  rows,     \* terminal_sessions, by session; seq 0 when there is no row
  age,      \* how long ago last_seen was
  \* history
  ran,      \* lines handed to processInput, in commit order
  lost,     \* lines whose request a reset threw away
  purged,   \* sessions whose row was deleted after 24 hours
  emitted,  \* chunks some transaction committed
  shown     \* chunks written to the socket, in order

edgeVars == <<phase, req, typed, taken>>
linkVars == <<link, reply, strays>>
dbVars   == <<rows, age>>
histVars == <<ran, lost, purged, emitted, shown>>
vars     == <<phase, req, typed, taken, link, reply, strays, rows, age,
              ran, lost, purged, emitted, shown>>

NoOutput == [i \in {} |-> Notice]
NoRow    == [seq |-> 0, next |-> 0, out |-> NoOutput, closed |-> FALSE]
NoReply  == [seq |-> 0, out |-> NoOutput, closed |-> FALSE, reset |-> FALSE]

OpenRequest(sid) ==
  [id |-> sid, seq |-> 1, kind |-> "open", line |-> 0, ack |-> 0]

TypeOK ==
  /\ phase \in {"call", "show", "select", "closing", "gone"}
  /\ req \in Request
  /\ typed \in 0..MaxLines
  /\ taken \in 0..MaxLines
  /\ link \in {"idle", "sent", "answered", "failed"}
  /\ reply \in Reply
  /\ strays \subseteq Request
  /\ rows \in [Ids -> Row]
  /\ age \in [Ids -> {"live", "lapsed", "old"}]
  /\ ran \in Seq(Lines)
  /\ lost \subseteq Lines
  /\ purged \subseteq Ids
  /\ emitted \subseteq Chunk
  /\ shown \in Seq(Chunk)

Init ==
  /\ phase = "call"
  /\ req = OpenRequest(1)
  /\ typed = 0
  /\ taken = 0
  /\ link = "idle"
  /\ reply = NoReply
  /\ strays = {}
  /\ rows = [i \in Ids |-> NoRow]
  /\ age = [i \in Ids |-> "live"]
  /\ ran = <<>>
  /\ lost = {}
  /\ purged = {}
  /\ emitted = {}
  /\ shown = <<>>

-----------------------------------------------------------------------------
(* The core: one dispatch transaction.                                     *)

\* Credentials, a character and hence revocation, scenes and broadcasts take at
\* least one command after the opening.
MaySignIn(s) == s.seq > 1 /\ ~s.closed

\* What the row holds once the expired ones are deleted.
Loaded(sid) == IF age[sid] = "old" THEN NoRow ELSE rows[sid]

Known(sid) == Loaded(sid).seq > 0

\* The only request that creates a row.
Opens(r) == r.kind = "open" /\ r.seq = 1

Admitted(r) == Known(r.id) \/ Opens(r)

Max2(a, b) == IF a > b THEN a ELSE b

\* Fault: an opening reopens the row it finds.
ClosingReopens(s, r) ==
  IF r.kind = "close" THEN [s EXCEPT !.closed = TRUE, !.seq = Max2(s.seq, r.seq)]
  ELSE IF r.kind = "open" THEN [s EXCEPT !.closed = FALSE]
  ELSE s

\* A close request closes the row and may skip ahead in the sequence.
Closing(s, r) ==
  IF r.kind = "close" THEN [s EXCEPT !.closed = TRUE, !.seq = Max2(s.seq, r.seq)]
                      ELSE s

\* Fault: one chunk more than acknowledged is dropped.
TrimOneMore(s, ack) ==
  [s EXCEPT !.out = [i \in {j \in DOMAIN s.out : j > ack + 1} |-> s.out[i]]]

\* Acknowledged output leaves the outbox.
Trim(s, ack) ==
  [s EXCEPT !.out = [i \in {j \in DOMAIN s.out : j > ack} |-> s.out[i]]]

\* outputConn.Write: a full outbox closes the session and drops the chunk.
Write(s, by) ==
  IF Cardinality(DOMAIN s.out) >= OutboxCap
    THEN [s EXCEPT !.closed = TRUE]
    ELSE [s EXCEPT !.next = s.next + 1,
                   !.out  = [i \in DOMAIN s.out \cup {s.next + 1} |->
                               IF i = s.next + 1 THEN by ELSE s.out[i]]]

WriteIf(s, b, by) == IF b THEN Write(s, by) ELSE s

\* checkSession failed, after a farewell of its own that is dropped with the
\* undelivered output: one farewell replaces it all.
Revoke(s) ==
  Write([Write(s, Farewell) EXCEPT !.out = NoOutput, !.closed = TRUE], Farewell)

\* The errors dispatch returns before it changes anything.
SequenceGap(s, r) == r.seq > s.seq + 1
AckAhead(s, r)    == r.ack > s.next
Rejects(r) ==
  LET s == Closing(Loaded(r.id), r)
  IN  Admitted(r) /\ (SequenceGap(s, r) \/ AckAhead(s, r))

\* Faults: a repeated number counts as fresh; a closed session still executes.
FreshAgain(s, r)  == r.seq \in {s.seq, s.seq + 1} /\ ~s.closed
FreshClosed(s, r) == r.seq = s.seq + 1

Fresh(s, r) == r.seq = s.seq + 1 /\ ~s.closed

\* How a command can end: errQuit, another error (rolled back to the savepoint,
\* the error text kept), or success with or without output.
Command(s, r, outcome, speaks) ==
  LET spoken == IF outcome = "failed" THEN Write(s, Notice) ELSE WriteIf(s, speaks, r.line)
  IN  [spoken EXCEPT !.seq = r.seq, !.closed = spoken.closed \/ outcome = "quit"]

\* Fault: a closed session keeps its sequence number.
SwallowNothing(s, r) == s

\* A closed session swallows the next sequence number without executing it.
Swallow(s, r) ==
  IF s.closed /\ r.seq = s.seq + 1 THEN [s EXCEPT !.seq = r.seq] ELSE s

ChunksOf(sid, s) == {[sid |-> sid, id |-> i, by |-> s.out[i]] : i \in DOMAIN s.out}

\* Commit row s of session sid, seen now or not; expired rows are deleted.
Commit(sid, s, seen) ==
  /\ rows' = [i \in Ids |-> IF i = sid THEN s ELSE Loaded(i)]
  /\ age' = [i \in Ids |-> IF age[i] = "old" \/ (i = sid /\ seen) THEN "live" ELSE age[i]]
  /\ purged' = purged \cup {i \in Ids : age[i] = "old"}
  /\ emitted' = emitted \cup ChunksOf(sid, s)

Outcomes(r) == IF r.kind = "open" THEN {"done"} ELSE {"done", "quit", "failed"}

\* dispatch, up to the commit, for a row that exists or that "open" creates.
\* The notice of a lost character precedes the decision to execute; the notice
\* of a changed scene follows it, so that an overflow does not stop the line.
Execute(r) ==
  \E revoked, speaks \in BOOLEAN, notice \in {"none", "demoted", "scene"},
     outcome \in Outcomes(r) :
    LET s1 == Trim(Closing(Loaded(r.id), r), r.ack)
        s2 == IF revoked THEN Revoke(s1) ELSE WriteIf(s1, notice = "demoted", Notice)
        s3 == IF Fresh(s2, r)
                THEN Command(WriteIf(s2, notice = "scene", Notice), r, outcome, speaks)
                ELSE s2
        s4 == Swallow(s3, r)
    IN  /\ Admitted(r)
        /\ ~Rejects(r)
        /\ revoked \/ notice # "none" => MaySignIn(s1)
        /\ notice = "scene" => r.kind = "input"
        /\ r.kind = "open" => speaks
        /\ s4.next <= MaxOut
        /\ Commit(r.id, s4, TRUE)
        /\ ran' = IF Fresh(s2, r) /\ r.kind = "input" THEN Append(ran, r.line) ELSE ran

\* No row and not an opening: answered without a commit.
Unknown(r) ==
  /\ ~Admitted(r)
  /\ UNCHANGED <<rows, age, purged, emitted, ran>>

Transaction(r) == Execute(r) \/ Unknown(r)

\* What the requester is told; s is its row after the transaction.
Answer(r, s) ==
  IF Admitted(r)
    THEN [seq |-> s.seq, out |-> s.out, closed |-> s.closed, reset |-> FALSE]
    ELSE [seq |-> r.seq, out |-> NoOutput, closed |-> r.kind = "close",
          reset |-> r.kind # "close"]

-----------------------------------------------------------------------------
(* The edge and the hop.                                                   *)

\* The reader goroutine: one line waits in its hands when the channel is full.
TypeLine ==
  /\ phase \notin {"closing", "gone"}
  /\ typed < MaxLines
  /\ typed - taken <= QueueCap
  /\ typed' = typed + 1
  /\ UNCHANGED <<phase, req, taken, linkVars, dbVars, histVars>>

\* Fault: a failed attempt is not repeated.
SendOnce ==
  /\ phase \in {"call", "closing"} /\ link = "idle"
  /\ link' = "sent"
  /\ UNCHANGED <<edgeVars, reply, strays, dbVars, histVars>>

\* call: a first attempt, or the same request again a second after a failure.
\* The close that serve's deferred function sends is attempted once.
Send ==
  /\ \/ phase = "call" /\ link \in {"idle", "failed"}
     \/ phase = "closing" /\ link = "idle"
  /\ link' = "sent"
  /\ UNCHANGED <<edgeVars, reply, strays, dbVars, histVars>>

\* The current attempt reaches a core, which commits and answers.
Serve ==
  /\ link = "sent"
  /\ Transaction(req)
  /\ reply' = Answer(req, rows'[req.id])
  /\ link' = "answered"
  /\ UNCHANGED <<edgeVars, strays, lost, shown>>

\* Fault: after a failure the edge goes on to the next line.
RefuseMovesOn ==
  /\ link = "sent"
  /\ IF phase = "call" THEN phase' = "select" /\ link' = "idle"
                       ELSE link' = "failed" /\ UNCHANGED phase
  /\ UNCHANGED <<req, typed, taken, reply, strays, dbVars, histVars>>

\* The attempt fails and nothing was committed: no core listening, Redis or
\* PostgreSQL down, a crash or an error before the commit.
Refuse ==
  /\ link = "sent"
  /\ link' = "failed"
  /\ UNCHANGED <<edgeVars, reply, strays, dbVars, histVars>>

\* The edge gives up on an attempt a core may still be working on.
Abandon ==
  /\ link = "sent"
  /\ strays' = strays \cup {req}
  /\ link' = "failed"
  /\ UNCHANGED <<edgeVars, reply, dbVars, histVars>>

\* The core committed and died, or the answer was lost on the way, or call
\* turned it down (another version, another sequence number).
LoseReply ==
  /\ link = "answered"
  /\ phase \in {"call", "closing"}
  /\ link' = "failed"
  /\ reply' = NoReply
  /\ UNCHANGED <<edgeVars, strays, dbVars, histVars>>

\* A core commits an abandoned request; nobody reads the answer.  It stays
\* in strays: the same request may have been abandoned more than once.
ServeStray ==
  /\ \E r \in strays : Transaction(r)
  /\ UNCHANGED <<edgeVars, linkVars, lost, shown>>

DropStray ==
  /\ \E r \in strays : strays' = strays \ {r}
  /\ UNCHANGED <<edgeVars, link, reply, dbVars, histVars>>

\* Fault: the session starts over under the UUID the core has forgotten.
ReceiveResetSameId ==
  /\ phase = "call" /\ link = "answered"
  /\ reply.seq = req.seq /\ reply.reset
  /\ req.id < MaxIds
  /\ req' = OpenRequest(req.id)
  /\ lost' = IF req.kind = "input" THEN lost \cup {req.line} ELSE lost
  /\ link' = "idle"
  /\ reply' = NoReply
  /\ UNCHANGED <<phase, typed, taken, strays, dbVars, ran, purged, emitted, shown>>

\* Fault: the new session inherits the old one's acknowledgement.
ReceiveResetKeepsAck ==
  /\ phase = "call" /\ link = "answered"
  /\ reply.seq = req.seq /\ reply.reset
  /\ req.id < MaxIds
  /\ req' = [OpenRequest(req.id + 1) EXCEPT !.ack = req.ack]
  /\ lost' = IF req.kind = "input" THEN lost \cup {req.line} ELSE lost
  /\ link' = "idle"
  /\ reply' = NoReply
  /\ UNCHANGED <<phase, typed, taken, strays, dbVars, ran, purged, emitted, shown>>

\* The session is gone: start over under a new UUID.  The line in flight is
\* dropped, the ones in the channel are kept for the new session.
ReceiveReset ==
  /\ phase = "call" /\ link = "answered"
  /\ reply.seq = req.seq /\ reply.reset
  /\ req.id < MaxIds
  /\ req' = OpenRequest(req.id + 1)
  /\ lost' = IF req.kind = "input" THEN lost \cup {req.line} ELSE lost
  /\ link' = "idle"
  /\ reply' = NoReply
  /\ UNCHANGED <<phase, typed, taken, strays, dbVars, ran, purged, emitted, shown>>

Receive ==
  /\ phase = "call" /\ link = "answered"
  /\ reply.seq = req.seq /\ ~reply.reset
  /\ phase' = "show"
  /\ UNCHANGED <<req, typed, taken, linkVars, dbVars, histVars>>

Unshown == {i \in DOMAIN reply.out : i > req.ack}

\* Write the next chunk the socket has not had, then remember its identifier.
ShowChunk ==
  /\ phase = "show"
  /\ \E i \in Unshown :
       /\ \A j \in Unshown : i <= j
       /\ shown' = Append(shown, [sid |-> req.id, id |-> i, by |-> reply.out[i]])
       /\ req' = [req EXCEPT !.ack = i]
  /\ UNCHANGED <<phase, typed, taken, linkVars, dbVars, ran, lost, purged, emitted>>

CloseRequest(r) == [r EXCEPT !.kind = "close", !.line = 0]

\* All written: leave if the session closed, otherwise take the next number.
Settle ==
  /\ phase = "show"
  /\ Unshown = {}
  /\ IF reply.closed
       THEN phase' = "closing" /\ req' = CloseRequest(req)
       ELSE phase' = "select" /\ req' = [req EXCEPT !.seq = req.seq + 1]
  /\ link' = "idle"
  /\ reply' = NoReply
  /\ UNCHANGED <<typed, taken, strays, dbVars, histVars>>

TakeLine ==
  /\ phase = "select"
  /\ taken < typed
  /\ taken' = taken + 1
  /\ req' = [req EXCEPT !.kind = "input", !.line = taken + 1]
  /\ phase' = "call"
  /\ UNCHANGED <<typed, linkVars, dbVars, histVars>>

\* Fault: a player who has just typed is not polled for.
PollUnlessTyping ==
  /\ phase = "select" /\ req.kind # "input"
  /\ req.seq <= MaxPolls
  /\ req' = [req EXCEPT !.kind = "poll", !.line = 0]
  /\ phase' = "call"
  /\ UNCHANGED <<typed, taken, linkVars, dbVars, histVars>>

Poll ==
  /\ phase = "select"
  /\ req.seq <= MaxPolls
  /\ req' = [req EXCEPT !.kind = "poll", !.line = 0]
  /\ phase' = "call"
  /\ UNCHANGED <<typed, taken, linkVars, dbVars, histVars>>

\* The idle timeout: an ordinary request of kind close.
IdleClose ==
  /\ phase = "select"
  /\ req' = CloseRequest(req)
  /\ phase' = "call"
  /\ UNCHANGED <<typed, taken, linkVars, dbVars, histVars>>

\* End of file, a failed write or an edge shutdown, at any moment.
Hangup ==
  /\ phase \in {"call", "show", "select"}
  /\ strays' = IF link = "sent" THEN strays \cup {req} ELSE strays
  /\ phase' = "closing"
  /\ req' = CloseRequest(req)
  /\ link' = "idle"
  /\ reply' = NoReply
  /\ UNCHANGED <<typed, taken, dbVars, histVars>>

\* Fault: the goroutine waits for its close to be answered.
DepartAnswered ==
  /\ phase = "closing" /\ link = "answered"
  /\ phase' = "gone"
  /\ link' = "idle"
  /\ reply' = NoReply
  /\ UNCHANGED <<req, typed, taken, strays, dbVars, histVars>>

\* The deferred close is best effort: answered or not, the goroutine ends.
Depart ==
  /\ phase = "closing" /\ link \in {"answered", "failed"}
  /\ phase' = "gone"
  /\ link' = "idle"
  /\ reply' = NoReply
  /\ UNCHANGED <<req, typed, taken, strays, dbVars, histVars>>

-----------------------------------------------------------------------------
(* The rest of the realm.                                                  *)

\* A transaction of some other terminal.  It deletes expired rows, and may
\* write to a session it loaded (open and seen in the last two minutes) or
\* find that session's credentials revoked.
OtherTransaction ==
  \E sid \in Ids, revoked \in BOOLEAN :
    LET s == rows[sid]
        t == IF revoked THEN Revoke(s) ELSE Write(s, Notice)
    IN  /\ age[sid] = "live" /\ MaySignIn(s)
        /\ t.next <= MaxOut
        /\ Commit(sid, t, FALSE)
        /\ UNCHANGED <<edgeVars, linkVars, ran, lost, shown>>

\* Two minutes, then twenty-four hours, without a request from the session.
\* No abandoned request survives a day: a core gives each ten seconds.  The
\* last UUID of the bound never gets old, so a reset can always be followed.
Elapse ==
  /\ \E sid \in Ids :
       /\ rows[sid].seq > 0
       /\ \/ age[sid] = "live" /\ age' = [age EXCEPT ![sid] = "lapsed"]
          \/ /\ age[sid] = "lapsed"
             /\ sid < MaxIds /\ \A r \in strays : r.id # sid
             /\ age' = [age EXCEPT ![sid] = "old"]
  /\ UNCHANGED <<edgeVars, linkVars, rows, histVars>>

EdgeNext ==
  \/ TypeLine \/ Send \/ ReceiveReset \/ Receive \/ ShowChunk
  \/ Settle \/ TakeLine \/ Poll \/ IdleClose \/ Hangup \/ Depart

NetworkNext == Refuse \/ Abandon \/ LoseReply \/ DropStray

CoreNext == Serve \/ ServeStray \/ OtherTransaction \/ Elapse

Next == EdgeNext \/ NetworkNext \/ CoreNext

Spec == Init /\ [][Next]_vars

-----------------------------------------------------------------------------
(* Properties.                                                             *)

\* The line the current request carries, if it has not been answered yet.
InFlight == IF phase # "select" /\ req.kind = "input" THEN {req.line} ELSE {}

Ran == {ran[i] : i \in DOMAIN ran}

\* A typed line is executed at most once and never after a later one, however
\* often its request is retried, abandoned or answered in vain.
RanOnceInOrder == \A i, j \in DOMAIN ran : i < j => ran[i] < ran[j]

\* Every line taken from the channel was executed, unless its own request is
\* still unanswered, a reset dropped it, or the session ended.
AnsweredMeansRan ==
  phase \in {"call", "show", "select"} /\ ~reply.closed /\ ~rows[req.id].closed =>
    \A n \in 1..taken : n \in Ran \cup lost \cup InFlight

\* The edge never sends what dispatch turns down with an error (sequence gap,
\* acknowledgement ahead): it would retry that request for ever.
NeverWedged == phase = "call" => ~Rejects(req)

\* The answer to the current attempt always bears its sequence number.
AnswerMatches == link = "answered" => reply.seq = req.seq

Successive(a, b) ==
  \/ a.sid = b.sid /\ (b.id = a.id + 1 \/ (b.id > a.id /\ b.by = Farewell))
  \/ a.sid < b.sid /\ (b.id = 1 \/ b.by = Farewell)

\* The socket gets every chunk once, in identifier order and without a gap,
\* except that a revocation's farewell may stand for what it replaced.
ShownOnceNoGap ==
  \A i \in 1..(Len(shown) - 1) : Successive(shown[i], shown[i + 1])

Revoked(sid) == \E e \in emitted : e.sid = sid /\ e.by = Farewell

\* Committed output the socket has not had is still in the outbox: an answer
\* that was lost can be asked for again.
OutputKept ==
  \A e \in emitted :
    e.sid = req.id /\ e.id > req.ack /\ e.sid \notin purged /\ ~Revoked(e.sid)
      => e.id \in DOMAIN rows[e.sid].out /\ rows[e.sid].out[e.id] = e.by

\* What makes RanOnceInOrder, NeverWedged and AnswerMatches inductive.

\* Requests a core may still be asked to run for the first time.
InAir == strays \cup (IF phase = "select" THEN {} ELSE {req})

\* Lines in the air or executed have been taken from the channel.
LinesTaken ==
  /\ \A r \in strays \cup {req} : r.kind = "input" => 1 <= r.line /\ r.line <= taken
  /\ \A i \in DOMAIN ran : ran[i] <= taken

\* Later UUIDs are unused; earlier ones are gone and cannot come back.
OtherIdsGone ==
  /\ \A i \in Ids : i > req.id => rows[i].seq = 0
  /\ \A i \in Ids : i < req.id => ~Known(i)
  /\ \A r \in strays : r.id <= req.id /\ (r.id < req.id => ~Opens(r))

\* The row is at the request's number or one behind, strays are not ahead.
SequenceClose ==
  /\ Known(req.id) => Loaded(req.id).seq <= req.seq /\ req.seq <= Loaded(req.id).seq + 1
  /\ \A r \in strays : r.id = req.id => r.seq <= req.seq
  /\ phase = "select" => \A r \in strays : r.id = req.id => r.seq < req.seq

\* Number 1 belongs to the opening, or to a hang-up before it was answered.
FirstOpens ==
  /\ req.seq >= 1 /\ \A r \in strays : r.seq >= 1
  /\ \A r \in InAir : r.seq = 1 => r.kind \in {"open", "close"}
  /\ phase = "call" /\ req.seq = 1 => req.kind = "open" /\ req.ack = 0
  /\ phase = "select" => req.seq > 1

\* A vanished row can be opened again only while the opening is unanswered.
ReopenedOnlyFirst ==
  (\E r \in strays : r.id = req.id /\ Opens(r)) /\ ~Known(req.id) =>
    req.seq = 1 /\ (phase \in {"closing", "gone"} \/ (phase = "call" /\ link # "answered"))

\* What an answer proves about the row, as long as there is one.
AnswerCurrent ==
  /\ phase = "select" => link = "idle"
  /\ phase = "show" => link = "answered" /\ ~reply.reset
  /\ link = "answered" => reply.seq = req.seq
  /\ link = "answered" /\ phase \in {"call", "show"} =>
       /\ reply.reset => ~Known(req.id) /\ ~Opens(req)
       /\ ~reply.reset /\ Known(req.id) =>
            /\ Loaded(req.id).seq >= req.seq
            /\ DOMAIN reply.out \subseteq 1..Loaded(req.id).next

\* The edge acknowledges only what the row has issued.
AckKnown ==
  phase \in {"call", "show", "select"} /\ Known(req.id) => req.ack <= Loaded(req.id).next

OutboxIssued == \A i \in Ids : DOMAIN rows[i].out \subseteq 1..rows[i].next

\* A line that may still execute is later than every line that has.
NextLineIsLater ==
  \A r \in InAir :
    /\ r.kind = "input" /\ r.id = req.id /\ r.seq = req.seq
    /\ Known(req.id) /\ Loaded(req.id).seq < req.seq
    => \A i \in DOMAIN ran : ran[i] < r.line

\* What edge, hop and rows know of each other's requests.
RequestInv ==
  /\ TypeOK /\ LinesTaken /\ OtherIdsGone /\ SequenceClose /\ FirstOpens
  /\ ReopenedOnlyFirst /\ AnswerCurrent /\ AckKnown /\ OutboxIssued
  /\ NextLineIsLater /\ RanOnceInOrder

\* What makes AnsweredMeansRan inductive, and lines run in the order typed.

Settled == Ran \cup lost

\* Only the line taken last may still be without a fate, and only while its own
\* request is unanswered or once the session ended.
LinesSettled ==
  /\ taken <= typed /\ lost \subseteq 1..taken
  /\ \A n \in 1..taken :
       \/ n \in Settled
       \/ n = taken /\ phase \in {"closing", "gone"}
       \/ n = taken /\ phase \in {"call", "show"} /\ req.kind = "input"

\* A request that may still run a line carries the line taken last, and what
\* was abandoned under the number being sent is the request being sent.
LastLineInAir ==
  /\ \A r \in InAir :
       r.kind = "input" /\ r.id = req.id /\ r.seq = req.seq => r.line = taken /\ taken \notin lost
  /\ phase \in {"call", "show"} =>
       \A r \in strays : r.id = req.id /\ r.seq = req.seq => r.kind = req.kind

\* The row reaches the number of a line by running it, or else it is closed;
\* what the edge was told says the same.
ReachedMeansRan ==
  /\ phase = "select" /\ Known(req.id) => Loaded(req.id).seq < req.seq
  /\ phase \in {"call", "show"} /\ req.kind = "input" =>
       /\ Known(req.id) /\ Loaded(req.id).seq = req.seq /\ ~Loaded(req.id).closed => taken \in Ran
       /\ link = "answered" /\ ~reply.reset /\ ~reply.closed => taken \in Ran

LineInv == LinesSettled /\ LastLineInAir /\ ReachedMeansRan

\* What makes ShownOnceNoGap and OutputKept inductive.

\* Identifiers of the session in use come from its row.  A row can be lost and
\* made again only under number 1, and then it has issued the same greeting.
EmittedIssued ==
  /\ \A e \in emitted : e.sid <= req.id
  /\ Known(req.id) => \A e \in emitted : e.sid = req.id => e.id <= Loaded(req.id).next
  /\ req.seq = 1 => \A e \in emitted : e.sid = req.id => e.id = 1 /\ e.by = Notice
  /\ \A r \in strays \cup {req} : Opens(r) => r.line = Notice

\* Nothing is in an outbox or in an answer that was not committed, and a row
\* that is not there holds nothing.
OutboxEmitted ==
  /\ \A i \in Ids : rows[i].seq = 0 => rows[i] = NoRow
  /\ \A i \in Ids : ChunksOf(i, rows[i]) \subseteq emitted
  /\ ChunksOf(req.id, reply) \subseteq emitted

\* No retry acknowledges more than the edge does now.
AckBehind == \A r \in strays : r.id = req.id => r.ack <= req.ack

\* What the socket has not had is in the outbox without a gap, unless the
\* farewell replaced it; then the row is closed for good.
OutboxWhole ==
  /\ Known(req.id) =>
       LET s == Loaded(req.id)
       IN  \/ \A j \in (req.ack + 1)..s.next : j \in DOMAIN s.out
           \/ s.closed /\ \A j \in DOMAIN s.out : j > req.ack => s.out[j] = Farewell
  /\ \A i \in Unshown :
       \/ reply.out[i] = Farewell
       \/ \A j \in (req.ack + 1)..i : j \in DOMAIN reply.out

\* The acknowledgement is the identifier shown last, if it is of this session.
AckIsLastShown ==
  IF shown = <<>> THEN req.ack = 0
  ELSE LET last == shown[Len(shown)]
       IN  /\ last.sid <= req.id
           /\ req.ack = IF last.sid = req.id THEN last.id ELSE 0

OutputInv ==
  /\ EmittedIssued /\ OutboxEmitted /\ AckBehind /\ OutboxWhole /\ AckIsLastShown
  /\ OutputKept /\ ShownOnceNoGap

\* What edge, hop and rows know of each other, in every state: retries and
\* strays can neither overtake nor repeat what the row has seen, every line
\* but the last has its fate, and output waits whole until it is shown.
ProtocolInv == RequestInv /\ LineInv /\ OutputInv

\* Once the hang-up is committed no request left in the air runs a line.
HangupIsFinal ==
  [][(phase \in {"closing", "gone"} /\ rows[req.id].closed) => ran' = ran]_vars

\* A closed session stays closed for as long as its row exists.
ClosedIsFinal ==
  [][\A sid \in Ids : rows[sid].closed /\ age[sid] # "old" => rows'[sid].closed]_vars

\* The promise to the player, see ReliableTerminal.
Promise == INSTANCE ReliableTerminal WITH done <- phase \in {"closing", "gone"}

\* Retries, lost answers, dying cores and 24-hour resets included, edge, hop
\* and rows together are a terminal that runs each line once, in order.
ImplementsPromise == Promise!Spec

-----------------------------------------------------------------------------
(* Liveness.                                                               *)

\* The goroutine and the retry timer run; a core is sooner or later reachable
\* for long enough to commit and to have its answer delivered; select does not
\* prefer its timer to a waiting line for ever.
Fairness ==
  /\ WF_vars(Send) /\ WF_vars(ShowChunk) /\ WF_vars(Settle) /\ WF_vars(Depart)
  /\ WF_vars(Poll)
  /\ SF_vars(Serve) /\ SF_vars(Receive) /\ SF_vars(ReceiveReset)
  /\ SF_vars(TakeLine)

FairSpec == Spec /\ Fairness

Ended == phase \in {"closing", "gone"}

\* Every line typed is executed, or dropped by a reset, or the session ends:
\* no interleaving of retries and lost answers stalls the queue.
EveryLineHandled ==
  \A n \in Lines : (typed >= n) ~> (n \in Ran \cup lost \/ Ended)

\* Output committed for the session in use reaches the socket or is replaced,
\* as long as the bound leaves the edge one more poll to fetch it with.
PollLeft == IF phase = "select" THEN req.seq <= MaxPolls ELSE req.seq < MaxPolls

OutputDelivered ==
  \A i \in 1..MaxOut :
    (i \in DOMAIN rows[req.id].out /\ i > req.ack /\ PollLeft)
      ~> (i <= req.ack \/ i \notin DOMAIN rows[req.id].out \/ Ended)

\* The goroutine of a socket that hung up ends, core or no core.
HangupCompletes == (phase = "closing") ~> (phase = "gone")

=============================================================================

---------------------------- MODULE ReliableTerminal ----------------------------
(***************************************************************************)
(* What a player is promised, with no requests, retries, rows or cores:    *)
(* the lines typed run once and in order, and the output they and others   *)
(* cause reaches the socket once and in order.  A reset may lose a line; a *)
(* revocation may replace output that was not shown yet by one farewell.   *)
(* TerminalProtocol implements this.                                       *)
(***************************************************************************)
EXTENDS Naturals, Sequences

CONSTANTS
  MaxLines,  \* bound: lines the player types
  Farewell   \* the author of the output that ends a revoked session

VARIABLES
  typed,    \* lines typed so far: 1..typed
  ran,      \* lines executed, in order
  lost,     \* lines that never will be, or need not have been
  emitted,  \* chunks of output, each [sid, id, by]
  shown,    \* chunks the socket received, in order
  done      \* the player is gone

vars == <<typed, ran, lost, emitted, shown, done>>

Ran == {ran[i] : i \in DOMAIN ran}

Init ==
  /\ typed = 0 /\ ran = <<>> /\ lost = {}
  /\ emitted = {} /\ shown = <<>>
  /\ done = FALSE

TypeLine ==
  /\ ~done
  /\ typed < MaxLines
  /\ typed' = typed + 1
  /\ UNCHANGED <<ran, lost, emitted, shown, done>>

\* The next line is the first one neither executed nor lost.
RunNext ==
  \E n \in 1..typed :
    /\ n \notin Ran \cup lost
    /\ \A m \in 1..(n - 1) : m \in Ran \cup lost
    /\ ran' = Append(ran, n)

\* New output never takes the identifier of an earlier chunk.
Produce ==
  /\ emitted \subseteq emitted'
  /\ \A e \in emitted' \ emitted, f \in emitted : <<e.sid, e.id>> # <<f.sid, f.id>>

\* The realm does something: a line, or background activity.
Work ==
  /\ RunNext \/ UNCHANGED ran
  /\ Produce
  /\ UNCHANGED <<typed, lost, shown, done>>

Follows(a, b) ==
  \/ a.sid = b.sid /\ (b.id = a.id + 1 \/ (b.id > a.id /\ b.by = Farewell))
  \/ a.sid < b.sid /\ (b.id = 1 \/ b.by = Farewell)

\* Show the chunk that follows the last one shown.
Show ==
  /\ ~done
  /\ \E e \in emitted :
       /\ IF shown = <<>> THEN e.id = 1 \/ e.by = Farewell
                          ELSE Follows(shown[Len(shown)], e)
       /\ shown' = Append(shown, e)
  /\ UNCHANGED <<typed, ran, lost, emitted, done>>

\* Nothing is skipped: a line is given up only once all before it are settled.
LoseLine ==
  /\ ~done
  /\ \E n \in 1..typed : /\ \A m \in 1..(n - 1) : m \in Ran \cup lost
                        /\ lost' = lost \cup {n}
  /\ UNCHANGED <<typed, ran, emitted, shown, done>>

Leave ==
  /\ ~done
  /\ done' = TRUE
  /\ UNCHANGED <<typed, ran, lost, emitted, shown>>

Next == TypeLine \/ Work \/ Show \/ LoseLine \/ Leave

Spec == Init /\ [][Next]_vars

=============================================================================

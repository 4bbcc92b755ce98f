----------------------------- MODULE ScriptWorkflow -----------------------------
(***************************************************************************)
(* How a script comes to run: builders write drafts, admins publish a      *)
(* revision and attach it to a room, and the hook of the room runs the     *)
(* published source for a character, paying its prize once.  Operators     *)
(* change permissions at any time; an editor stays open across commands.   *)
(*                                                                         *)
(* A script command is one transaction that locks the script's row.  A run *)
(* evaluates the source inside a transaction of its own, so it is two      *)
(* steps, with the rows it holds locked in between.  A source is a member  *)
(* of a small set; what matters of it is whether it validates and whether  *)
(* it pays a prize guarded by the state it keeps.                          *)
(***************************************************************************)
EXTENDS Naturals

CONSTANTS
  Users, Scripts, Sources, Targets, Connections,
  PlayerOf,     \* the character each connection plays
  Template,     \* the source of a new script
  Broken,       \* sources that do not validate
  Paying,       \* sources that pay a prize and note it in their state
  Bundled,      \* the release's scripts: the source and target of each key
  MaxRevision,  \* bound: revisions of one script
  NoUser, NoScript, NoSource, Closed

Players == {PlayerOf[n] : n \in Connections}

ASSUME ScriptAssumption ==
  /\ Template \in Sources \ Broken /\ Broken \subseteq Sources /\ Paying \subseteq Sources
  /\ \A b \in DOMAIN Bundled : Bundled[b] \in [source : Sources \ Broken, target : Targets]
  /\ DOMAIN Bundled \cap Users = {}
  /\ MaxRevision \in Nat \ {0}
  /\ NoUser \notin Users /\ NoScript \notin Scripts /\ NoSource \notin Sources

VARIABLES
  rights,    \* the permissions of each active account
  script,    \* rows of scripts; the author of a bundled one is its key, approval is
             \* approved_by and the revision that was asked for
  audit,     \* rows of script_audit that carry content
  editor,    \* the editor of each user's terminal, and the draft it began from
  attached,  \* script_id of rooms
  state,     \* script_state: has this character had the prize?
  paid,      \* how often the character was paid
  run        \* the hook each connection is running

vars == <<rights, script, audit, editor, attached, state, paid, run>>

Rights    == {"builder", "admin"}
Revisions == 1..MaxRevision
Version   == [script : Scripts, revision : Revisions, source : Sources]
Authors   == Users \cup DOMAIN Bundled
Row == [author : Authors, source : Sources, revision : Revisions,
        active : BOOLEAN, published : Sources \cup {NoSource},
        approval : [by : Users \cup {NoUser}, revision : Revisions]]
Editor  == [script : Scripts, revision : Revisions, source : Sources]
Run     == [script : Scripts, target : Targets, source : Sources, had : BOOLEAN]
Entries == [Scripts -> [Targets -> [Players -> BOOLEAN]]]

ASSUME ScriptNulls == NoScript \notin Row /\ Closed \notin Editor /\ Closed \notin Run

TypeOK ==
  /\ rights \in [Users -> SUBSET Rights]
  /\ script \in [Scripts -> Row \cup {NoScript}]
  /\ audit \subseteq Version
  /\ editor \in [Users -> Editor \cup {Closed}]
  /\ attached \in [Targets -> Scripts \cup {NoScript}]
  /\ state \in Entries
  /\ paid \in [Scripts -> [Targets -> [Players -> Nat]]]
  /\ run \in [Connections -> Run \cup {Closed}]

Init ==
  /\ rights = [u \in Users |-> {}]
  /\ script = [k \in Scripts |-> NoScript]
  /\ audit = {}
  /\ editor = [u \in Users |-> Closed]
  /\ attached = [t \in Targets |-> NoScript]
  /\ state = [k \in Scripts |-> [t \in Targets |-> [c \in Players |-> FALSE]]]
  /\ paid = [k \in Scripts |-> [t \in Targets |-> [c \in Players |-> 0]]]
  /\ run = [n \in Connections |-> Closed]

-----------------------------------------------------------------------------
(* What ScriptCommand checks first.                                        *)

Admin(u) == "admin" \in rights[u]

\* The script exists and u may see it; no run holds its row.
Access(u, k) ==
  /\ script[k] # NoScript
  /\ Admin(u) \/ ("builder" \in rights[u] /\ script[k].author = u)

Running(n, k)  == run[n] # Closed /\ run[n].script = k
RowFree(k)     == \A n \in Connections : ~Running(n, k)
TargetFree(t)  == \A n \in Connections : run[n] # Closed => run[n].target # t

\* Fault: the history keeps no source.
RecordedWithout(k, revision, source) == audit' = audit

Recorded(k, revision, source) ==
  audit' = audit \cup {[script |-> k, revision |-> revision, source |-> source]}

-----------------------------------------------------------------------------
(* Script commands.                                                        *)

\* new: fewer than a hundred scripts of the author exist.
New(u, k) ==
  /\ rights[u] # {} /\ script[k] = NoScript
  /\ script' = [script EXCEPT ![k] =
       [author |-> u, source |-> Template, revision |-> 1, active |-> FALSE,
        published |-> NoSource, approval |-> [by |-> NoUser, revision |-> 1]]]
  /\ Recorded(k, 1, Template)
  /\ UNCHANGED <<rights, editor, attached, state, paid, run>>

\* edit: show, and an editor on the numbered draft it returns.
Edit(u, k) ==
  /\ Access(u, k) /\ RowFree(k) /\ editor[u] = Closed
  /\ editor' = [editor EXCEPT ![u] =
                  [script |-> k, revision |-> script[k].revision,
                   source |-> script[k].source]]
  /\ UNCHANGED <<rights, script, audit, attached, state, paid, run>>

\* The draft of k becomes source, under the next revision.
Revised(k, source) ==
  /\ script[k].revision < MaxRevision
  /\ script' = [script EXCEPT ![k].source = source, ![k].revision = @ + 1]
  /\ Recorded(k, script[k].revision + 1, source)

Editing(u) == editor[u] # Closed

\* Every line typed into an open editor asks for access again; losing it
\* closes the editor.
Evicted(u) ==
  /\ Editing(u) /\ ~Access(u, editor[u].script)
  /\ editor' = [editor EXCEPT ![u] = Closed]
  /\ UNCHANGED <<rights, script, audit, attached, state, paid, run>>

Type(u, source) ==
  /\ Editing(u) /\ Access(u, editor[u].script) /\ RowFree(editor[u].script)
  /\ editor' = [editor EXCEPT ![u].source = source]
  /\ UNCHANGED <<rights, script, audit, attached, state, paid, run>>

Abort(u) ==
  /\ Editing(u) /\ Access(u, editor[u].script)
  /\ editor' = [editor EXCEPT ![u] = Closed]
  /\ UNCHANGED <<rights, script, audit, attached, state, paid, run>>

\* Fault: the last one to save wins.
SavableAnyway(u) == TRUE

\* "draft changed since editing began; abort and reopen to avoid overwriting it"
Savable(u) == editor[u].revision = script[editor[u].script].revision

Save(u) ==
  /\ Editing(u) /\ Access(u, editor[u].script) /\ RowFree(editor[u].script)
  /\ Savable(u)
  /\ Revised(editor[u].script, editor[u].source)
  /\ editor' = [editor EXCEPT ![u] = Closed]
  /\ UNCHANGED <<rights, attached, state, paid, run>>

\* restore: an earlier source as a new revision.
Restore(u, k, version) ==
  /\ Access(u, k) /\ RowFree(k)
  /\ version \in audit /\ version.script = k
  /\ Revised(k, version.source)
  /\ UNCHANGED <<rights, editor, attached, state, paid, run>>

\* Fault: whatever the draft is by now is published.
ReviewedAnyway(k, revision) == TRUE

\* "revision changed; review with script show, then publish that revision"
Reviewed(k, revision) == revision = script[k].revision

Publish(u, k, revision) ==
  /\ Access(u, k) /\ RowFree(k) /\ Admin(u)
  /\ Reviewed(k, revision) /\ script[k].source \notin Broken
  /\ script' = [script EXCEPT ![k].active = TRUE, ![k].published = script[k].source,
                              ![k].approval = [by |-> u, revision |-> revision]]
  /\ UNCHANGED <<rights, audit, editor, attached, state, paid, run>>

Disable(u, k) ==
  /\ Access(u, k) /\ RowFree(k) /\ Admin(u)
  /\ script' = [script EXCEPT ![k].active = FALSE]
  /\ UNCHANGED <<rights, audit, editor, attached, state, paid, run>>

Attach(u, k, t) ==
  /\ Access(u, k) /\ RowFree(k) /\ TargetFree(t) /\ Admin(u)
  /\ script[k].active
  /\ attached' = [attached EXCEPT ![t] = k]
  /\ UNCHANGED <<rights, script, audit, editor, state, paid, run>>

Detach(u, k, t) ==
  /\ Access(u, k) /\ RowFree(k) /\ TargetFree(t) /\ Admin(u)
  /\ attached[t] = k
  /\ attached' = [attached EXCEPT ![t] = NoScript]
  /\ UNCHANGED <<rights, script, audit, editor, state, paid, run>>

-----------------------------------------------------------------------------
(* Running hooks.                                                          *)

\* Fault: two runs read the same state.
EntryFreeAnyway(k, t, c) == TRUE

\* The script_state row of the run is inserted or locked.
EntryFree(k, t, c) ==
  \A n \in Connections :
    Running(n, k) => run[n].target # t \/ PlayerOf[n] # c

\* RunScript up to the evaluation: the source is the published one.
Start(n, t) ==
  LET k == attached[t]
  IN  /\ run[n] = Closed
      /\ k # NoScript /\ script[k].active /\ script[k].published # NoSource
      /\ EntryFree(k, t, PlayerOf[n])
      /\ run' = [run EXCEPT ![n] = [script |-> k, target |-> t, source |-> script[k].published,
                                    had |-> state[k][t][PlayerOf[n]]]]
      /\ UNCHANGED <<rights, script, audit, editor, attached, state, paid>>

\* Effects and state are committed together.
Finish(n) ==
  LET r == run[n]
      c == PlayerOf[n]
      pays == r.source \in Paying /\ ~r.had
  IN  /\ r # Closed
      /\ paid' = IF pays THEN [paid EXCEPT ![r.script][r.target][c] = @ + 1] ELSE paid
      /\ state' = [state EXCEPT ![r.script][r.target][c] = r.had \/ pays]
      /\ run' = [run EXCEPT ![n] = Closed]
      /\ UNCHANGED <<rights, script, audit, editor, attached>>

\* An error in the script, a timeout, a crash: nothing happened.
Fail(n) ==
  /\ run[n] # Closed
  /\ run' = [run EXCEPT ![n] = Closed]
  /\ UNCHANGED <<rights, script, audit, editor, attached, state, paid>>

-----------------------------------------------------------------------------
(* Operators and starts.                                                   *)

\* rck-admin grants, revokes, disables and enables.
SetRights(u, granted) ==
  /\ rights' = [rights EXCEPT ![u] = granted]
  /\ UNCHANGED <<script, audit, editor, attached, state, paid, run>>

\* The first start with a bundled script installs it, published, and attaches it
\* unless its room has a script; later starts leave it alone.
Install(k, b) ==
  LET source == Bundled[b].source
  IN  /\ script[k] = NoScript
      /\ \A j \in Scripts : script[j] # NoScript => script[j].author # b
      /\ script' = [script EXCEPT ![k] =
           [author |-> b, source |-> source, revision |-> 1, active |-> TRUE,
            published |-> source, approval |-> [by |-> NoUser, revision |-> 1]]]
      /\ Recorded(k, 1, source)
      /\ attached' = [attached EXCEPT ![Bundled[b].target] = IF @ = NoScript THEN k ELSE @]
      /\ UNCHANGED <<rights, editor, state, paid, run>>

Command(u) ==
  \/ Evicted(u) \/ Abort(u) \/ Save(u)
  \/ \E source \in Sources : Type(u, source)
  \/ \E k \in Scripts :
       \/ New(u, k) \/ Edit(u, k) \/ Disable(u, k)
       \/ \E version \in audit : Restore(u, k, version)
       \/ \E revision \in Revisions : Publish(u, k, revision)
       \/ \E t \in Targets : Attach(u, k, t) \/ Detach(u, k, t)
  \/ \E granted \in SUBSET Rights : SetRights(u, granted)

Next ==
  \/ \E u \in Users : Command(u)
  \/ \E n \in Connections : Finish(n) \/ Fail(n) \/ \E t \in Targets : Start(n, t)
  \/ \E k \in Scripts, b \in DOMAIN Bundled : Install(k, b)

Spec == Init /\ [][Next]_vars

-----------------------------------------------------------------------------
(* Properties.                                                             *)

\* One source for each revision on record, so a revision number names a source;
\* the draft, and the published source under the revision it was approved as, are
\* on record and can be restored.
RevisionNamesSource ==
  /\ \A v, w \in audit : v.script = w.script /\ v.revision = w.revision => v.source = w.source
  /\ \A v \in audit : script[v.script] # NoScript /\ v.revision <= script[v.script].revision
  /\ \A k \in Scripts : script[k] # NoScript =>
       [script |-> k, revision |-> script[k].revision, source |-> script[k].source] \in audit
  /\ \A u \in Users : Editing(u) =>
       script[editor[u].script] # NoScript
         /\ editor[u].revision <= script[editor[u].script].revision

\* No room names a script that does not exist.
AttachedExist == \A t \in Targets : attached[t] # NoScript => script[attached[t]] # NoScript

\* A run holds the entry it read: the prize was paid exactly if the state says so.
EntriesTrue ==
  /\ \A k \in Scripts, t \in Targets, c \in Players :
       paid[k][t][c] = IF state[k][t][c] THEN 1 ELSE 0
  /\ \A n \in Connections : run[n] # Closed =>
       run[n].had = state[run[n].script][run[n].target][PlayerOf[n]]
  /\ \A m, n \in Connections :
       (m # n /\ run[m] # Closed /\ run[n] # Closed /\ PlayerOf[m] = PlayerOf[n])
         => (run[m].script # run[n].script \/ run[m].target # run[n].target)

ScriptInv == TypeOK /\ RevisionNamesSource /\ AttachedExist /\ EntriesTrue

\* "An admin reviews the numbered source and publishes its exact draft
\* revision": what runs is what the record holds under the number the admin gave,
\* though others were saving and restoring at the same time.
ApprovedAsReviewed ==
  \A k \in Scripts : script[k] # NoScript /\ script[k].published # NoSource =>
    [script |-> k, revision |-> script[k].approval.revision,
     source |-> script[k].published] \in audit

\* A prize is paid once for each character, whatever the runs, publications,
\* detachments and failures.
PaidOnce == \A k \in Scripts, t \in Targets, c \in Players : paid[k][t][c] <= 1

\* A save replaces the draft its editor opened, as the record has it, never one
\* that came between.
NothingOverwritten ==
  [][\A u \in Users :
       (Editing(u) /\ ~Editing(u)' /\ script' # script) =>
         [script |-> editor[u].script, revision |-> editor[u].revision,
          source |-> script[editor[u].script].source] \in audit]_vars

=============================================================================

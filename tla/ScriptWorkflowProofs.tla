-------------------------- MODULE ScriptWorkflowProofs --------------------------
(***************************************************************************)
(* For any number of users, scripts, sources, targets and connections: a   *)
(* published source is the one its reviewer's revision names, no save      *)
(* overwrites a draft its editor did not open, and a prize is paid once.   *)
(***************************************************************************)
EXTENDS ScriptWorkflow, TLAPS

USE ScriptAssumption, ScriptNulls

(***************************************************************************)
(* Which actions write which variables.                                    *)
(***************************************************************************)

\* Drafts and their record change together.
LEMMA ScriptWriters ==
  ASSUME Next
  PROVE  \/ script' = script /\ audit' = audit
         \/ \E u \in Users, k \in Scripts : New(u, k) \/ Disable(u, k)
         \/ \E u \in Users : Save(u)
         \/ \E u \in Users, k \in Scripts, v \in audit : Restore(u, k, v)
         \/ \E u \in Users, k \in Scripts, n \in Revisions : Publish(u, k, n)
         \/ \E k \in Scripts, b \in DOMAIN Bundled : Install(k, b)
  BY DEF Next, Command, Evicted, Abort, Type, Edit, Attach, Detach, SetRights, Start, Finish, Fail

LEMMA EditorWriters ==
  ASSUME Next
  PROVE  \/ editor' = editor
         \/ \E u \in Users : Evicted(u) \/ Abort(u) \/ Save(u)
         \/ \E u \in Users, s \in Sources : Type(u, s)
         \/ \E u \in Users, k \in Scripts : Edit(u, k)
  <1>1. \A u \in Users, k \in Scripts :
          New(u, k) \/ Disable(u, k) \/ (\E v \in audit : Restore(u, k, v))
            \/ (\E n \in Revisions : Publish(u, k, n))
            \/ (\E t \in Targets : Attach(u, k, t) \/ Detach(u, k, t)) => editor' = editor
    BY DEF New, Disable, Restore, Publish, Attach, Detach
  <1>2. \A u \in Users, granted \in SUBSET Rights : SetRights(u, granted) => editor' = editor
    BY DEF SetRights
  <1>3. \A n \in Connections :
          Finish(n) \/ Fail(n) \/ (\E t \in Targets : Start(n, t)) => editor' = editor
    BY DEF Finish, Fail, Start
  <1>4. \A k \in Scripts, b \in DOMAIN Bundled : Install(k, b) => editor' = editor
    BY DEF Install
  <1>5. ASSUME NEW u \in Users, Command(u), editor' # editor
        PROVE  \/ Evicted(u) \/ Abort(u) \/ Save(u)
               \/ \E s \in Sources : Type(u, s)
               \/ \E k \in Scripts : Edit(u, k)
    BY <1>1, <1>2, <1>5 DEF Command
  <1>6. QED BY <1>3, <1>4, <1>5 DEF Next

\* Only runs touch the state of scripts and what they pay.
LEMMA RunWriters ==
  ASSUME Next
  PROVE  \/ run' = run /\ state' = state /\ paid' = paid
         \/ \E n \in Connections : Finish(n) \/ Fail(n) \/ \E t \in Targets : Start(n, t)
  <1> DEFINE Quiet == run' = run /\ state' = state /\ paid' = paid
  <1>1. \A u \in Users, k \in Scripts :
          New(u, k) \/ Edit(u, k) \/ Disable(u, k) \/ (\E v \in audit : Restore(u, k, v))
            \/ (\E n \in Revisions : Publish(u, k, n))
            \/ (\E t \in Targets : Attach(u, k, t) \/ Detach(u, k, t)) => Quiet
    BY DEF New, Edit, Disable, Restore, Publish, Attach, Detach
  <1>2. \A u \in Users :
          Evicted(u) \/ Abort(u) \/ Save(u) \/ (\E s \in Sources : Type(u, s))
            \/ (\E granted \in SUBSET Rights : SetRights(u, granted)) => Quiet
    BY DEF Evicted, Abort, Save, Type, SetRights
  <1>3. \A k \in Scripts, b \in DOMAIN Bundled : Install(k, b) => Quiet
    BY DEF Install
  <1> HIDE DEF Quiet
  <1>4. Quiet \/ \E n \in Connections : Finish(n) \/ Fail(n) \/ \E t \in Targets : Start(n, t)
    BY <1>1, <1>2, <1>3 DEF Next, Command
  <1>5. QED BY <1>4 DEF Quiet

LEMMA RightsWriters ==
  ASSUME Next
  PROVE  rights' = rights \/ \E u \in Users, granted \in SUBSET Rights : SetRights(u, granted)
  <1>1. \A u \in Users, k \in Scripts :
          New(u, k) \/ Edit(u, k) \/ Disable(u, k) \/ (\E v \in audit : Restore(u, k, v))
            \/ (\E n \in Revisions : Publish(u, k, n))
            \/ (\E t \in Targets : Attach(u, k, t) \/ Detach(u, k, t)) => rights' = rights
    BY DEF New, Edit, Disable, Restore, Publish, Attach, Detach
  <1>2. \A u \in Users :
          Evicted(u) \/ Abort(u) \/ Save(u) \/ (\E s \in Sources : Type(u, s)) => rights' = rights
    BY DEF Evicted, Abort, Save, Type
  <1>3. \A n \in Connections :
          Finish(n) \/ Fail(n) \/ (\E t \in Targets : Start(n, t)) => rights' = rights
    BY DEF Finish, Fail, Start
  <1>4. \A k \in Scripts, b \in DOMAIN Bundled : Install(k, b) => rights' = rights
    BY DEF Install
  <1>5. QED BY <1>1, <1>2, <1>3, <1>4 DEF Next, Command

LEMMA AttachedWriters ==
  ASSUME Next
  PROVE  \/ attached' = attached
         \/ \E u \in Users, k \in Scripts, t \in Targets : Attach(u, k, t) \/ Detach(u, k, t)
         \/ \E k \in Scripts, b \in DOMAIN Bundled : Install(k, b)
  <1>1. \A u \in Users, k \in Scripts :
          New(u, k) \/ Edit(u, k) \/ Disable(u, k) \/ (\E v \in audit : Restore(u, k, v))
            \/ (\E n \in Revisions : Publish(u, k, n)) => attached' = attached
    BY DEF New, Edit, Disable, Restore, Publish
  <1>2. \A u \in Users :
          Evicted(u) \/ Abort(u) \/ Save(u) \/ (\E s \in Sources : Type(u, s))
            \/ (\E granted \in SUBSET Rights : SetRights(u, granted)) => attached' = attached
    BY DEF Evicted, Abort, Save, Type, SetRights
  <1>3. \A n \in Connections :
          Finish(n) \/ Fail(n) \/ (\E t \in Targets : Start(n, t)) => attached' = attached
    BY DEF Finish, Fail, Start
  <1>4. QED BY <1>1, <1>2, <1>3 DEF Next, Command

(***************************************************************************)
(* What a command can do to the row of a script, and to its record.        *)
(***************************************************************************)

\* The row of k becomes r: its draft is new, the next one, or the same; what is
\* published is nothing, the draft under its number, or what it was.
RowChange(k, r) ==
  /\ script' = [script EXCEPT ![k] = r]
  /\ audit' = audit \cup {[script |-> k, revision |-> r.revision, source |-> r.source]}
  /\ \/ script[k] = NoScript
     \/ script[k] # NoScript /\ r.revision = script[k].revision + 1
     \/ script[k] # NoScript /\ r.revision = script[k].revision /\ r.source = script[k].source
  /\ \/ r.published = NoSource
     \/ r.published = r.source /\ r.approval.revision = r.revision
     \/ script[k] # NoScript /\ r.published = script[k].published /\ r.approval = script[k].approval

LEMMA RowIsRow ==
  ASSUME TypeOK, NEW k \in Scripts, script[k] # NoScript
  PROVE  /\ script[k] \in Row
         /\ script[k].revision \in Nat /\ script[k].revision \in Revisions
         /\ script[k].source \in Sources
  <1>1. script[k] \in Row
    BY DEF TypeOK
  <1>2. QED BY <1>1 DEF Row, Revisions

LEMMA RevisedRow ==
  ASSUME TypeOK, NEW k \in Scripts, NEW source \in Sources, script[k] # NoScript, Revised(k, source)
  PROVE  \E r \in Row : RowChange(k, r)
  <1> DEFINE r == [script[k] EXCEPT !.source = source, !.revision = script[k].revision + 1]
  <1>1. script[k] \in Row /\ script[k].revision \in Nat
    BY RowIsRow
  <1>2. script[k].revision + 1 \in Revisions
    BY <1>1 DEF Revised, Revisions
  <1>3. r \in Row
    BY <1>1, <1>2 DEF Row
  <1>4. r.revision = script[k].revision + 1 /\ r.source = source
          /\ r.published = script[k].published /\ r.approval = script[k].approval
    BY <1>1 DEF Row
  <1>5. script' = [script EXCEPT ![k] = r]
    <2>1. script' = [script EXCEPT ![k].source = source, ![k].revision = @ + 1]
      BY DEF Revised
    <2>2. script \in [Scripts -> Row \cup {NoScript}]
      BY DEF TypeOK
    <2>3. [script EXCEPT ![k].source = source] = [script EXCEPT ![k] = [script[k] EXCEPT !.source = source]]
      OBVIOUS
    <2> DEFINE s == [script[k] EXCEPT !.source = source]
    <2>4. s.revision = script[k].revision /\ [s EXCEPT !.revision = s.revision + 1] = r
      BY <1>1 DEF Row
    <2>5. script' = [[script EXCEPT ![k] = s] EXCEPT ![k].revision = @ + 1]
      BY <2>1, <2>3
    <2>6. script' = [[script EXCEPT ![k] = s] EXCEPT ![k] = [s EXCEPT !.revision = s.revision + 1]]
      BY <2>2, <2>5
    <2>7. QED BY <2>2, <2>4, <2>6
  <1>6. audit' = audit \cup {[script |-> k, revision |-> r.revision, source |-> r.source]}
    BY <1>4 DEF Revised, Recorded
  <1>7. QED BY <1>3, <1>4, <1>5, <1>6 DEF RowChange

LEMMA ScriptStep ==
  ASSUME TypeOK, RevisionNamesSource, Next
  PROVE  (script' = script /\ audit' = audit) \/ \E k \in Scripts, r \in Row : RowChange(k, r)
  <1>1. ASSUME NEW u \in Users, NEW k \in Scripts, New(u, k)
        PROVE  \E r \in Row : RowChange(k, r)
    <2> DEFINE r == [author |-> u, source |-> Template, revision |-> 1, active |-> FALSE,
                     published |-> NoSource, approval |-> [by |-> NoUser, revision |-> 1]]
    <2>1. r \in Row
      BY DEF Row, Authors, Revisions
    <2>2. QED BY <1>1, <2>1 DEF New, Recorded, RowChange
  <1>2. ASSUME NEW u \in Users, Save(u)
        PROVE  \E k \in Scripts, r \in Row : RowChange(k, r)
    <2>1. editor[u].script \in Scripts /\ editor[u].source \in Sources
      BY <1>2 DEF Save, Editing, TypeOK, Editor
    <2>2. QED BY <1>2, <2>1, RevisedRow DEF Save, Access
  <1>3. ASSUME NEW u \in Users, NEW k \in Scripts, NEW v \in audit, Restore(u, k, v)
        PROVE  \E r \in Row : RowChange(k, r)
    <2>1. v.source \in Sources
      BY DEF TypeOK, Version
    <2>2. QED BY <1>3, <2>1, RevisedRow DEF Restore, Access
  <1>4. ASSUME NEW k \in Scripts, NEW r \in Row, script[k] # NoScript,
               script' = [script EXCEPT ![k] = r], audit' = audit,
               r.source = script[k].source, r.revision = script[k].revision,
               \/ r.published = r.source /\ r.approval.revision = r.revision
               \/ r.published = script[k].published /\ r.approval = script[k].approval
        PROVE  RowChange(k, r)
    <2>1. [script |-> k, revision |-> r.revision, source |-> r.source] \in audit
      BY <1>4 DEF RevisionNamesSource
    <2>2. QED BY <1>4, <2>1 DEF RowChange
  <1>5. ASSUME NEW u \in Users, NEW k \in Scripts, NEW n \in Revisions, Publish(u, k, n)
        PROVE  \E r \in Row : RowChange(k, r)
    <2> DEFINE r == [script[k] EXCEPT !.active = TRUE, !.published = script[k].source,
                                      !.approval = [by |-> u, revision |-> n]]
    <2>1. script[k] # NoScript /\ n = script[k].revision /\ audit' = audit
      BY <1>5 DEF Publish, Access, Reviewed
    <2>2. script[k] \in Row
      BY <2>1, RowIsRow
    <2>3. r \in Row
      BY <2>2 DEF Row
    <2>4. r.source = script[k].source /\ r.revision = script[k].revision
            /\ r.published = script[k].source /\ r.approval.revision = n
      BY <2>2 DEF Row
    <2>5. script' = [script EXCEPT ![k] = r]
      BY <1>5, <2>2 DEF Publish, TypeOK, Row
    <2>6. QED BY <1>4, <2>1, <2>3, <2>4, <2>5
  <1>6. ASSUME NEW u \in Users, NEW k \in Scripts, Disable(u, k)
        PROVE  \E r \in Row : RowChange(k, r)
    <2> DEFINE r == [script[k] EXCEPT !.active = FALSE]
    <2>1. script[k] # NoScript /\ audit' = audit
      BY <1>6 DEF Disable, Access
    <2>2. script[k] \in Row
      BY <2>1, RowIsRow
    <2>3. r \in Row
      BY <2>2 DEF Row
    <2>4. r.source = script[k].source /\ r.revision = script[k].revision
            /\ r.published = script[k].published /\ r.approval = script[k].approval
      BY <2>2 DEF Row
    <2>5. script' = [script EXCEPT ![k] = r]
      BY <1>6, <2>2 DEF Disable, TypeOK, Row
    <2>6. QED BY <1>4, <2>1, <2>3, <2>4, <2>5
  <1>7. ASSUME NEW k \in Scripts, NEW b \in DOMAIN Bundled, Install(k, b)
        PROVE  \E r \in Row : RowChange(k, r)
    <2> DEFINE r == [author |-> b, source |-> Bundled[b].source, revision |-> 1, active |-> TRUE,
                     published |-> Bundled[b].source, approval |-> [by |-> NoUser, revision |-> 1]]
    <2>1. Bundled[b].source \in Sources
      OBVIOUS
    <2>2. r \in Row
      BY <2>1 DEF Row, Authors, Revisions
    <2>3. QED BY <1>7, <2>2 DEF Install, Recorded, RowChange
  <1>8. QED BY <1>1, <1>2, <1>3, <1>5, <1>6, <1>7, ScriptWriters

(***************************************************************************)
(* Types.                                                                  *)
(***************************************************************************)

LEMMA TypeStep ==
  ASSUME TypeOK, RevisionNamesSource, AttachedExist, Next
  PROVE  TypeOK'
  <1>1. script' \in [Scripts -> Row \cup {NoScript}] /\ audit' \subseteq Version
    <2>1. CASE script' = script /\ audit' = audit
      BY <2>1 DEF TypeOK
    <2>2. ASSUME NEW k \in Scripts, NEW r \in Row, RowChange(k, r)
          PROVE  script' \in [Scripts -> Row \cup {NoScript}] /\ audit' \subseteq Version
      <3>1. [script |-> k, revision |-> r.revision, source |-> r.source] \in Version
        BY DEF Row, Version
      <3>2. QED BY <2>2, <3>1 DEF RowChange, TypeOK
    <2>3. QED BY <2>1, <2>2, ScriptStep
  <1>2. editor' \in [Users -> Editor \cup {Closed}]
    <2>1. CASE editor' = editor
      BY <2>1 DEF TypeOK
    <2>2. ASSUME NEW u \in Users, Evicted(u) \/ Abort(u) \/ Save(u)
          PROVE  editor' \in [Users -> Editor \cup {Closed}]
      BY <2>2 DEF Evicted, Abort, Save, TypeOK
    <2>3. ASSUME NEW u \in Users, NEW s \in Sources, Type(u, s)
          PROVE  editor' \in [Users -> Editor \cup {Closed}]
      <3>1. editor[u] \in Editor
        BY <2>3 DEF Type, Editing, TypeOK
      <3>2. [editor[u] EXCEPT !.source = s] \in Editor
        BY <3>1 DEF Editor
      <3>3. editor' = [editor EXCEPT ![u] = [editor[u] EXCEPT !.source = s]]
        BY <2>3 DEF Type, TypeOK
      <3>4. QED BY <3>2, <3>3 DEF TypeOK
    <2>4. ASSUME NEW u \in Users, NEW k \in Scripts, Edit(u, k)
          PROVE  editor' \in [Users -> Editor \cup {Closed}]
      <3>1. script[k] \in Row
        BY <2>4 DEF Edit, Access, TypeOK
      <3>2. QED BY <2>4, <3>1 DEF Edit, Editor, TypeOK, Row
    <2>5. QED BY <2>1, <2>2, <2>3, <2>4, EditorWriters
  <1>3. rights' \in [Users -> SUBSET Rights]
    BY RightsWriters DEF SetRights, TypeOK
  <1>4. attached' \in [Targets -> Scripts \cup {NoScript}]
    <2>1. \A b \in DOMAIN Bundled : Bundled[b].target \in Targets
      OBVIOUS
    <2>2. CASE attached' = attached
      BY <2>2 DEF TypeOK
    <2>3. ASSUME NEW u \in Users, NEW k \in Scripts, NEW t \in Targets, Attach(u, k, t) \/ Detach(u, k, t)
          PROVE  attached' \in [Targets -> Scripts \cup {NoScript}]
      BY <2>3 DEF Attach, Detach, TypeOK
    <2>4. ASSUME NEW k \in Scripts, NEW b \in DOMAIN Bundled, Install(k, b)
          PROVE  attached' \in [Targets -> Scripts \cup {NoScript}]
      BY <2>1, <2>4 DEF Install, TypeOK
    <2>5. QED BY <2>2, <2>3, <2>4, AttachedWriters
  <1>5. state' \in Entries /\ paid' \in [Scripts -> [Targets -> [Players -> Nat]]]
          /\ run' \in [Connections -> Run \cup {Closed}]
    <2>1. CASE run' = run /\ state' = state /\ paid' = paid
      BY <2>1 DEF TypeOK
    <2>2. ASSUME NEW n \in Connections, Finish(n)
          PROVE  state' \in Entries /\ paid' \in [Scripts -> [Targets -> [Players -> Nat]]]
                   /\ run' \in [Connections -> Run \cup {Closed}]
      <3> DEFINE r == run[n]
      <3>1. r \in Run
        BY <2>2 DEF Finish, TypeOK
      <3>2. r.script \in Scripts /\ r.target \in Targets /\ r.had \in BOOLEAN /\ PlayerOf[n] \in Players
        BY <3>1 DEF Run, Players
      <3>3. paid' \in [Scripts -> [Targets -> [Players -> Nat]]]
        BY <2>2, <3>2 DEF Finish, TypeOK
      <3>4. state' = [state EXCEPT ![r.script][r.target][PlayerOf[n]] =
                        r.had \/ (r.source \in Paying /\ ~r.had)]
        BY <2>2 DEF Finish
      <3>5. state' \in Entries
        BY <3>2, <3>4 DEF TypeOK, Entries
      <3>6. run' \in [Connections -> Run \cup {Closed}]
        BY <2>2 DEF Finish, TypeOK
      <3>7. QED BY <3>3, <3>5, <3>6
    <2>3. ASSUME NEW n \in Connections, Fail(n)
          PROVE  state' \in Entries /\ paid' \in [Scripts -> [Targets -> [Players -> Nat]]]
                   /\ run' \in [Connections -> Run \cup {Closed}]
      BY <2>3 DEF Fail, TypeOK
    <2>4. ASSUME NEW n \in Connections, NEW t \in Targets, Start(n, t)
          PROVE  state' \in Entries /\ paid' \in [Scripts -> [Targets -> [Players -> Nat]]]
                   /\ run' \in [Connections -> Run \cup {Closed}]
      <3> DEFINE k == attached[t]
      <3>1. k \in Scripts /\ script[k] \in Row \cup {NoScript}
        BY <2>4 DEF Start, TypeOK
      <3>2. script[k] \in Row /\ script[k].published \in Sources
        BY <2>4, <3>1 DEF Start, Row, AttachedExist
      <3>3. state[k][t][PlayerOf[n]] \in BOOLEAN
        <4>1. PlayerOf[n] \in Players
          BY DEF Players
        <4>2. QED BY <3>1, <4>1 DEF TypeOK, Entries
      <3>4. [script |-> k, target |-> t, source |-> script[k].published,
             had |-> state[k][t][PlayerOf[n]]] \in Run
        BY <3>1, <3>2, <3>3 DEF Run
      <3>5. run' \in [Connections -> Run \cup {Closed}]
        BY <2>4, <3>4 DEF Start, TypeOK
      <3>6. QED BY <2>4, <3>5 DEF Start, TypeOK
    <2>5. QED BY <2>1, <2>2, <2>3, <2>4, RunWriters
  <1>6. QED BY <1>1, <1>2, <1>3, <1>4, <1>5 DEF TypeOK

(***************************************************************************)
(* The record.                                                             *)
(***************************************************************************)

LEMMA RecordStep ==
  ASSUME TypeOK, TypeOK', RevisionNamesSource, Next
  PROVE  RevisionNamesSource'
  <1>1. \A u \in Users : Editing(u) => editor[u].script \in Scripts /\ editor[u].revision \in Nat
    BY DEF Editing, TypeOK, Editor, Revisions
  <1>2. \A v \in audit : v \in Version /\ v.revision \in Nat
    BY DEF TypeOK, Version, Revisions
  <1>3. ASSUME NEW k \in Scripts, NEW r \in Row, RowChange(k, r)
        PROVE  /\ \A v, w \in audit' :
                    v.script = w.script /\ v.revision = w.revision => v.source = w.source
               /\ \A v \in audit' :
                    script'[v.script] # NoScript /\ v.revision <= script'[v.script].revision
               /\ \A j \in Scripts : script'[j] # NoScript =>
                    [script |-> j, revision |-> script'[j].revision,
                     source |-> script'[j].source] \in audit'
               /\ \A j \in Scripts : script[j] # NoScript =>
                    script'[j] # NoScript /\ script[j].revision <= script'[j].revision
    <2> DEFINE e == [script |-> k, revision |-> r.revision, source |-> r.source]
    <2>1. script' = [script EXCEPT ![k] = r] /\ audit' = audit \cup {e}
      BY <1>3 DEF RowChange
    <2>2. r.revision \in Nat /\ r # NoScript
      BY DEF Row, Revisions
    <2>3. script'[k] = r /\ \A j \in Scripts : j # k => script'[j] = script[j]
      BY <2>1 DEF TypeOK
    <2>4. \A j \in Scripts : script[j] # NoScript => script[j].revision \in Nat
      BY RowIsRow
    <2>5. script[k] # NoScript => script[k].revision <= r.revision
      BY <1>3, <2>2, <2>4 DEF RowChange
    <2>6. \A j \in Scripts : script[j] # NoScript =>
             script'[j] # NoScript /\ script[j].revision <= script'[j].revision
      BY <2>2, <2>3, <2>4, <2>5
    <2>7. \A v \in audit : v.script = k /\ v.revision = r.revision => v.source = r.source
      <3> SUFFICES ASSUME NEW v \in audit, v.script = k, v.revision = r.revision
                   PROVE  v.source = r.source
        OBVIOUS
      <3>1. script[k] # NoScript /\ r.revision <= script[k].revision
        BY DEF RevisionNamesSource
      <3>2. r.revision = script[k].revision /\ r.source = script[k].source
        BY <1>3, <2>4, <3>1 DEF RowChange
      <3>3. QED BY <3>1, <3>2 DEF RevisionNamesSource
    <2>8. \A v, w \in audit' :
             v.script = w.script /\ v.revision = w.revision => v.source = w.source
      <3>1. \A v, w \in audit : v.script = w.script /\ v.revision = w.revision => v.source = w.source
        BY DEF RevisionNamesSource
      <3>2. e.script = k /\ e.revision = r.revision /\ e.source = r.source
        OBVIOUS
      <3> HIDE DEF e
      <3>3. QED BY <2>1, <2>7, <3>1, <3>2
    <2>9. \A v \in audit' : script'[v.script] # NoScript /\ v.revision <= script'[v.script].revision
      <3>1. ASSUME NEW v \in audit
            PROVE  script'[v.script] # NoScript /\ v.revision <= script'[v.script].revision
        <4>1. v.script \in Scripts /\ v.revision \in Nat
          BY <1>2 DEF Version
        <4>2. script[v.script] # NoScript /\ v.revision <= script[v.script].revision
          BY DEF RevisionNamesSource
        <4>3. script'[v.script] # NoScript /\ script[v.script].revision <= script'[v.script].revision
          BY <2>6, <4>1, <4>2
        <4>4. script[v.script].revision \in Nat /\ script'[v.script].revision \in Nat
          BY <2>2, <2>3, <2>4, <4>1, <4>2
        <4>5. QED BY <4>1, <4>2, <4>3, <4>4
      <3>2. script'[e.script] # NoScript /\ e.revision <= script'[e.script].revision
        BY <2>2, <2>3
      <3> HIDE DEF e
      <3>3. QED BY <2>1, <3>1, <3>2
    <2>10. \A j \in Scripts : script'[j] # NoScript =>
              [script |-> j, revision |-> script'[j].revision,
               source |-> script'[j].source] \in audit'
      BY <2>1, <2>3 DEF RevisionNamesSource
    <2>11. QED BY <2>6, <2>8, <2>9, <2>10
  <1>4. /\ \A v, w \in audit' :
             v.script = w.script /\ v.revision = w.revision => v.source = w.source
        /\ \A v \in audit' :
             script'[v.script] # NoScript /\ v.revision <= script'[v.script].revision
        /\ \A j \in Scripts : script'[j] # NoScript =>
             [script |-> j, revision |-> script'[j].revision,
              source |-> script'[j].source] \in audit'
        /\ \A j \in Scripts : script[j] # NoScript =>
             script'[j] # NoScript /\ script[j].revision <= script'[j].revision
    <2>1. CASE script' = script /\ audit' = audit
      <3>1. \A j \in Scripts : script[j] # NoScript => script[j].revision \in Nat
        BY RowIsRow
      <3>2. QED BY <2>1, <3>1 DEF RevisionNamesSource
    <2>2. QED BY <1>3, <2>1, ScriptStep
  <1>5. \A u \in Users : editor'[u] # Closed =>
          script'[editor'[u].script] # NoScript
            /\ editor'[u].revision <= script'[editor'[u].script].revision
    <2>1. \A j \in Scripts : script[j] # NoScript => script[j].revision \in Nat
      BY RowIsRow
    <2>2. \A j \in Scripts : script'[j] # NoScript => script'[j].revision \in Nat
      BY DEF TypeOK, Row, Revisions
    <2>3. ASSUME NEW u \in Users, editor'[u] # Closed,
                 editor[u] # Closed, editor'[u].script = editor[u].script,
                 editor'[u].revision = editor[u].revision
          PROVE  script'[editor'[u].script] # NoScript
                   /\ editor'[u].revision <= script'[editor'[u].script].revision
      <3> DEFINE k == editor[u].script
      <3>1. k \in Scripts /\ editor[u].revision \in Nat
        BY <1>1, <2>3 DEF Editing
      <3>2. script[k] # NoScript /\ editor[u].revision <= script[k].revision
        BY <2>3 DEF RevisionNamesSource, Editing
      <3>3. script'[k] # NoScript /\ script[k].revision <= script'[k].revision
        BY <1>4, <3>1, <3>2
      <3>4. QED BY <2>1, <2>2, <2>3, <3>1, <3>2, <3>3
    <2>4. ASSUME NEW w \in Users, NEW k \in Scripts, Edit(w, k)
          PROVE  \A u \in Users : editor'[u] # Closed =>
                   script'[editor'[u].script] # NoScript
                     /\ editor'[u].revision <= script'[editor'[u].script].revision
      <3>1. script' = script /\ script[k] # NoScript
        BY <2>4 DEF Edit, Access
      <3>2. editor'[w].script = k /\ editor'[w].revision = script[k].revision
              /\ \A u \in Users : u # w => editor'[u] = editor[u]
        BY <2>4 DEF Edit, TypeOK
      <3>3. QED BY <2>1, <2>3, <3>1, <3>2
    <2>5. CASE editor' = editor
      BY <2>3, <2>5
    <2>6. ASSUME NEW w \in Users, Evicted(w) \/ Abort(w) \/ Save(w)
          PROVE  \A u \in Users : editor'[u] # Closed =>
                   editor[u] # Closed /\ editor'[u].script = editor[u].script
                     /\ editor'[u].revision = editor[u].revision
      BY <2>6 DEF Evicted, Abort, Save, TypeOK
    <2>7. ASSUME NEW w \in Users, NEW s \in Sources, Type(w, s)
          PROVE  \A u \in Users : editor'[u] # Closed =>
                   editor[u] # Closed /\ editor'[u].script = editor[u].script
                     /\ editor'[u].revision = editor[u].revision
      <3>1. editor[w] \in Editor /\ editor' = [editor EXCEPT ![w] = [editor[w] EXCEPT !.source = s]]
        BY <2>7 DEF Type, Editing, TypeOK
      <3>2. editor'[w] = [editor[w] EXCEPT !.source = s]
              /\ \A u \in Users : u # w => editor'[u] = editor[u]
        BY <3>1 DEF TypeOK
      <3>3. editor[w] # Closed
        BY <2>7 DEF Type, Editing
      <3>4. editor'[w].script = editor[w].script /\ editor'[w].revision = editor[w].revision
        BY <3>1, <3>2 DEF Editor
      <3>5. QED BY <3>2, <3>3, <3>4
    <2>8. QED BY <2>3, <2>4, <2>5, <2>6, <2>7, EditorWriters
  <1>6. QED BY <1>4, <1>5 DEF RevisionNamesSource, Editing

LEMMA AttachedStep ==
  ASSUME TypeOK, RevisionNamesSource, AttachedExist, Next
  PROVE  AttachedExist'
  <1>1. \A k \in Scripts : script[k] # NoScript => script'[k] # NoScript
    <2>1. \A k \in Scripts, r \in Row : RowChange(k, r) =>
            \A j \in Scripts : script[j] # NoScript => script'[j] # NoScript
      BY DEF RowChange, TypeOK
    <2>2. QED BY <2>1, ScriptStep
  <1>2. CASE attached' = attached
    BY <1>1, <1>2 DEF AttachedExist, TypeOK
  <1>3. ASSUME NEW u \in Users, NEW k \in Scripts, NEW t \in Targets, Attach(u, k, t) \/ Detach(u, k, t)
        PROVE  AttachedExist'
    BY <1>1, <1>3 DEF AttachedExist, TypeOK, Attach, Detach, Access
  <1>4. ASSUME NEW k \in Scripts, NEW b \in DOMAIN Bundled, Install(k, b)
        PROVE  AttachedExist'
    <2>1. script'[k] # NoScript
      <3>1. [author |-> b, source |-> Bundled[b].source, revision |-> 1, active |-> TRUE,
             published |-> Bundled[b].source,
             approval |-> [by |-> NoUser, revision |-> 1]] \in Row
        BY DEF Row, Authors, Revisions
      <3>2. QED BY <1>4, <3>1 DEF Install, TypeOK
    <2>2. \A t \in Targets : attached'[t] \in {attached[t], k}
      BY <1>4 DEF Install, TypeOK
    <2>3. QED BY <1>1, <2>1, <2>2 DEF AttachedExist, TypeOK
  <1>5. QED BY <1>2, <1>3, <1>4, AttachedWriters

(***************************************************************************)
(* The entries of the runs.                                                *)
(***************************************************************************)

LEMMA EntriesStep ==
  ASSUME TypeOK, EntriesTrue, Next
  PROVE  EntriesTrue'
  <1>1. \A n \in Connections : PlayerOf[n] \in Players
    BY DEF Players
  <1>2. \A n \in Connections : run[n] # Closed =>
          run[n] \in Run /\ run[n].script \in Scripts /\ run[n].target \in Targets
            /\ run[n].had \in BOOLEAN
    BY DEF TypeOK, Run
  <1>3. CASE run' = run /\ state' = state /\ paid' = paid
    BY <1>3 DEF EntriesTrue
  <1>4. ASSUME NEW n \in Connections, Fail(n)
        PROVE  EntriesTrue'
    <2>1. state' = state /\ paid' = paid /\ run' = [run EXCEPT ![n] = Closed]
      BY <1>4 DEF Fail
    <2>2. \A m \in Connections : run'[m] # Closed => run'[m] = run[m] /\ run[m] # Closed
      BY <2>1 DEF TypeOK
    <2>3. QED BY <2>1, <2>2 DEF EntriesTrue
  <1>5. ASSUME NEW n \in Connections, NEW t \in Targets, Start(n, t)
        PROVE  EntriesTrue'
    <2> DEFINE k == attached[t]
               r == [script |-> k, target |-> t, source |-> script[k].published,
                     had |-> state[k][t][PlayerOf[n]]]
    <2>1. state' = state /\ paid' = paid /\ run' = [run EXCEPT ![n] = r]
      BY <1>5 DEF Start
    <2>2. run'[n] = r /\ \A m \in Connections : m # n => run'[m] = run[m]
      BY <2>1 DEF TypeOK
    <2>3. \A m \in Connections : run[m] # Closed /\ PlayerOf[m] = PlayerOf[n] =>
            run[m].script # k \/ run[m].target # t
      BY <1>5 DEF Start, EntryFree, Running
    <2>4. r.script = k /\ r.target = t /\ r.had = state[k][t][PlayerOf[n]]
      OBVIOUS
    <2> HIDE DEF r, k
    <2>5. \A m \in Connections : run'[m] # Closed =>
            run'[m].had = state'[run'[m].script][run'[m].target][PlayerOf[m]]
      BY <2>1, <2>2, <2>4 DEF EntriesTrue
    <2>6. \A m, p \in Connections :
            (m # p /\ run'[m] # Closed /\ run'[p] # Closed /\ PlayerOf[m] = PlayerOf[p])
              => (run'[m].script # run'[p].script \/ run'[m].target # run'[p].target)
      BY <2>2, <2>3, <2>4 DEF EntriesTrue
    <2>7. QED BY <2>1, <2>5, <2>6 DEF EntriesTrue
  <1>6. ASSUME NEW n \in Connections, Finish(n)
        PROVE  EntriesTrue'
    <2> DEFINE k == run[n].script
               t == run[n].target
               c == PlayerOf[n]
               pays == run[n].source \in Paying /\ ~run[n].had
    <2>1. k \in Scripts /\ t \in Targets /\ c \in Players /\ run[n].had \in BOOLEAN
            /\ run[n] # Closed
      BY <1>1, <1>2, <1>6 DEF Finish
    <2>2. run[n].had = state[k][t][c] /\ paid[k][t][c] = IF state[k][t][c] THEN 1 ELSE 0
      BY <2>1 DEF EntriesTrue
    <2>3. run' = [run EXCEPT ![n] = Closed]
            /\ state' = [state EXCEPT ![k][t][c] = run[n].had \/ pays]
            /\ paid' = IF pays THEN [paid EXCEPT ![k][t][c] = @ + 1] ELSE paid
      BY <1>6 DEF Finish
    <2>4. pays \in BOOLEAN
      OBVIOUS
    <2> HIDE DEF k, t, c, pays
    <2>5. \A j \in Scripts, s \in Targets, d \in Players :
            <<j, s, d>> # <<k, t, c>> =>
              state'[j][s][d] = state[j][s][d] /\ paid'[j][s][d] = paid[j][s][d]
      BY <2>1, <2>3 DEF TypeOK, Entries
    <2>6. state'[k][t][c] = (run[n].had \/ pays)
      BY <2>1, <2>3 DEF TypeOK, Entries
    <2>7. paid'[k][t][c] = IF pays THEN paid[k][t][c] + 1 ELSE paid[k][t][c]
      BY <2>1, <2>3 DEF TypeOK
    <2>8. paid'[k][t][c] = IF state'[k][t][c] THEN 1 ELSE 0
      <3>1. CASE pays
        <4>1. ~run[n].had
          BY <3>1 DEF pays
        <4>2. ~state[k][t][c] /\ state'[k][t][c]
          BY <2>2, <2>6, <3>1, <4>1
        <4>3. paid'[k][t][c] = 1
          BY <2>2, <2>7, <3>1, <4>2
        <4>4. QED BY <4>2, <4>3
      <3>2. CASE ~pays
        BY <2>1, <2>2, <2>4, <2>6, <2>7, <3>2
      <3>3. QED BY <3>1, <3>2
    <2>9. \A j \in Scripts, s \in Targets, d \in Players :
            paid'[j][s][d] = IF state'[j][s][d] THEN 1 ELSE 0
      BY <2>5, <2>8 DEF EntriesTrue
    <2>10. \A m \in Connections : run'[m] # Closed => m # n /\ run'[m] = run[m] /\ run[m] # Closed
      BY <2>3 DEF TypeOK
    <2>11. \A m \in Connections : m # n /\ run[m] # Closed =>
             <<run[m].script, run[m].target, PlayerOf[m]>> # <<k, t, c>>
      BY <2>1 DEF EntriesTrue, k, t, c
    <2>12. \A m \in Connections : run'[m] # Closed =>
             run'[m].had = state'[run'[m].script][run'[m].target][PlayerOf[m]]
      <3> SUFFICES ASSUME NEW m \in Connections, run'[m] # Closed
                   PROVE  run'[m].had = state'[run'[m].script][run'[m].target][PlayerOf[m]]
        OBVIOUS
      <3>1. m # n /\ run'[m] = run[m] /\ run[m] # Closed
        BY <2>10
      <3>2. run[m].had = state[run[m].script][run[m].target][PlayerOf[m]]
        BY <3>1 DEF EntriesTrue
      <3>3. run[m].script \in Scripts /\ run[m].target \in Targets /\ PlayerOf[m] \in Players
        BY <1>1, <1>2, <3>1
      <3>4. <<run[m].script, run[m].target, PlayerOf[m]>> # <<k, t, c>>
        BY <2>11, <3>1
      <3>5. state'[run[m].script][run[m].target][PlayerOf[m]]
              = state[run[m].script][run[m].target][PlayerOf[m]]
        BY <2>5, <3>3, <3>4
      <3>6. QED BY <3>1, <3>2, <3>5
    <2>13. \A m, p \in Connections :
             (m # p /\ run'[m] # Closed /\ run'[p] # Closed /\ PlayerOf[m] = PlayerOf[p])
               => (run'[m].script # run'[p].script \/ run'[m].target # run'[p].target)
      BY <2>10 DEF EntriesTrue
    <2>14. QED BY <2>9, <2>12, <2>13 DEF EntriesTrue
  <1>7. QED BY <1>3, <1>4, <1>5, <1>6, RunWriters

(***************************************************************************)
(* The invariant, and what follows from it.                                *)
(***************************************************************************)

LEMMA ScriptInit == Init => ScriptInv
  <1> SUFFICES ASSUME Init PROVE ScriptInv
    OBVIOUS
  <1>1. TypeOK
    BY DEF Init, TypeOK, Entries
  <1>2. RevisionNamesSource /\ AttachedExist
    BY DEF Init, RevisionNamesSource, AttachedExist, Editing
  <1>3. EntriesTrue
    BY DEF Init, EntriesTrue
  <1>4. QED BY <1>1, <1>2, <1>3 DEF ScriptInv

LEMMA ScriptInvStep == ScriptInv /\ [Next]_vars => ScriptInv'
  <1> SUFFICES ASSUME ScriptInv, [Next]_vars PROVE ScriptInv'
    OBVIOUS
  <1>1. CASE Next
    BY <1>1, TypeStep, RecordStep, AttachedStep, EntriesStep DEF ScriptInv
  <1>2. CASE UNCHANGED vars
    BY <1>2 DEF vars, ScriptInv, TypeOK, RevisionNamesSource, AttachedExist, EntriesTrue, Editing
  <1>3. QED BY <1>1, <1>2

\* Rows, record, editors, rooms and runs agree in every state: a revision number
\* names one source, drafts are on record, rooms name scripts that exist, and a
\* run in flight holds the entry it read.
THEOREM ScriptInvariant == Spec => []ScriptInv
  BY ScriptInit, ScriptInvStep, PTL DEF Spec

\* However many characters run a script at once, from however many connections,
\* and however it is revised meanwhile, each is paid at most once.
THEOREM PrizePaidOnce == Spec => []PaidOnce
  <1>1. ScriptInv => PaidOnce
    BY DEF ScriptInv, EntriesTrue, PaidOnce
  <1>2. QED BY <1>1, ScriptInvariant, PTL

\* What runs in the world is the source on record under the revision its reviewer
\* named, whatever was saved, restored or published at the same time.
THEOREM ApprovedIsReviewed == Spec => []ApprovedAsReviewed
  <1>1. Init => ApprovedAsReviewed
    BY DEF Init, ApprovedAsReviewed
  <1>2. ScriptInv /\ ApprovedAsReviewed /\ [Next]_vars => ApprovedAsReviewed'
    <2> SUFFICES ASSUME ScriptInv, ApprovedAsReviewed, [Next]_vars PROVE ApprovedAsReviewed'
      OBVIOUS
    <2>1. CASE script' = script /\ audit' = audit
      BY <2>1 DEF ApprovedAsReviewed
    <2>2. ASSUME NEW k \in Scripts, NEW r \in Row, RowChange(k, r)
          PROVE  ApprovedAsReviewed'
      <3>1. script'[k] = r /\ \A j \in Scripts : j # k => script'[j] = script[j]
        BY <2>2 DEF RowChange, ScriptInv, TypeOK
      <3>2. audit \subseteq audit'
              /\ [script |-> k, revision |-> r.revision, source |-> r.source] \in audit'
        BY <2>2 DEF RowChange
      <3>3. \A j \in Scripts : (j # k /\ script'[j] # NoScript /\ script'[j].published # NoSource) =>
              [script |-> j, revision |-> script'[j].approval.revision,
               source |-> script'[j].published] \in audit'
        BY <3>1, <3>2 DEF ApprovedAsReviewed
      <3>4. r.published # NoSource =>
              [script |-> k, revision |-> r.approval.revision, source |-> r.published] \in audit'
        BY <2>2, <3>2 DEF RowChange, ApprovedAsReviewed
      <3>5. QED BY <3>1, <3>3, <3>4 DEF ApprovedAsReviewed
    <2>3. CASE Next
      BY <2>1, <2>2, <2>3, ScriptStep DEF ScriptInv
    <2>4. CASE UNCHANGED vars
      BY <2>1, <2>4 DEF vars
    <2>5. QED BY <2>3, <2>4
  <1>3. QED BY <1>1, <1>2, ScriptInvariant, PTL DEF Spec

\* No save replaces a draft other than the one its editor opened.
THEOREM DraftsNotOverwritten == Spec => NothingOverwritten
  <1>1. ScriptInv /\ [Next]_vars =>
          [\A u \in Users : (Editing(u) /\ ~Editing(u)' /\ script' # script) =>
             [script |-> editor[u].script, revision |-> editor[u].revision,
              source |-> script[editor[u].script].source] \in audit]_vars
    <2> SUFFICES ASSUME ScriptInv, Next, NEW u \in Users,
                        Editing(u), ~Editing(u)', script' # script
                 PROVE  [script |-> editor[u].script, revision |-> editor[u].revision,
                         source |-> script[editor[u].script].source] \in audit
      BY DEF vars
    <2>1. editor'[u] = Closed /\ editor[u] # Closed
      BY DEF Editing
    <2>2. PICK w \in Users : Evicted(w) \/ Abort(w) \/ Save(w)
      <3>1. \A w \in Users, s \in Sources : ~Type(w, s)
        BY DEF Type
      <3>2. \A w \in Users, k \in Scripts : ~Edit(w, k)
        BY DEF Edit
      <3>3. QED BY <2>1, <3>1, <3>2, EditorWriters
    <2>3. Save(w)
      BY <2>2 DEF Evicted, Abort
    <2>4. w = u
      BY <2>1, <2>3 DEF Save, ScriptInv, TypeOK
    <2>5. editor[u].script \in Scripts /\ script[editor[u].script] # NoScript
            /\ editor[u].revision = script[editor[u].script].revision
      BY <2>3, <2>4 DEF Save, Access, Savable, ScriptInv, TypeOK, Editing, Editor
    <2>6. QED BY <2>5 DEF ScriptInv, RevisionNamesSource
  <1>2. QED BY <1>1, ScriptInvariant, PTL DEF Spec, NothingOverwritten

=============================================================================

------------------------- MODULE AdminSettingsProofs -------------------------
(***************************************************************************)
(* Theorems about AdminSettings, for every set of nodes, administrators,   *)
(* passwords and channels, every environment and every value of the        *)
(* bounds.                                                                 *)
(***************************************************************************)
EXTENDS AdminSettings, LeadershipProofs

(***************************************************************************)
(* What holds of every row, be it stored, replicated or in a handler: what *)
(* is enabled in it can send, and nothing is stored before the bootstrap.  *)
(***************************************************************************)
CanSend(c, state) ==
    state.enabled =>
        /\ state.fields # None
        /\ c \in NeedsSecret => \E n \in Nodes : SecretConfigured(n, c, state)

Sound(row) ==
    /\ \A c \in Channels : CanSend(c, row.channels[c])
    /\ row.password = None => row = NoSettings

RowsInv ==
    /\ Sound(settings)
    /\ \A n \in Nodes : Sound(view[n].settings)
    /\ \A a \in Admins : Sound(handler[a].row)

(***************************************************************************)
(* What a handler that is about to submit a row knows of it.               *)
(***************************************************************************)
Checked(n, row, q) ==
    /\ q.op = "bootstrap" => row.password = None
    /\ q.op = "password" => row.password = q.current
    /\ q.op = "put" => row.password # None /\ ValidChannel(n, row, q)
    /\ q.op = "reset" => row.password # None

CheckedInv ==
    \A a \in Admins :
        At(a, "submit") => Checked(handler[a].at, handler[a].row, handler[a].request)

(***************************************************************************)
(* Without a race a handler holds the row that is stored, and is the only  *)
(* one to hold it.                                                         *)
(***************************************************************************)
Editing(a) == At(a, "submit") /\ Edits(handler[a].request)

RaceInv ==
    ~raced =>
        /\ settings = promised
        /\ \A a \in Admins : Editing(a) => handler[a].row = settings
        /\ \A a, b \in Admins : Editing(a) /\ Editing(b) => a = b

IInv == TypeOK /\ RowsInv /\ CheckedInv /\ RaceInv

-----------------------------------------------------------------------------
USE NodesAssumption, MaxTermAssumption, NonesAssumption, RequestsAssumption,
    SecretsAssumption, MaxRequestsAssumption
  DEF NodesAssumption, MaxTermAssumption, NonesAssumption, RequestsAssumption,
      SecretsAssumption, MaxRequestsAssumption

(* The rows                                                                *)

LEMMA BlankType ==
    /\ Unmanaged \in ChannelStates
    /\ NoSettings \in SettingsRows
    /\ Blank \in Views
    /\ Idle \in Handlers
BY DEF Unmanaged, ChannelStates, NoSettings, SettingsRows, Blank, Views, Idle, Handlers

LEMMA BlankSound == Sound(NoSettings)
BY DEF Sound, CanSend, NoSettings, Unmanaged

\* A changed channel is one again.
LEMMA ChannelType ==
    ASSUME NEW old \in ChannelStates, NEW q \in RequestStates, q.op = "put"
    PROVE  ApplyChannelRequest(old, q) \in ChannelStates
<1>1. /\ q.enabled \in BOOLEAN /\ q.fields \in Fields \cup {None}
      /\ q.secret \in BOOLEAN
  BY DEF RequestStates
<1>2. old.secret \in BOOLEAN
  <2>1. CASE old = Unmanaged
    BY <2>1 DEF Unmanaged
  <2>2. CASE old # Unmanaged
    BY <2>2 DEF ChannelStates
  <2> QED
    BY <2>1, <2>2
<1>3. (q.secret \/ old.secret) \in BOOLEAN
  BY <1>1, <1>2
<1> QED
  BY <1>1, <1>3 DEF ApplyChannelRequest, ChannelStates

LEMMA UpdatedType ==
    ASSUME NEW row \in SettingsRows, NEW q \in RequestStates, Edits(q)
    PROVE  Updated(row, q) \in SettingsRows
<1>1. CASE q.op = "bootstrap"
  <2>1. q.password \in Passwords
    BY <1>1 DEF RequestStates
  <2> QED
    BY <1>1, <2>1, BlankType DEF Updated, SettingsRows
<1>2. CASE q.op = "password"
  <2>1. q.password \in Passwords
    BY <1>2 DEF RequestStates
  <2> QED
    BY <1>2, <2>1 DEF Updated, SettingsRows
<1>3. CASE q.op = "put"
  <2>1. q.channel \in Channels
    BY <1>3 DEF RequestStates
  <2>2. ApplyChannelRequest(row.channels[q.channel], q) \in ChannelStates
    BY <1>3, <2>1, ChannelType DEF SettingsRows
  <2> QED
    BY <1>3, <2>1, <2>2 DEF Updated, SettingsRows
<1>4. CASE q.op = "reset"
  <2>1. q.channel \in Channels
    BY <1>4 DEF RequestStates
  <2> QED
    BY <1>4, <2>1, BlankType DEF Updated, SettingsRows
<1> QED
  BY <1>1, <1>2, <1>3, <1>4 DEF Edits

\* A row that was checked is sound when it has been changed.
LEMMA UpdatedSound ==
    ASSUME NEW row \in SettingsRows, NEW q \in RequestStates, NEW n \in Nodes,
           Edits(q), Sound(row), Checked(n, row, q)
    PROVE  Sound(Updated(row, q))
<1>1. CASE q.op = "bootstrap"
  <2>1. q.password \in Passwords
    BY <1>1 DEF RequestStates
  <2>2. /\ Updated(row, q).channels = NoSettings.channels
        /\ Updated(row, q).password # None
    BY <1>1, <2>1 DEF Updated, NoSettings
  <2> QED
    BY <2>2, BlankSound DEF Sound
<1>2. CASE q.op = "password"
  <2>1. q.password \in Passwords
    BY <1>2 DEF RequestStates
  <2>2. /\ Updated(row, q).channels = row.channels
        /\ Updated(row, q).password # None
    BY <1>2, <2>1 DEF Updated, SettingsRows
  <2> QED
    BY <2>2 DEF Sound
<1>3. CASE q.op = "put"
  <2>1. q.channel \in Channels
    BY <1>3 DEF RequestStates
  <2>2. Updated(row, q).password # None
    BY <1>3 DEF Updated, Checked, SettingsRows
  <2>3. \A c \in Channels \ {q.channel} : Updated(row, q).channels[c] = row.channels[c]
    BY <1>3 DEF Updated, SettingsRows
  <2>4. CanSend(q.channel, Updated(row, q).channels[q.channel])
    BY <1>3 DEF Checked, ValidChannel, CanSend
  <2>5. \A c \in Channels : CanSend(c, Updated(row, q).channels[c])
    BY <2>3, <2>4 DEF Sound
  <2> QED
    BY <2>2, <2>5 DEF Sound
<1>4. CASE q.op = "reset"
  <2>1. q.channel \in Channels
    BY <1>4 DEF RequestStates
  <2>2. Updated(row, q).password # None
    BY <1>4 DEF Updated, Checked, SettingsRows
  <2>3. /\ \A c \in Channels \ {q.channel} : Updated(row, q).channels[c] = row.channels[c]
        /\ Updated(row, q).channels[q.channel] = Unmanaged
    BY <1>4, <2>1 DEF Updated, SettingsRows
  <2>4. \A c \in Channels : CanSend(c, Updated(row, q).channels[c])
    BY <2>3 DEF Sound, CanSend, Unmanaged
  <2> QED
    BY <2>2, <2>4 DEF Sound
<1> QED
  BY <1>1, <1>2, <1>3, <1>4 DEF Edits

-----------------------------------------------------------------------------
(* What a command leaves behind                                            *)

\* A replica has the row it had, the new one or, after a crash, none.
ViewStep ==
    /\ view' \in [Nodes -> Views]
    /\ \A n \in Nodes : view'[n].settings \in {view[n].settings, settings', NoSettings}

LEMMA ReplicatesStep ==
    ASSUME NEW first, TypeOK, settings' \in SettingsRows, sessions' \subseteq Admins,
           Replicates(first)
    PROVE  ViewStep
<1>1. PICK behind \in SUBSET (Nodes \ first) :
          view' = [n \in Nodes |-> IF n \in behind THEN view[n]
                                   ELSE [settings |-> settings', sessions |-> sessions']]
  BY DEF Replicates
<1>2. [settings |-> settings', sessions |-> sessions'] \in Views
  BY DEF Views
<1>3. view \in [Nodes -> Views]
  BY DEF TypeOK
<1>4. view' \in [Nodes -> Views]
  BY <1>1, <1>2, <1>3
<1>5. \A n \in Nodes : view'[n].settings \in {view[n].settings, settings', NoSettings}
  BY <1>1
<1> QED
  BY <1>4, <1>5 DEF ViewStep

\* The command is committed, whatever its handler is told.
LEMMA CommittedStep ==
    ASSUME TypeOK, settings' \in SettingsRows, sessions' \subseteq Admins,
           NEW n \in Nodes, Succeeds(n) \/ FailsCommitted(n)
    PROVE  LeadershipTypeOK' /\ ViewStep
<1>1. LeadershipTypeOK
  BY DEF TypeOK
<1>2. CASE \E l \in Nodes : Committed(l) /\ Replicates({l})
  BY <1>1, <1>2, LeadershipStays, ReplicatesStep DEF Committed
<1>3. CASE \E l \in Nodes : Deposed(l) /\ Replicates({})
  BY <1>1, <1>3, LeadershipDeposed, ReplicatesStep
<1> QED
  BY <1>2, <1>3 DEF Succeeds, FailsCommitted

\* It is not: the rows are as they were.
LEMMA FailsStep ==
    ASSUME TypeOK, NEW n \in Nodes, Fails(n)
    PROVE  LeadershipTypeOK' /\ ViewStep /\ UNCHANGED <<settings, sessions, view>>
<1>1. LeadershipTypeOK
  BY DEF TypeOK
<1>2. UNCHANGED <<settings, sessions, view>>
  BY DEF Fails
<1>3. LeadershipTypeOK'
  <2>1. CASE UNCHANGED leadershipVars
    BY <1>1, <2>1, LeadershipStays
  <2>2. CASE \E l \in Nodes : Deposed(l)
    BY <1>1, <2>2, LeadershipDeposed
  <2> QED
    BY <2>1, <2>2 DEF Fails, Refused
<1>4. ViewStep
  BY <1>2 DEF ViewStep, TypeOK
<1> QED
  BY <1>2, <1>3, <1>4

-----------------------------------------------------------------------------
(* Steps that neither write a row nor start an edit                        *)

\* A handler goes on as it was, or is no longer about to submit.
HandlerStep ==
    /\ handler' \in [Admins -> Handlers]
    /\ \A a \in Admins :
           \/ handler'[a] = handler[a]
           \/ handler'[a].pc # "submit" /\ Sound(handler'[a].row)

LEMMA ViewsSound ==
    ASSUME RowsInv, ViewStep, Sound(settings')
    PROVE  \A n \in Nodes : Sound(view'[n].settings)
BY BlankSound DEF RowsInv, ViewStep

LEMMA HandlersSound ==
    ASSUME RowsInv, HandlerStep
    PROVE  \A a \in Admins : Sound(handler'[a].row)
BY DEF RowsInv, HandlerStep

LEMMA HandlersChecked ==
    ASSUME CheckedInv, HandlerStep
    PROVE  CheckedInv'
<1> SUFFICES ASSUME NEW a \in Admins, handler'[a].pc = "submit"
             PROVE  Checked(handler'[a].at, handler'[a].row, handler'[a].request)
  BY DEF CheckedInv, At, Checked, ValidChannel, SecretConfigured
<1>1. handler'[a] = handler[a]
  BY DEF HandlerStep
<1> QED
  BY <1>1 DEF CheckedInv, At

\* Whoever edits after such a step edited before it, and the same row.
LEMMA StillEditing ==
    ASSUME HandlerStep, NEW a \in Admins, Editing(a)'
    PROVE  Editing(a) /\ handler'[a] = handler[a]
BY DEF HandlerStep, Editing, At, Edits

LEMMA QuietStep ==
    ASSUME RowsInv, CheckedInv, RaceInv, ViewStep, HandlerStep,
           UNCHANGED <<settings, promised, raced>>
    PROVE  RowsInv' /\ CheckedInv' /\ RaceInv'
<1>1. Sound(settings)
  BY DEF RowsInv
<1>2. settings' = settings /\ promised' = promised /\ raced' = raced
  OBVIOUS
<1>3. Sound(settings')
  BY <1>1, <1>2
<1>4. RowsInv'
  <2>1. /\ \A n \in Nodes : Sound(view'[n].settings)
        /\ \A a \in Admins : Sound(handler'[a].row)
    BY <1>3, ViewsSound, HandlersSound
  <2> QED
    BY <1>3, <2>1 DEF RowsInv, Sound, CanSend, SecretConfigured
<1>5. CheckedInv'
  BY HandlersChecked
<1>6. RaceInv'
  <2> SUFFICES ASSUME ~raced
               PROVE  /\ settings' = promised'
                      /\ \A a \in Admins : Editing(a)' => handler'[a].row = settings'
                      /\ \A a, b \in Admins : Editing(a)' /\ Editing(b)' => a = b
    BY <1>2 DEF RaceInv
  <2> QED
    BY <1>2, StillEditing DEF RaceInv
<1> QED
  BY <1>4, <1>5, <1>6

-----------------------------------------------------------------------------
(* Begin: a request is accepted                                            *)

LEMMA HandlerType ==
    ASSUME TypeOK, NEW a \in Admins, ~At(a, "idle")
    PROVE  /\ handler[a].pc \in {"submit", "session"}
           /\ handler[a].at \in Nodes
           /\ handler[a].request \in RequestStates
           /\ handler[a].row \in SettingsRows
BY DEF TypeOK, Handlers, Idle, At

LEMMA BeginTypeOK ==
    ASSUME TypeOK, NEW a \in Admins, NEW n \in Nodes, NEW q \in Requests, Begin(a, n, q)
    PROVE  TypeOK'
<1> DEFINE h == [pc |-> IF q.op = "login" THEN "session" ELSE "submit",
                 at |-> n, request |-> q, row |-> view[n].settings]
<1>1. h \in Handlers
  BY DEF TypeOK, Views, Handlers
<1>2. handler' = [handler EXCEPT ![a] = h]
  BY DEF Begin
<1>3. handler' \in [Admins -> Handlers]
  BY <1>1, <1>2 DEF TypeOK
<1>4. asked' \in 0..MaxRequests
  BY DEF Begin, TypeOK
<1>5. raced' \in BOOLEAN /\ promised' \in {promised, settings}
  BY Zenon DEF Begin, NotesRace, TypeOK
<1>6. LeadershipTypeOK'
  BY LeadershipStays DEF Begin, TypeOK
<1> QED
  BY <1>3, <1>4, <1>5, <1>6 DEF Begin, TypeOK

LEMMA BeginRows ==
    ASSUME TypeOK, RowsInv, NEW a \in Admins, NEW n \in Nodes, NEW q \in Requests,
           Begin(a, n, q)
    PROVE  RowsInv'
<1>1. \A b \in Admins : handler'[b].row \in {handler[b].row, view[n].settings}
  BY DEF Begin, TypeOK
<1>2. settings' = settings /\ view' = view
  BY DEF Begin
<1> QED
  BY <1>1, <1>2 DEF RowsInv, Sound, CanSend, SecretConfigured

LEMMA BeginChecked ==
    ASSUME TypeOK, CheckedInv, NEW a \in Admins, NEW n \in Nodes, NEW q \in Requests,
           Begin(a, n, q)
    PROVE  CheckedInv'
<1> SUFFICES ASSUME NEW b \in Admins, handler'[b].pc = "submit"
             PROVE  Checked(handler'[b].at, handler'[b].row, handler'[b].request)
  BY DEF CheckedInv, At, Checked, ValidChannel, SecretConfigured
<1>1. CASE b = a
  <2>1. /\ handler'[a].at = n
        /\ handler'[a].row = view[n].settings
        /\ handler'[a].request = q
    BY DEF Begin, TypeOK
  <2>2. Accepted(a, n, q)
    BY DEF Begin
  <2> QED
    BY <1>1, <2>1, <2>2 DEF Accepted, Checked
<1>2. CASE b # a
  <2>1. handler'[b] = handler[b]
    BY <1>2 DEF Begin, TypeOK
  <2> QED
    BY <2>1 DEF CheckedInv, At
<1> QED
  BY <1>1, <1>2

\* An edit that begins without a race holds the last row, and holds it alone.
LEMMA BeginRace ==
    ASSUME TypeOK, RaceInv, NEW a \in Admins, NEW n \in Nodes, NEW q \in Requests,
           Begin(a, n, q)
    PROVE  RaceInv'
<1> SUFFICES ASSUME ~raced'
             PROVE  /\ settings' = promised'
                    /\ \A b \in Admins : Editing(b)' => handler'[b].row = settings'
                    /\ \A b, c \in Admins : Editing(b)' /\ Editing(c)' => b = c
  BY DEF RaceInv
<1>1. /\ Edits(q) => /\ view[n].settings = settings /\ promised' = settings
                      /\ \A b \in Admins \ {a} : ~Editing(b)
      /\ ~Edits(q) => ~raced /\ promised' = promised
  BY DEF Begin, NotesRace, Editing
<1>2. settings' = settings
  BY DEF Begin
<1>3. \A b \in Admins \ {a} : handler'[b] = handler[b]
  BY DEF Begin, TypeOK
<1>4. handler'[a].request = q /\ handler'[a].row = view[n].settings
  BY DEF Begin, TypeOK
<1>5. \A b \in Admins \ {a} : Editing(b)' <=> Editing(b)
  BY <1>3 DEF Editing, At, Edits
<1>6. Editing(a)' => Edits(q)
  BY <1>4 DEF Editing, Edits
<1> QED
  BY <1>1, <1>2, <1>3, <1>4, <1>5, <1>6 DEF RaceInv

-----------------------------------------------------------------------------
(* SubmitSettings: a row is written                                        *)

LEMMA AnswerStep ==
    ASSUME TypeOK, NEW a \in Admins, Answer(a)
    PROVE  HandlerStep
<1>1. Idle \in Handlers /\ Idle.pc # "submit" /\ Sound(Idle.row)
  BY BlankType, BlankSound DEF Idle
<1> QED
  BY <1>1 DEF Answer, HandlerStep, TypeOK

\* The session that follows a bootstrap is created with the same request.
LEMMA SessionStep ==
    ASSUME TypeOK, RowsInv, NEW a \in Admins, At(a, "submit"),
           handler' = [handler EXCEPT ![a].pc = "session"]
    PROVE  HandlerStep
<1>1. handler[a] \in [pc : {"submit", "session"}, at : Nodes,
                      request : RequestStates, row : SettingsRows]
  BY DEF TypeOK, Handlers, Idle, At
<1>2. [handler[a] EXCEPT !.pc = "session"] \in Handlers
  BY <1>1 DEF Handlers
<1>3. handler'[a].pc = "session" /\ handler'[a].row = handler[a].row
  BY <1>1 DEF TypeOK
<1>4. \A b \in Admins \ {a} : handler'[b] = handler[b]
  BY DEF TypeOK
<1>5. handler' \in [Admins -> Handlers]
  BY <1>2 DEF TypeOK
<1> QED
  BY <1>3, <1>4, <1>5 DEF HandlerStep, RowsInv

\* What the committed edits make of a row is a row.
LEMMA PromisesType ==
    ASSUME promised \in SettingsRows, NEW q \in RequestStates, Edits(q), Promises(q)
    PROVE  promised' \in SettingsRows
<1>1. CASE q.op \in {"bootstrap", "password"}
  <2>1. q.password \in Passwords
    BY <1>1 DEF RequestStates
  <2> QED
    BY <1>1, <2>1 DEF Promises, SettingsRows
<1>2. CASE q.op = "reset"
  <2>1. q.channel \in Channels
    BY <1>2 DEF RequestStates
  <2> QED
    BY <1>2, <2>1, BlankType DEF Promises, SettingsRows
<1>3. CASE q.op = "put"
  <2>1. q.channel \in Channels
    BY <1>3 DEF RequestStates
  <2>2. ApplyChannelRequest(promised.channels[q.channel], q) \in ChannelStates
    BY <1>3, <2>1, ChannelType DEF SettingsRows
  <2>3. promised' = [promised EXCEPT !.channels[q.channel] =
                         ApplyChannelRequest(promised.channels[q.channel], q)]
    BY <1>3, <2>1 DEF Promises, SettingsRows, ApplyChannelRequest
  <2> QED
    BY <2>1, <2>2, <2>3 DEF SettingsRows
<1> QED
  BY <1>1, <1>2, <1>3 DEF Edits

\* A handler that holds the row as promised writes what it promises.
LEMMA WritesPromised ==
    ASSUME promised \in SettingsRows, NEW q \in RequestStates, NEW n \in Nodes,
           Edits(q), Sound(promised), Checked(n, promised, q), Promises(q)
    PROVE  promised' = Updated(promised, q)
<1>1. CASE q.op = "bootstrap"
  <2>1. promised = NoSettings
    BY <1>1 DEF Sound, Checked
  <2> QED
    BY <1>1, <2>1 DEF Promises, Updated
<1>2. CASE q.op = "password"
  BY <1>2 DEF Promises, Updated
<1>3. CASE q.op = "reset"
  BY <1>3 DEF Promises, Updated
<1>4. CASE q.op = "put"
  <2>1. q.channel \in Channels
    BY <1>4 DEF RequestStates
  <2> QED
    BY <1>4, <2>1 DEF Promises, Updated, SettingsRows, ApplyChannelRequest
<1> QED
  BY <1>1, <1>2, <1>3, <1>4 DEF Edits

\* The row of a handler is written: whatever its caller is told.
WritesRow(a) ==
    /\ At(a, "submit") /\ Edits(handler[a].request)
    /\ settings' = Updated(handler[a].row, handler[a].request)
    /\ Promises(handler[a].request)
    /\ Succeeds(handler[a].at) \/ FailsCommitted(handler[a].at)
    /\ \/ handler' = [handler EXCEPT ![a].pc = "session"]
       \/ Answer(a)
    /\ UNCHANGED <<sessions, cookie, asked, raced>>

LEMMA SubmitCases ==
    ASSUME TypeOK, NEW a \in Admins, SubmitSettings(a)
    PROVE  \/ WritesRow(a)
           \/ Fails(handler[a].at) /\ Answer(a) /\ UNCHANGED <<promised, cookie, asked, raced>>
<1>1. /\ At(a, "submit") /\ Edits(handler[a].request)
      /\ UNCHANGED <<cookie, asked, raced>>
  BY DEF SubmitSettings
<1>2. CASE Fails(handler[a].at) /\ Answer(a) /\ UNCHANGED promised
  BY <1>1, <1>2
<1>3. CASE /\ settings' = Updated(handler[a].row, handler[a].request)
           /\ UNCHANGED sessions
           /\ Promises(handler[a].request)
           /\ \/ /\ Succeeds(handler[a].at)
                 /\ \/ handler' = [handler EXCEPT ![a].pc = "session"]
                    \/ Answer(a)
              \/ FailsCommitted(handler[a].at) /\ Answer(a)
  BY <1>1, <1>3 DEF WritesRow
<1> QED
  BY <1>2, <1>3 DEF SubmitSettings

LEMMA WritesRowInv ==
    ASSUME IInv, NEW a \in Admins, WritesRow(a)
    PROVE  IInv'
<1> DEFINE h == handler[a]
<1>1. /\ h.at \in Nodes /\ h.request \in RequestStates /\ h.row \in SettingsRows
      /\ At(a, "submit") /\ Edits(h.request)
      /\ settings' = Updated(h.row, h.request)
  BY HandlerType DEF IInv, WritesRow, At
<1>2. Sound(h.row) /\ Checked(h.at, h.row, h.request)
  BY <1>1 DEF IInv, RowsInv, CheckedInv
<1>3. settings' \in SettingsRows
  BY <1>1, UpdatedType
<1>4. Sound(settings')
  BY <1>1, <1>2, UpdatedSound
<1>5. HandlerStep
  BY <1>1, AnswerStep, SessionStep DEF IInv, WritesRow
<1>6. handler'[a].pc # "submit"
  BY <1>1 DEF IInv, TypeOK, WritesRow, Answer, Idle, Handlers, At
<1>7. sessions' = sessions /\ sessions' \subseteq Admins
  BY DEF WritesRow, IInv, TypeOK
<1>8. LeadershipTypeOK' /\ ViewStep
  BY <1>1, <1>3, <1>7, CommittedStep DEF WritesRow, IInv
<1>9. TypeOK'
  <2>1. promised' \in SettingsRows
    BY <1>1, PromisesType DEF IInv, TypeOK, WritesRow
  <2>2. UNCHANGED <<cookie, asked, raced>>
    BY DEF WritesRow
  <2>3. handler' \in [Admins -> Handlers] /\ view' \in [Nodes -> Views]
    BY <1>5, <1>8 DEF HandlerStep, ViewStep
  <2> QED
    BY <1>3, <1>7, <1>8, <2>1, <2>2, <2>3 DEF IInv, TypeOK
<1>10. RowsInv'
  <2>1. /\ \A n \in Nodes : Sound(view'[n].settings)
        /\ \A b \in Admins : Sound(handler'[b].row)
    BY <1>4, <1>5, <1>8, ViewsSound, HandlersSound DEF IInv
  <2> QED
    BY <1>4, <2>1 DEF RowsInv, Sound, CanSend, SecretConfigured
<1>11. CheckedInv'
  BY <1>5, HandlersChecked DEF IInv
<1>12. RaceInv'
  <2> SUFFICES ASSUME ~raced
               PROVE  /\ settings' = promised'
                      /\ \A b \in Admins : ~Editing(b)'
    BY DEF RaceInv, WritesRow
  <2>1. Editing(a)
    BY <1>1 DEF Editing
  <2>2. h.row = promised
    BY <2>1 DEF IInv, RaceInv
  <2>3. promised' = Updated(promised, h.request)
    BY <1>1, <1>2, <2>2, WritesPromised DEF WritesRow
  <2>4. ~Editing(a)'
    BY <1>6 DEF Editing, At
  <2>5. \A b \in Admins : Editing(b)' => b = a
    BY <1>5, <2>1, StillEditing DEF IInv, RaceInv
  <2> QED
    BY <1>1, <2>2, <2>3, <2>4, <2>5
<1> QED
  BY <1>9, <1>10, <1>11, <1>12 DEF IInv

-----------------------------------------------------------------------------
(* The other steps                                                         *)

LEMMA QuietInv ==
    ASSUME IInv, TypeOK', ViewStep, HandlerStep, UNCHANGED <<settings, promised, raced>>
    PROVE  IInv'
BY QuietStep DEF IInv

LEMMA SubmitInv ==
    ASSUME IInv, NEW a \in Admins, SubmitSettings(a)
    PROVE  IInv'
<1>1. CASE WritesRow(a)
  BY <1>1, WritesRowInv
<1>2. CASE Fails(handler[a].at) /\ Answer(a) /\ UNCHANGED <<promised, cookie, asked, raced>>
  <2>1. TypeOK /\ handler[a].at \in Nodes
    BY HandlerType DEF IInv, SubmitSettings, At
  <2>2. LeadershipTypeOK' /\ ViewStep /\ UNCHANGED <<settings, sessions, view>>
    BY <1>2, <2>1, FailsStep
  <2>3. HandlerStep
    BY <1>2, <2>1, AnswerStep
  <2>4. TypeOK'
    BY <1>2, <2>1, <2>2, <2>3 DEF TypeOK, HandlerStep
  <2> QED
    BY <1>2, <2>2, <2>3, <2>4, QuietInv
<1> QED
  BY <1>1, <1>2, SubmitCases DEF IInv

\* Sessions come and go, the settings do not.
LEMMA SessionInv ==
    ASSUME IInv, NEW a \in Admins, CreateSession(a) \/ DeleteSession(a)
    PROVE  IInv'
<1> DEFINE n == handler[a].at
<1>1. TypeOK /\ n \in Nodes
  BY HandlerType DEF IInv, CreateSession, DeleteSession, At
<1>2. /\ Answer(a)
      /\ UNCHANGED <<asked, promised, raced>>
      /\ cookie' \subseteq Admins
  BY <1>1 DEF CreateSession, DeleteSession, TypeOK
<1>3. HandlerStep
  BY <1>1, <1>2, AnswerStep
<1>4. /\ LeadershipTypeOK' /\ ViewStep
      /\ settings' = settings /\ sessions' \subseteq Admins
  <2>1. CASE Fails(n)
    BY <1>1, <2>1, FailsStep DEF TypeOK
  <2>2. CASE /\ sessions' \in {sessions \cup {a}, sessions \ {a}}
             /\ UNCHANGED settings
             /\ Succeeds(n) \/ FailsCommitted(n)
    <3>1. settings' \in SettingsRows /\ sessions' \subseteq Admins
      BY <1>1, <2>2 DEF TypeOK
    <3> QED
      BY <1>1, <2>2, <3>1, CommittedStep
  <2> QED
    BY <2>1, <2>2 DEF CreateSession, DeleteSession
<1>5. TypeOK'
  BY <1>1, <1>2, <1>3, <1>4 DEF TypeOK, HandlerStep, ViewStep
<1> QED
  BY <1>2, <1>3, <1>4, <1>5, QuietInv

LEMMA ExpireInv ==
    ASSUME IInv, NEW a \in Admins, ExpireSession(a)
    PROVE  IInv'
<1>1. TypeOK /\ UNCHANGED <<leadershipVars, settings, handler, asked, promised, raced>>
  BY DEF IInv, ExpireSession
<1>2. \A n \in Nodes : [view[n] EXCEPT !.sessions = @ \ {a}] \in Views
  BY <1>1 DEF TypeOK, Views
<1>3. ViewStep
  BY <1>1, <1>2 DEF ExpireSession, ViewStep, TypeOK, Views
<1>4. HandlerStep
  BY <1>1 DEF HandlerStep, TypeOK
<1>5. TypeOK'
  <2>1. LeadershipTypeOK'
    BY <1>1, LeadershipStays DEF TypeOK
  <2> QED
    BY <1>1, <1>3, <2>1 DEF TypeOK, ExpireSession, ViewStep
<1> QED
  BY <1>1, <1>3, <1>4, <1>5, QuietInv

LEMMA CatchUpInv ==
    ASSUME IInv, NEW n \in Nodes, CatchUp(n)
    PROVE  IInv'
<1>1. /\ TypeOK
      /\ UNCHANGED <<leadershipVars, settings, sessions, handler, cookie, asked,
                     promised, raced>>
  BY DEF IInv, CatchUp
<1>2. [settings |-> settings, sessions |-> sessions] \in Views
  BY <1>1 DEF TypeOK, Views
<1>3. ViewStep
  BY <1>1, <1>2 DEF CatchUp, ViewStep, TypeOK
<1>4. HandlerStep
  BY <1>1 DEF HandlerStep, TypeOK
<1>5. TypeOK'
  <2>1. LeadershipTypeOK'
    BY <1>1, LeadershipStays DEF TypeOK
  <2> QED
    BY <1>1, <1>3, <2>1 DEF TypeOK, ViewStep
<1> QED
  BY <1>1, <1>3, <1>4, <1>5, QuietInv

LEMMA CrashInv ==
    ASSUME IInv, NEW n \in Nodes, Crash(n)
    PROVE  IInv'
<1>1. TypeOK /\ UNCHANGED <<settings, sessions, cookie, asked, promised, raced>>
  BY DEF IInv, Crash
<1>2. ViewStep
  <2>1. Blank \in Views /\ Blank.settings = NoSettings
    BY BlankType DEF Blank
  <2>2. view \in [Nodes -> Views]
    BY <1>1 DEF TypeOK
  <2>3. CASE view' = view
    BY <2>2, <2>3 DEF ViewStep
  <2>4. CASE view' = [view EXCEPT ![n] = Blank]
    BY <2>1, <2>2, <2>4 DEF ViewStep
  <2> QED
    BY <2>3, <2>4 DEF Crash
<1>3. HandlerStep
  <2>1. Idle \in Handlers /\ Idle.pc # "submit" /\ Sound(Idle.row)
    BY BlankType, BlankSound DEF Idle
  <2> QED
    BY <1>1, <2>1 DEF Crash, HandlerStep, TypeOK
<1>4. TypeOK'
  <2>1. LeadershipTypeOK'
    BY <1>1 DEF TypeOK, Crash, Restart, LeadershipTypeOK
  <2> QED
    BY <1>1, <1>2, <1>3, <2>1 DEF TypeOK, ViewStep, HandlerStep
<1> QED
  BY <1>1, <1>2, <1>3, <1>4, QuietInv

LEMMA LeadershipInv ==
    ASSUME IInv, NEW n \in Nodes, ElectLeader(n) \/ HearLeadership(n)
    PROVE  IInv'
<1>1. TypeOK /\ UNCHANGED adminVars
  BY DEF IInv, ElectLeader, HearLeadership
<1>2. LeadershipTypeOK'
  <2>1. CASE ElectLeader(n)
    BY <1>1, <2>1 DEF ElectLeader, Elect, LeadershipMayMove, TypeOK, LeadershipTypeOK
  <2>2. CASE HearLeadership(n)
    BY <1>1, <2>2 DEF HearLeadership, WatchLeadership, TypeOK, LeadershipTypeOK
  <2> QED
    BY <2>1, <2>2
<1>3. TypeOK' /\ ViewStep /\ HandlerStep
  BY <1>1, <1>2 DEF adminVars, TypeOK, ViewStep, HandlerStep
<1> QED
  BY <1>1, <1>3, QuietInv DEF adminVars

-----------------------------------------------------------------------------
(* Theorems                                                                *)

\* The invariant is inductive: every row that is stored, replicated or held by
\* a handler is sound, a handler has checked what it is about to submit, and
\* without a race it holds the last row and holds it alone.
THEOREM AdminInvariant == Spec => []IInv
<1>1. Init => IInv
  <2> SUFFICES ASSUME Init
               PROVE  IInv
    OBVIOUS
  <2>1. TypeOK
    <3>1. LeadershipTypeOK
      BY DEF Init, LeadershipInit, LeadershipTypeOK
    <3>2. raced \in BOOLEAN
      BY DEF Init
    <3>3. asked \in 0..MaxRequests
      BY DEF Init
    <3> QED
      BY <3>1, <3>2, <3>3, BlankType DEF Init, TypeOK
  <2>2. RowsInv
    BY BlankSound DEF Init, RowsInv, Blank, Idle
  <2>3. \A a \in Admins : ~At(a, "submit")
    BY DEF Init, At, Idle
  <2>4. CheckedInv /\ RaceInv
    BY <2>3 DEF Init, CheckedInv, RaceInv, Editing
  <2> QED
    BY <2>1, <2>2, <2>4 DEF IInv
<1>2. IInv /\ [Next]_vars => IInv'
  <2> SUFFICES ASSUME IInv, [Next]_vars
               PROVE  IInv'
    OBVIOUS
  <2>1. ASSUME NEW a \in Admins, NEW n \in Nodes, NEW q \in Requests, Begin(a, n, q)
        PROVE  IInv'
    BY <2>1, BeginTypeOK, BeginRows, BeginChecked, BeginRace DEF IInv
  <2>2. ASSUME NEW a \in Admins, SubmitSettings(a)
        PROVE  IInv'
    BY <2>2, SubmitInv
  <2>3. ASSUME NEW a \in Admins, CreateSession(a) \/ DeleteSession(a)
        PROVE  IInv'
    BY <2>3, SessionInv
  <2>4. ASSUME NEW a \in Admins, ExpireSession(a)
        PROVE  IInv'
    BY <2>4, ExpireInv
  <2>5. ASSUME NEW n \in Nodes, CatchUp(n)
        PROVE  IInv'
    BY <2>5, CatchUpInv
  <2>6. ASSUME NEW n \in Nodes, Crash(n)
        PROVE  IInv'
    BY <2>6, CrashInv
  <2>7. ASSUME NEW n \in Nodes, ElectLeader(n) \/ HearLeadership(n)
        PROVE  IInv'
    BY <2>7, LeadershipInv
  <2>8. CASE UNCHANGED vars
    <3>1. TypeOK /\ UNCHANGED adminVars /\ UNCHANGED leadershipVars
      BY <2>8 DEF vars, IInv
    <3>2. LeadershipTypeOK'
      BY <3>1, LeadershipStays DEF TypeOK
    <3>3. TypeOK' /\ ViewStep /\ HandlerStep
      BY <3>1, <3>2 DEF adminVars, TypeOK, ViewStep, HandlerStep
    <3> QED
      BY <3>1, <3>3, QuietInv DEF adminVars
  <2> QED
    BY <2>1, <2>2, <2>3, <2>4, <2>5, <2>6, <2>7, <2>8 DEF Next
<1> QED
  BY <1>1, <1>2, PTL DEF Spec

\* Rows, replicas, handlers and cookies are of their types.
THEOREM AdminTypes == Spec => []TypeOK
<1>1. IInv => TypeOK
  BY DEF IInv
<1> QED
  BY <1>1, AdminInvariant, PTL

\* No order of edits, at whichever nodes and replicas, through whichever leaders
\* and crashes, makes an enabled channel of which a part is missing.
THEOREM EnabledChannelsCanSend == Spec => []EnabledIsComplete
<1>1. IInv => EnabledIsComplete
  BY DEF IInv, RowsInv, Sound, CanSend, EnabledIsComplete
<1> QED
  BY <1>1, AdminInvariant, PTL

\* As long as handlers do not race, and again from the first edit on that begins
\* on its own after a race, the row is what the committed edits make of it one
\* after another, also when a leader fails on the way.
THEOREM NoEditIsLost == Spec => []EditsSurvive
<1>1. IInv => EditsSurvive
  BY DEF IInv, RaceInv, EditsSurvive
<1> QED
  BY <1>1, AdminInvariant, PTL

\* Only a handler that writes a row changes the settings.
LEMMA OnlyWritesChange ==
    ASSUME IInv, [Next]_vars, settings' # settings
    PROVE  \E a \in Admins : WritesRow(a)
<1>1. ASSUME NEW a \in Admins, SubmitSettings(a)
      PROVE  WritesRow(a)
  BY <1>1, SubmitCases DEF IInv, Fails
<1>2. ASSUME NEW a \in Admins, NEW n \in Nodes, NEW q \in Requests, Begin(a, n, q)
      PROVE  FALSE
  BY <1>2 DEF Begin
<1>3. ASSUME NEW a \in Admins, ExpireSession(a) \/ CreateSession(a) \/ DeleteSession(a)
      PROVE  FALSE
  BY <1>3 DEF ExpireSession, CreateSession, DeleteSession, Fails
<1>4. ASSUME NEW n \in Nodes,
             CatchUp(n) \/ Crash(n) \/ ElectLeader(n) \/ HearLeadership(n)
      PROVE  FALSE
  BY <1>4 DEF CatchUp, Crash, ElectLeader, HearLeadership, adminVars
<1>5. Next
  BY DEF vars, adminVars
<1> QED
  BY <1>1, <1>2, <1>3, <1>4, <1>5 DEF Next

\* Without a race a password is only replaced by somebody who gave it: the row
\* that a bootstrap replaces has none, and the channel edits keep it.
THEOREM PasswordIsGiven == Spec => TakeoverNeedsPassword
<1>1. ASSUME IInv, [Next]_vars, ~raced, settings.password # None,
             settings'.password # settings.password
      PROVE  \E a \in Admins :
                 /\ handler[a].request.op = "password"
                 /\ handler[a].request.current = settings.password
  <2>1. PICK a \in Admins : WritesRow(a)
    BY <1>1, OnlyWritesChange
  <2> DEFINE q == handler[a].request
  <2>2. Editing(a)
    BY <2>1 DEF WritesRow, Editing
  <2>3. handler[a].row = settings
    BY <1>1, <2>2 DEF IInv, RaceInv
  <2>4. Checked(handler[a].at, settings, q)
    BY <1>1, <2>2, <2>3 DEF IInv, CheckedInv, Editing
  <2>5. settings' = Updated(settings, q) /\ settings \in SettingsRows
    BY <1>1, <2>1, <2>3 DEF WritesRow, IInv, TypeOK
  <2>6. q.op \notin {"bootstrap", "put", "reset"}
    BY <1>1, <2>4, <2>5 DEF Checked, Updated, SettingsRows
  <2>7. q.op = "password"
    BY <2>2, <2>6 DEF Editing, Edits
  <2> QED
    BY <2>4, <2>7 DEF Checked
<1> QED
  BY <1>1, AdminInvariant, PTL DEF Spec, TakeoverNeedsPassword

=============================================================================

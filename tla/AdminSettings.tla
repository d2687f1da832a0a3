---------------------------- MODULE AdminSettings ----------------------------
(***************************************************************************)
(* The administrator: bootstrap, login and logout, the password and the    *)
(* alert channels.  Password and channels are one row of one table, and    *)
(* every change of them reads that row from the replica of the node that   *)
(* serves the request, changes a part of it and submits the whole row to   *)
(* the leader.  Nothing compares the row with the one it replaces.         *)
(*                                                                         *)
(* A password stands for its hash.  Of a channel we keep whether it is     *)
(* taken over from the file, enabled, what its other fields are (None:     *)
(* one that is required is missing) and whether a secret is stored.  A     *)
(* session is called after the administrator who opened it: logging in     *)
(* again is the same session.                                              *)
(***************************************************************************)
EXTENDS Leadership

CONSTANTS
    Admins,         \* browsers, each with one request at a time
    Passwords,
    Channels,
    NeedsSecret,    \* the channels that do not work without a secret
    Fields,         \* complete sets of a channel's other fields
    EnvSecret,      \* the secrets in the environment of each node
    Requests,       \* what administrators ask for
    MaxRequests     \* bound: requests in a behaviour

\* Until it is taken over, and again after a reset, nothing is stored of it.
Unmanaged == [managed |-> FALSE, enabled |-> FALSE, fields |-> None, secret |-> FALSE]

ChannelStates ==
    [managed : {TRUE}, enabled : BOOLEAN, fields : Fields \cup {None},
     secret : BOOLEAN] \cup {Unmanaged}

\* The row of admin_settings; without a password there is none.
SettingsRows ==
    [password : Passwords \cup {None}, channels : [Channels -> ChannelStates]]

NoSettings == [password |-> None, channels |-> [c \in Channels |-> Unmanaged]]

RequestStates ==
    [op : {"bootstrap", "login"}, password : Passwords]
    \cup [op : {"logout"}]
    \cup [op : {"password"}, current : Passwords, password : Passwords]
    \cup [op : {"put"}, channel : Channels, enabled : BOOLEAN,
          fields : Fields \cup {None}, secret : BOOLEAN]
    \cup [op : {"reset"}, channel : Channels]

NoRequest == [op |-> "none"]

ASSUME NonesAssumption == None \notin Passwords /\ None \notin Fields
ASSUME RequestsAssumption == Requests \subseteq RequestStates
ASSUME SecretsAssumption ==
    NeedsSecret \subseteq Channels /\ EnvSecret \in [Nodes -> SUBSET Channels]
ASSUME MaxRequestsAssumption == MaxRequests \in Nat

VARIABLES
    settings,   \* the row as of the last committed command
    sessions,   \* the admin_sessions rows as of then
    view,       \* both as each node has them
    handler,    \* the request of each administrator that is being handled
    cookie,     \* who holds a session cookie
    asked,      \* bound: requests so far
    promised,   \* history: what the committed requests, one after another,
                \* make of the settings, as they were after the last race
    raced       \* history: a handler read a row that was not the last one, or
                \* while another one was about to write, and no handler has
                \* begun on its own since

adminVars == <<settings, sessions, view, handler, cookie, asked, promised, raced>>
vars == <<leadershipVars, adminVars>>

Views == [settings : SettingsRows, sessions : SUBSET Admins]

Idle == [pc |-> "idle", at |-> None, request |-> NoRequest, row |-> NoSettings]

Handlers ==
    [pc : {"submit", "session"}, at : Nodes, request : RequestStates,
     row : SettingsRows] \cup {Idle}

TypeOK ==
    /\ LeadershipTypeOK
    /\ settings \in SettingsRows
    /\ sessions \subseteq Admins
    /\ view \in [Nodes -> Views]
    /\ handler \in [Admins -> Handlers]
    /\ cookie \subseteq Admins
    /\ asked \in 0..MaxRequests
    /\ promised \in SettingsRows
    /\ raced \in BOOLEAN

Blank == [settings |-> NoSettings, sessions |-> {}]

Init ==
    /\ LeadershipInit
    /\ settings = NoSettings
    /\ sessions = {}
    /\ view = [n \in Nodes |-> Blank]
    /\ handler = [a \in Admins |-> Idle]
    /\ cookie = {}
    /\ asked = 0
    /\ promised = NoSettings
    /\ raced = FALSE

-----------------------------------------------------------------------------
(* Submitter.Apply: here if this node takes itself for the leader, and else *)
(* in one request to the node it takes for the leader, without a retry.     *)

Serves(n, l) == isLeader[n] => l = n

\* Every node has the new rows at once or later; l, which answers, at once.
Replicates(first) ==
    \E behind \in SUBSET (Nodes \ first) :
        view' = [n \in Nodes |-> IF n \in behind THEN view[n]
                                 ELSE [settings |-> settings', sessions |-> sessions']]

Succeeds(n) == \E l \in Nodes : Serves(n, l) /\ Committed(l) /\ Replicates({l})

\* No leader is known, the request does not arrive, or the leader refuses.
Fails(n) ==
    /\ \/ IF isLeader[n] THEN Refused(n) ELSE UNCHANGED leadershipVars
       \/ \E l \in Nodes : Serves(n, l) /\ Deposed(l)
    /\ UNCHANGED <<settings, sessions, view>>

\* The command is committed and the handler sees an error all the same: its
\* leader was deposed, or the answer came too late.
FailsCommitted(n) ==
    \/ \E l \in Nodes : Serves(n, l) /\ Deposed(l) /\ Replicates({})
    \/ ~isLeader[n] /\ \E l \in Nodes : Committed(l) /\ Replicates({l})

-----------------------------------------------------------------------------
(* Changes of the row                                                      *)

\* Mutant: the channel is not marked as taken over.
ApplyChannelRequestUnmarked(old, q) ==
    [old EXCEPT !.enabled = q.enabled, !.fields = q.fields,
                !.secret = q.secret \/ old.secret]

\* applyAlertChannelRequest: an empty secret keeps the one that is stored.
ApplyChannelRequest(old, q) ==
    [managed |-> TRUE, enabled |-> q.enabled, fields |-> q.fields,
     secret |-> q.secret \/ old.secret]

\* Mutant: a new password starts from an empty row.
UpdatedFromScratch(row, q) ==
    CASE q.op \in {"bootstrap", "password"} -> [NoSettings EXCEPT !.password = q.password]
      [] q.op = "put" ->
           [row EXCEPT !.channels[q.channel] = ApplyChannelRequest(@, q)]
      [] q.op = "reset" -> [row EXCEPT !.channels[q.channel] = Unmanaged]

\* The row that a handler submits.
Updated(row, q) ==
    CASE q.op = "bootstrap" -> [NoSettings EXCEPT !.password = q.password]
      [] q.op = "password" -> [row EXCEPT !.password = q.password]
      [] q.op = "put" ->
           [row EXCEPT !.channels[q.channel] = ApplyChannelRequest(@, q)]
      [] q.op = "reset" -> [row EXCEPT !.channels[q.channel] = Unmanaged]

\* TelegramTokenConfigured: the environment is that of the node at work.
SecretConfigured(n, c, state) == state.secret \/ c \in EnvSecret[n]

\* Mutant: what is stored is validated instead of what will be.
ValidChannelAsStored(n, row, q) ==
    LET state == row.channels[q.channel]
    IN  state.enabled =>
            /\ state.fields # None
            /\ q.channel \in NeedsSecret => SecretConfigured(n, q.channel, state)

\* validateEffectiveAlertChannel on the row as it will be.
ValidChannel(n, row, q) ==
    LET state == Updated(row, q).channels[q.channel]
    IN  state.enabled =>
            /\ state.fields # None
            /\ q.channel \in NeedsSecret => SecretConfigured(n, q.channel, state)

-----------------------------------------------------------------------------
(* The handlers                                                            *)

At(a, step) == handler[a].pc = step

Answer(a) == handler' = [handler EXCEPT ![a] = Idle]

Edits(q) == q.op \in {"bootstrap", "password", "put", "reset"}

\* requireAdminSession looks the cookie up in the replica of this node.
SignedIn(a, n) == a \in cookie /\ a \in view[n].sessions

\* Mutant: that there is an administrator is not looked up.
AcceptedAnyBootstrap(a, n, q) ==
    LET row == view[n].settings
    IN  \/ q.op = "bootstrap"
        \/ q.op = "login" /\ row.password = q.password
        \/ q.op = "logout" /\ a \in cookie
        \/ q.op = "password" /\ SignedIn(a, n) /\ row.password = q.current
        \/ q.op = "put" /\ SignedIn(a, n) /\ row.password # None /\ ValidChannel(n, row, q)
        \/ q.op = "reset" /\ SignedIn(a, n) /\ row.password # None

\* What the handlers check before they submit anything.
Accepted(a, n, q) ==
    LET row == view[n].settings
    IN  \/ q.op = "bootstrap" /\ row.password = None
        \/ q.op = "login" /\ row.password = q.password
        \/ q.op = "logout" /\ a \in cookie
        \/ q.op = "password" /\ SignedIn(a, n) /\ row.password = q.current
        \/ q.op = "put" /\ SignedIn(a, n) /\ row.password # None /\ ValidChannel(n, row, q)
        \/ q.op = "reset" /\ SignedIn(a, n) /\ row.password # None

\* An edit that begins on its own, on the last row, builds on what a race before
\* it has made of the settings.
NotesRace(a, n, q) ==
    LET alone == /\ view[n].settings = settings
                 /\ \A b \in Admins \ {a} :
                        ~(At(b, "submit") /\ Edits(handler[b].request))
    IN  \/ ~Edits(q) /\ UNCHANGED <<promised, raced>>
        \/ Edits(q) /\ alone /\ raced' = FALSE /\ promised' = settings
        \/ Edits(q) /\ ~alone /\ raced' = TRUE /\ UNCHANGED promised

\* A request that is accepted at n; one that is not changes nothing.
Begin(a, n, q) ==
    /\ At(a, "idle")
    /\ asked < MaxRequests
    /\ Accepted(a, n, q)
    /\ asked' = asked + 1
    /\ handler' = [handler EXCEPT ![a] =
           [pc |-> IF q.op = "login" THEN "session" ELSE "submit",
            at |-> n, request |-> q, row |-> view[n].settings]]
    /\ NotesRace(a, n, q)
    /\ UNCHANGED <<leadershipVars, settings, sessions, view, cookie>>

\* One edit after another, each on what the one before has left.
Promises(q) ==
    promised' =
        CASE q.op \in {"bootstrap", "password"} -> [promised EXCEPT !.password = q.password]
          [] q.op = "reset" -> [promised EXCEPT !.channels[q.channel] = Unmanaged]
          [] q.op = "put" -> [promised EXCEPT !.channels[q.channel] =
                 [managed |-> TRUE, enabled |-> q.enabled, fields |-> q.fields,
                  secret |-> q.secret \/ @.secret]]

\* The row is submitted.  After a bootstrap a session is next.
SubmitSettings(a) ==
    LET h == handler[a]
    IN  /\ At(a, "submit") /\ Edits(h.request)
        /\ \/ /\ settings' = Updated(h.row, h.request)
              /\ UNCHANGED sessions
              /\ Promises(h.request)
              /\ \/ /\ Succeeds(h.at)
                    /\ IF h.request.op = "bootstrap"
                       THEN handler' = [handler EXCEPT ![a].pc = "session"]
                       ELSE Answer(a)
                 \/ FailsCommitted(h.at) /\ Answer(a)
           \/ Fails(h.at) /\ Answer(a) /\ UNCHANGED promised
        /\ UNCHANGED <<cookie, asked, raced>>

\* createAdminSession; the cookie is only set when it has succeeded.
CreateSession(a) ==
    LET n == handler[a].at
    IN  /\ At(a, "session")
        /\ \/ /\ sessions' = sessions \cup {a}
              /\ UNCHANGED settings
              /\ \/ Succeeds(n) /\ cookie' = cookie \cup {a}
                 \/ FailsCommitted(n) /\ UNCHANGED cookie
           \/ Fails(n) /\ UNCHANGED cookie
        /\ Answer(a)
        /\ UNCHANGED <<asked, promised, raced>>

\* Logging out clears the cookie whatever became of the session.
DeleteSession(a) ==
    LET n == handler[a].at
    IN  /\ At(a, "submit") /\ handler[a].request.op = "logout"
        /\ \/ /\ sessions' = sessions \ {a}
              /\ UNCHANGED settings
              /\ Succeeds(n) \/ FailsCommitted(n)
           \/ Fails(n)
        /\ cookie' = cookie \ {a}
        /\ Answer(a)
        /\ UNCHANGED <<asked, promised, raced>>

-----------------------------------------------------------------------------
(* The surroundings                                                        *)

\* 24 hours have passed: no node accepts the session any more.
ExpireSession(a) ==
    /\ a \in sessions
    /\ sessions' = sessions \ {a}
    /\ view' = [n \in Nodes |-> [view[n] EXCEPT !.sessions = @ \ {a}]]
    /\ cookie' = cookie \ {a}
    /\ UNCHANGED <<leadershipVars, settings, handler, asked, promised, raced>>

CatchUp(n) ==
    /\ view[n] # [settings |-> settings, sessions |-> sessions]
    /\ view' = [view EXCEPT ![n] = [settings |-> settings, sessions |-> sessions]]
    /\ UNCHANGED <<leadershipVars, settings, sessions, handler, cookie, asked,
                   promised, raced>>

\* The handlers of n are gone, and its replica may be that of an old snapshot.
Crash(n) ==
    /\ Restart(n)
    /\ handler' = [a \in Admins |-> IF handler[a].at = n THEN Idle ELSE handler[a]]
    /\ view' \in {view, [view EXCEPT ![n] = Blank]}
    /\ UNCHANGED <<settings, sessions, cookie, asked, promised, raced>>

ElectLeader(n) == Elect(n) /\ UNCHANGED adminVars

HearLeadership(n) == WatchLeadership(n) /\ UNCHANGED adminVars

Next ==
    \/ \E a \in Admins :
           \/ \E n \in Nodes, q \in Requests : Begin(a, n, q)
           \/ SubmitSettings(a)
           \/ CreateSession(a)
           \/ DeleteSession(a)
           \/ ExpireSession(a)
    \/ \E n \in Nodes :
           CatchUp(n) \/ Crash(n) \/ ElectLeader(n) \/ HearLeadership(n)

Spec == Init /\ [][Next]_vars

-----------------------------------------------------------------------------
(* Properties                                                              *)

\* No edit is lost or done twice, whatever was answered to whom and by which
\* leader: the row is what the committed edits make of it, one after another.
\* Excepted is a race, in which a handler reads an old row or works next to
\* another one, and overwrites it; it ends with the next edit on its own, and
\* nothing of it comes back later.
EditsSurvive == ~raced => settings = promised

\* A channel that is enabled can send: its fields are there, and its secret is
\* stored or was found in the environment of a node.  No two edits, at
\* whichever nodes and replicas, make an enabled channel of which a part is
\* missing, since a row is only ever written as it was validated.
EnabledIsComplete ==
    \A c \in Channels :
        settings.channels[c].enabled =>
            /\ settings.channels[c].fields # None
            /\ c \in NeedsSecret =>
                   \E n \in Nodes : SecretConfigured(n, c, settings.channels[c])

\* Unless handlers race, the password only ever changes through somebody who knows
\* it: a bootstrap does not replace an administrator.
TakeoverNeedsPassword ==
    [][ ~raced /\ settings.password # None /\ settings'.password # settings.password =>
            \E a \in Admins :
                /\ handler[a].request.op = "password"
                /\ handler[a].request.current = settings.password ]_vars

=============================================================================

------------------------------ MODULE Sessions ------------------------------
(***************************************************************************)
(* The sessions of one account: browsers whose requests the frontend       *)
(* serves, the backend's session store under them, the operator's tickets  *)
(* and the two ways to set a password.  A statement with its commit is one *)
(* step, except create_session, whose INSERT is seen by nobody else while  *)
(* its DELETE holds the rows it removes.                                   *)
(***************************************************************************)
EXTENDS Integers, FiniteSets

CONSTANTS
  Browsers,      \* browsers, with a cookie each
  Tabs,          \* requests that the frontend serves at a time
  SessionCap,    \* MAX_SESSIONS_PER_USER; 0 is no limit
  MaxSids,       \* bound: session ids that are minted
  MaxResets,     \* bound: how often the password is set
  MaxTimeouts    \* bound: POSTs and DELETEs that the frontend gets no answer to

ASSUME SessionsConstants ==
  /\ IsFiniteSet(Browsers) /\ IsFiniteSet(Tabs) /\ Browsers # {}
  /\ SessionCap \in Nat /\ MaxSids \in Nat
  /\ MaxResets \in Nat /\ MaxTimeouts \in Nat

Sids == 1..MaxSids
NoSid == 0

VARIABLES
  row,       \* the sessions row of each sid
  tickets,   \* sids that were minted for an operator
  minted,    \* how many sids were minted
  newer,     \* <<s, t>>: s has a later last_access than t
  marked,    \* rows that the create_session of each sid has deleted
  cookie,    \* the sid in each browser
  request,   \* what the frontend does for each of them
  operator,  \* the reset of the console, between its two transactions
  password,  \* which password the users row holds
  legacy,    \* whether it holds an old hash
  resets,    \* history: how often a password was set
  born,      \* history: the password behind each sid, that of its login
  raced,     \* history: sids whose login a reset overlapped
  revertible,\* history: the last reset overlapped a login that writes the hash again
  ended,     \* history: sids whose browser has signed out
  timeouts,  \* history: sids with a POST or a DELETE that got no answer
  crowded    \* history: sids that were created at the same time as another

sessionVars == <<row, tickets, minted, newer, marked, cookie, request, operator, password,
                 legacy, resets, born, raced, revertible, ended, timeouts, crowded>>

\* "sent": minted and not inserted; "hidden" and "trimmed": inserted, not committed.
RowStates == {"unused", "sent", "hidden", "trimmed", "live", "dead"}
RequestSteps == {"idle", "verified", "granted", "rotated", "posting", "open", "touched", "changing"}
Request == [step : RequestSteps,
            browser : Browsers,
            sid : Sids \cup {NoSid},    \* the cookie that it came with
            fresh : Sids \cup {NoSid},  \* the sid that a login mints
            born : 0..MaxResets,        \* the password that a login verified
            since : 0..MaxResets,       \* history: resets at that time
            old : BOOLEAN]              \* whether the hash was an old one
NoRequest == [step |-> "idle", browser |-> CHOOSE b \in Browsers : TRUE,
              sid |-> NoSid, fresh |-> NoSid, born |-> 0, since |-> 0, old |-> FALSE]

SessionsTypeOK ==
  /\ row \in [Sids -> RowStates] /\ tickets \subseteq Sids /\ minted \in 0..MaxSids
  /\ newer \subseteq Sids \X Sids /\ marked \in [Sids -> SUBSET Sids]
  /\ cookie \in [Browsers -> Sids \cup {NoSid}] /\ request \in [Tabs -> Request]
  /\ operator \in {"idle", "revoking"} /\ password \in 0..MaxResets /\ legacy \in BOOLEAN
  /\ resets \in 0..MaxResets /\ born \in [Sids -> 0..MaxResets]
  /\ raced \subseteq Sids /\ revertible \in BOOLEAN
  /\ ended \subseteq Sids /\ timeouts \subseteq Sids /\ crowded \subseteq Sids
  \* A sid is used up when it is minted, and only minted ones are given out.
  /\ \A s \in Sids : row[s] = "unused" <=> s > minted
  /\ \A b \in Browsers : cookie[b] <= minted

SessionsInit ==
  /\ row = [s \in Sids |-> "unused"] /\ tickets = {} /\ minted = 0
  /\ newer = {} /\ marked = [s \in Sids |-> {}]
  /\ cookie = [b \in Browsers |-> NoSid] /\ request = [q \in Tabs |-> NoRequest]
  /\ operator = "idle" /\ password = 0 /\ legacy = TRUE
  /\ resets = 0 /\ born = [s \in Sids |-> 0] /\ raced = {} /\ revertible = FALSE
  /\ ended = {} /\ timeouts = {} /\ crowded = {}

-----------------------------------------------------------------------------
(* Rows *)

LiveSids == {s \in Sids : row[s] = "live"}
\* No create_session holds the row.
Free(s) == \A t \in Sids : row[t] = "trimmed" => s \notin marked[t]
Used(s) ==
  {p \in newer : s # p[1] /\ s # p[2]} \cup ({s} \X (Sids \ {s}))
\* UPDATE ... WHERE id: a row that is gone stays gone.
Slides(s) == newer' = IF s \in LiveSids THEN Used(s) ELSE newer
Deletes(gone) == row' = [s \in Sids |-> IF s \in gone /\ row[s] = "live" THEN "dead" ELSE row[s]]

Goes(q, step) == request' = [request EXCEPT ![q].step = step]
Ends(q) == request' = [request EXCEPT ![q] = NoRequest]
RowsKept == UNCHANGED <<row, tickets, minted, newer, marked>>
PasswordKept == UNCHANGED <<operator, password, legacy, resets>>
HistoryKept == UNCHANGED <<born, raced, revertible, ended, timeouts, crowded>>

-----------------------------------------------------------------------------
(* create_session *)

Creating == {s \in Sids : row[s] \in {"hidden", "trimmed"}}
PostInserts(s) ==
  /\ row[s] = "sent"
  /\ row' = [row EXCEPT ![s] = "hidden"] /\ newer' = Used(s)
  /\ crowded' = crowded \cup (IF Creating = {} THEN {} ELSE Creating \cup {s})
  /\ UNCHANGED <<tickets, minted, marked, cookie, request>> /\ PasswordKept
  /\ UNCHANGED <<born, raced, revertible, ended, timeouts>>

\* What the DELETE sees: its own row and what is committed.
Seen(s) == LiveSids \cup {s}
\* Mutant: the rows of the account are counted without its own.
VictimsOthers(s) ==
  {t \in LiveSids : SessionCap > 0 /\ Cardinality({u \in LiveSids : <<u, t>> \in newer}) >= SessionCap}
\* All but the most recent of them.
Victims(s) ==
  {t \in Seen(s) : SessionCap > 0 /\ Cardinality({u \in Seen(s) : <<u, t>> \in newer}) >= SessionCap}
PostTrims(s) ==
  /\ row[s] = "hidden" /\ \A t \in Victims(s) : Free(t)
  /\ row' = [row EXCEPT ![s] = "trimmed"] /\ marked' = [marked EXCEPT ![s] = Victims(s)]
  /\ UNCHANGED <<tickets, minted, newer, cookie, request>> /\ PasswordKept /\ HistoryKept

PostCommits(s) ==
  /\ row[s] = "trimmed"
  /\ row' = [t \in Sids |-> IF t \in marked[s] THEN "dead" ELSE IF t = s THEN "live" ELSE row[t]]
  /\ marked' = [marked EXCEPT ![s] = {}]
  /\ UNCHANGED <<tickets, minted, newer, cookie, request>> /\ PasswordKept /\ HistoryKept

\* The request fails; nothing of it was committed.
PostFails(s) ==
  /\ row[s] \in {"sent", "hidden", "trimmed"}
  /\ row' = [row EXCEPT ![s] = "dead"] /\ marked' = [marked EXCEPT ![s] = {}]
  /\ UNCHANGED <<tickets, minted, newer, cookie, request>> /\ PasswordKept /\ HistoryKept

-----------------------------------------------------------------------------
(* Login *)

\* verify_user reads the row and compares with the password that is in it.
LoginReads(q, b) ==
  /\ request[q].step = "idle"
  /\ request' = [request EXCEPT ![q] =
       [step |-> "verified", browser |-> b, sid |-> cookie[b], fresh |-> NoSid,
        born |-> password, since |-> resets, old |-> legacy]]
  /\ RowsKept /\ UNCHANGED cookie /\ PasswordKept /\ HistoryKept

\* The write of last_login; an old hash is written again from the password
\* that was typed, whatever the row holds by now.
LoginGrants(q) ==
  /\ request[q].step = "verified"
  /\ request' = [request EXCEPT ![q].step = "granted", ![q].old = FALSE]
  /\ password' = IF request[q].old THEN request[q].born ELSE password
  /\ legacy' = (legacy /\ ~request[q].old)
  /\ RowsKept /\ UNCHANGED <<cookie, operator, resets>> /\ HistoryKept

\* The DELETE of a session that its browser leaves.  Its answer is not looked at:
\* when there is none the row stays, until SessionExpires, which is also what a
\* DELETE does that comes late.
Leaves(s) ==
  /\ ended' = ended \cup ({s} \cap Sids)
  /\ \/ (s # NoSid => Free(s)) /\ Deletes({s}) /\ UNCHANGED timeouts
     \/ s # NoSid /\ Cardinality(timeouts) < MaxTimeouts
        /\ timeouts' = timeouts \cup {s} /\ UNCHANGED row
  /\ UNCHANGED <<tickets, minted, newer, marked, born, raced, revertible, crowded>>

\* _rotate_session: the browser leaves the session that it had.
LoginRotates(q) ==
  /\ request[q].step = "granted" /\ Goes(q, "rotated")
  /\ Leaves(request[q].sid)
  /\ UNCHANGED cookie /\ PasswordKept

Mints(s, since) ==
  /\ s = minted + 1 /\ s \in Sids
  /\ minted' = s /\ row' = [row EXCEPT ![s] = "sent"]
  /\ born' = [born EXCEPT ![s] = since]
LoginPosts(q) ==
  /\ request[q].step = "rotated"
  /\ Mints(minted + 1, request[q].born)
  /\ request' = [request EXCEPT ![q].step = "posting", ![q].fresh = minted + 1]
  \* A reset since the login was verified does not see this sid yet.
  /\ raced' = IF request[q].since < resets /\ operator = "idle" THEN raced \cup {minted + 1} ELSE raced
  /\ UNCHANGED <<tickets, newer, marked, cookie, revertible, ended, timeouts, crowded>>
  /\ PasswordKept

\* The browser gets its cookie when the POST is answered, and also when the
\* frontend does not wait for it any longer.
LoginAnswers(q) ==
  /\ request[q].step = "posting"
  /\ \/ row[request[q].fresh] \in {"live", "dead"} /\ UNCHANGED timeouts
     \/ /\ row[request[q].fresh] \notin {"live", "dead"} /\ Cardinality(timeouts) < MaxTimeouts
        /\ timeouts' = timeouts \cup {request[q].fresh}
  /\ cookie' = [cookie EXCEPT ![request[q].browser] = request[q].fresh]
  /\ Ends(q)
  /\ RowsKept /\ PasswordKept /\ UNCHANGED <<born, raced, revertible, ended, crowded>>

-----------------------------------------------------------------------------
(* Requests with a cookie *)

\* get_session: a ticket is no session.
RequestOpens(q, b) ==
  /\ request[q].step = "idle" /\ cookie[b] \in LiveSids \ tickets
  /\ request' = [request EXCEPT ![q] = [NoRequest EXCEPT !.step = "open", !.browser = b, !.sid = cookie[b]]]
  /\ RowsKept /\ UNCHANGED cookie /\ PasswordKept /\ HistoryKept
RequestTouches(q) ==
  /\ request[q].step = "open" /\ Free(request[q].sid)
  /\ Goes(q, "touched") /\ Slides(request[q].sid)
  /\ UNCHANGED <<row, tickets, minted, marked, cookie>> /\ PasswordKept /\ HistoryKept

\* Mutant: a session that is not there is created.
SavesOrCreates(q) ==
  /\ request[q].step = "touched" /\ Free(request[q].sid)
  /\ Ends(q) /\ newer' = Used(request[q].sid)
  /\ row' = [row EXCEPT ![request[q].sid] = "live"]
  /\ UNCHANGED <<tickets, minted, marked, cookie>> /\ PasswordKept /\ HistoryKept
\* save_session, or an answer that changed nothing.
RequestSaves(q) ==
  /\ request[q].step = "touched" /\ Free(request[q].sid)
  /\ Ends(q) /\ Slides(request[q].sid)
  /\ UNCHANGED <<row, tickets, minted, marked, cookie>> /\ PasswordKept /\ HistoryKept

\* user_logout; a request from another address or device ends the same way.
Logout(q) ==
  /\ request[q].step = "touched" /\ Ends(q)
  /\ Leaves(request[q].sid)
  /\ cookie' = [cookie EXCEPT ![request[q].browser] = NoSid]
  /\ PasswordKept

\* The hour is over, or an operator deletes the session.
SessionExpires(s) ==
  /\ row[s] = "live" /\ Free(s)
  /\ Deletes({s})
  /\ UNCHANGED <<tickets, minted, newer, marked, cookie, request>> /\ PasswordKept /\ HistoryKept

-----------------------------------------------------------------------------
(* Passwords *)

Uncommitted == {s \in Sids : row[s] \in {"sent", "hidden", "trimmed"}}
\* A reset deletes the sessions it sees; these it does not.
Overlaps == raced' = raced \cup Uncommitted
SetsPassword ==
  /\ resets < MaxResets /\ resets' = resets + 1 /\ password' = resets + 1 /\ legacy' = FALSE
  /\ revertible' = \E q \in Tabs : request[q].step = "verified" /\ request[q].old

\* admin_set_user_password, and then delete_user_sessions.
OperatorSets ==
  /\ operator = "idle" /\ SetsPassword /\ operator' = "revoking"
  /\ RowsKept /\ UNCHANGED <<cookie, request, born, raced, ended, timeouts, crowded>>
\* Mutant: the sessions are left alone.
OperatorForgets ==
  /\ operator = "revoking" /\ operator' = "idle" /\ Overlaps
  /\ UNCHANGED <<row, tickets, minted, newer, marked, cookie, request, password, legacy, resets,
                 born, revertible, ended, timeouts, crowded>>
OperatorRevokes ==
  /\ operator = "revoking" /\ operator' = "idle"
  /\ \A s \in LiveSids : Free(s)
  /\ Deletes(LiveSids) /\ Overlaps
  /\ UNCHANGED <<tickets, minted, newer, marked, cookie, request, password, legacy, resets,
                 born, revertible, ended, timeouts, crowded>>

\* change_user_password reads the row, and then sets the password and deletes
\* the other sessions in one transaction.
ChangeReads(q) ==
  /\ request[q].step = "touched" /\ resets < MaxResets
  /\ Goes(q, "changing")
  /\ RowsKept /\ UNCHANGED cookie /\ PasswordKept /\ HistoryKept
ChangeCommits(q) ==
  /\ request[q].step = "changing" /\ SetsPassword
  /\ \A s \in LiveSids \ {request[q].sid} : Free(s)
  /\ Ends(q) /\ Deletes(LiveSids \ {request[q].sid}) /\ Overlaps
  /\ born' = [born EXCEPT ![request[q].sid] = resets + 1]
  /\ UNCHANGED <<tickets, minted, newer, marked, cookie, operator, ended, timeouts, crowded>>

-----------------------------------------------------------------------------
(* Tickets of the operator *)

TicketMints ==
  /\ Mints(minted + 1, resets) /\ tickets' = tickets \cup {minted + 1}
  /\ UNCHANGED <<newer, marked, cookie, request, raced, revertible, ended, timeouts, crowded>>
  /\ PasswordKept

\* consume_impersonation_ticket: SELECT ... FOR UPDATE, DELETE, commit.
Consumes(q, b) ==
  /\ request[q].step = "idle"
  /\ \E t \in tickets :
       /\ row[t] = "live" /\ Free(t)
       /\ Deletes({t})
       /\ request' = [request EXCEPT ![q] = 
            [NoRequest EXCEPT !.step = "granted", !.browser = b, !.sid = cookie[b],
                              !.born = born[t], !.since = born[t]]]
  /\ UNCHANGED <<tickets, minted, newer, marked, cookie, born, raced, revertible, ended, timeouts, crowded>>
  /\ PasswordKept

-----------------------------------------------------------------------------
PostStep(s) == PostInserts(s) \/ PostTrims(s) \/ PostCommits(s) \/ PostFails(s)
LoginStep(q) ==
  (\E b \in Browsers : LoginReads(q, b)) \/ LoginGrants(q) \/ LoginRotates(q) \/ LoginPosts(q) \/ LoginAnswers(q)
CookieStep(q) ==
  (\E b \in Browsers : RequestOpens(q, b)) \/ RequestTouches(q) \/ RequestSaves(q) \/ Logout(q)

SessionsNext ==
  \/ \E s \in Sids : PostStep(s) \/ SessionExpires(s)
  \/ \E q \in Tabs :
       LoginStep(q) \/ CookieStep(q) \/ ChangeReads(q) \/ ChangeCommits(q) \/ \E b \in Browsers : Consumes(q, b)
  \/ OperatorSets \/ OperatorRevokes \/ TicketMints

SessionsSpec == SessionsInit /\ [][SessionsNext]_sessionVars

-----------------------------------------------------------------------------
(* Properties *)

\* More sessions than the cap are live only where create_sessions overlapped
\* each other, who did not see each other's rows (create_session).
CapBound ==
  SessionCap > 0 => Cardinality(LiveSids \ crowded) <= SessionCap

\* A session that its browser has left, by signing out or in again, is dead and
\* never live again, whatever requests still save or touch it, unless its
\* creation or its DELETE got no answer (save_session, _rotate_session).
EndedStaysDead == \A s \in ended \ timeouts : row[s] # "live"

\* After a reset every session was opened with the password that was set last, or
\* with the one that the row holds, but for those whose login was verified before
\* the reset and whose row it did not see.  The row holds the password that was
\* set last, unless a login with an old hash was between its read and its write
\* at that moment (api_admin_reset_password: "kill every session so the reset
\* actually locks out whoever was signed in").
ResetHolds ==
  operator = "idle" =>
    /\ \A s \in LiveSids \ raced : born[s] \in {resets, password}
    /\ password = resets \/ revertible
=============================================================================

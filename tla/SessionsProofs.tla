--------------------------- MODULE SessionsProofs ---------------------------
(***************************************************************************)
(* A session that its browser has left stays dead, a reset locks out       *)
(* whoever had signed in, and the cap bounds the sessions whose creations  *)
(* did not overlap, for any number of browsers, requests, sessions, resets *)
(* and timeouts and any cap.                                               *)
(***************************************************************************)
EXTENDS Sessions, FiniteSetTheorems, TLAPS

TypeRows ==
  /\ row \in [Sids -> RowStates] /\ tickets \subseteq Sids /\ minted \in 0..MaxSids
  /\ newer \subseteq Sids \X Sids /\ marked \in [Sids -> SUBSET Sids]
  /\ \A s \in Sids : row[s] = "unused" <=> s > minted
  /\ \A s \in Sids : \A t \in marked[s] : row[t] # "unused"
TypeCookies == cookie \in [Browsers -> Sids \cup {NoSid}] /\ \A b \in Browsers : cookie[b] <= minted
TypePassword ==
  operator \in {"idle", "revoking"} /\ password \in 0..MaxResets /\ legacy \in BOOLEAN
  /\ resets \in 0..MaxResets
TypeHistory ==
  /\ born \in [Sids -> 0..MaxResets] /\ raced \subseteq Sids /\ revertible \in BOOLEAN
  /\ ended \subseteq Sids /\ timeouts \subseteq Sids /\ crowded \subseteq Sids
TypeRequests == request \in [Tabs -> Request]

LEMMA TypeParts ==
  TypeRows /\ TypeCookies /\ TypePassword /\ TypeHistory /\ TypeRequests => SessionsTypeOK
BY DEF SessionsTypeOK, TypeRows, TypeCookies, TypePassword, TypeHistory, TypeRequests

\* A sid that a browser or a request has come by: its creation is over, or the
\* frontend did not wait for it.
Given(s) == s = NoSid \/ row[s] \in {"live", "dead"} \/ s \in timeouts
RequestKnows(q) ==
  /\ Given(request[q].sid)
  /\ request[q].step \in {"open", "touched", "changing"} => request[q].sid \in Sids
  /\ request[q].step = "posting" => request[q].fresh \in Sids /\ request[q].fresh <= minted
SessionsInv ==
  /\ TypeRows /\ TypeCookies /\ TypePassword /\ TypeHistory /\ TypeRequests
  /\ \A b \in Browsers : Given(cookie[b])
  /\ \A q \in Tabs : RequestKnows(q)
  /\ \A s \in ended \ timeouts : row[s] = "dead"

LEMMA NoRequestTyped ==
  /\ NoRequest \in Request /\ NoRequest.sid = NoSid /\ NoRequest.step = "idle"
  /\ NoSid \notin Sids /\ 0 \in 0..MaxResets /\ 0 \in 0..MaxSids
BY SessionsConstants DEF NoRequest, Request, RequestSteps, NoSid, Sids

LEMMA SessionsInitially == SessionsInit => SessionsInv
<1> SUFFICES ASSUME SessionsInit PROVE SessionsInv
  OBVIOUS
<1>1. TypeRows
  BY NoRequestTyped DEF SessionsInit, TypeRows, RowStates, Sids
<1>2. TypeCookies /\ TypeRequests
  BY NoRequestTyped DEF SessionsInit, TypeCookies, TypeRequests, NoSid
<1>4. TypePassword /\ TypeHistory
  BY NoRequestTyped DEF SessionsInit, TypePassword, TypeHistory
<1>3. \A q \in Tabs : RequestKnows(q)
  BY NoRequestTyped DEF SessionsInit, RequestKnows, Given
<1> QED BY <1>1, <1>2, <1>3, <1>4 DEF SessionsInit, SessionsInv, Given

\* Creations that are over stay over, and the dead stay dead.
Onward ==
  /\ \A s \in Sids : row[s] \in {"live", "dead"} => row'[s] \in {"live", "dead"}
  /\ \A s \in Sids : row[s] = "dead" => row'[s] = "dead"
  /\ timeouts \subseteq timeouts' /\ minted \in Int /\ minted' \in Int /\ minted <= minted'

LEMMA Carried ==
  ASSUME SessionsInv, Onward, TypeRows', TypePassword', TypeHistory', TypeRequests',
         cookie' \in [Browsers -> Sids \cup {NoSid}],
         \A b \in Browsers : cookie'[b] = cookie[b] \/ (Given(cookie[b])' /\ cookie'[b] <= minted'),
         \A q \in Tabs : request'[q] = request[q] \/ RequestKnows(q)',
         \A s \in ended' : s \in ended \/ s \in timeouts' \/ row'[s] = "dead"
  PROVE  SessionsInv'
<1>1. \A s \in Sids \cup {NoSid} : Given(s) => Given(s)'
  BY DEF Given, Onward
<1>2. ASSUME NEW b \in Browsers PROVE Given(cookie[b])' /\ cookie'[b] <= minted'
  <2>1. cookie[b] \in Sids \cup {NoSid} /\ Given(cookie[b]) /\ cookie[b] <= minted /\ cookie[b] \in Int
    BY SessionsConstants DEF SessionsInv, TypeCookies, Sids, NoSid
  <2> QED BY <1>1, <2>1 DEF Onward
<1>3. ASSUME NEW q \in Tabs PROVE RequestKnows(q)'
  <2>1. request[q] \in Request /\ RequestKnows(q)
    BY DEF SessionsInv, TypeRequests
  <2>2. Given(request[q].sid)'
    BY <1>1, <2>1 DEF RequestKnows, Request
  <2>3. request[q].fresh \in Sids => request[q].fresh \in Int
    BY DEF Sids
  <2> QED BY <2>1, <2>2, <2>3 DEF RequestKnows, Onward
<1>4. \A s \in ended' \ timeouts' : row'[s] = "dead"
  BY DEF SessionsInv, TypeHistory, Onward
<1> QED BY <1>2, <1>3, <1>4 DEF SessionsInv, TypeCookies

-----------------------------------------------------------------------------
(* Helpers of the actions *)

LEMMA UsedTyped == ASSUME TypeRows, NEW s \in Sids PROVE Used(s) \subseteq Sids \X Sids
BY DEF TypeRows, Used

LEMMA Deleting ==
  ASSUME TypeRows, NEW gone, Deletes(gone), UNCHANGED <<tickets, minted, newer, marked>>
  PROVE  /\ TypeRows' /\ minted \in Int
         /\ \A s \in Sids : row[s] \in {"live", "dead"} => row'[s] \in {"live", "dead"}
         /\ \A s \in Sids : row[s] = "dead" => row'[s] = "dead"
         /\ \A s \in Sids \cap gone : row[s] \in {"live", "dead"} => row'[s] = "dead"
<1>1. \A s \in Sids : row'[s] = (IF s \in gone /\ row[s] = "live" THEN "dead" ELSE row[s])
  BY DEF Deletes
<1>2. row' \in [Sids -> RowStates]
  BY DEF Deletes, TypeRows, RowStates
<1> QED BY <1>1, <1>2 DEF TypeRows

LEMMA Going ==
  ASSUME TypeRequests, NEW q \in Tabs, NEW step \in RequestSteps, Goes(q, step)
  PROVE  /\ TypeRequests' /\ \A p \in Tabs \ {q} : request'[p] = request[p]
         /\ request'[q].step = step /\ request'[q].sid = request[q].sid
<1>1. request[q] \in Request
  BY DEF TypeRequests
<1>2. request' = [request EXCEPT ![q] = [request[q] EXCEPT !.step = step]]
  BY DEF Goes
<1>3. /\ [request[q] EXCEPT !.step = step] \in Request
      /\ [request[q] EXCEPT !.step = step].step = step
      /\ [request[q] EXCEPT !.step = step].sid = request[q].sid
  BY <1>1 DEF Request
<1> QED BY <1>1, <1>2, <1>3 DEF TypeRequests

LEMMA EndingRequest ==
  ASSUME TypeRequests, NEW q \in Tabs, Ends(q)
  PROVE  /\ TypeRequests' /\ \A p \in Tabs \ {q} : request'[p] = request[p]
         /\ RequestKnows(q)'
<1>1. request'[q] = NoRequest /\ TypeRequests' /\ \A p \in Tabs \ {q} : request'[p] = request[p]
  BY NoRequestTyped DEF Ends, TypeRequests
<1> QED BY <1>1, NoRequestTyped DEF RequestKnows, Given

\* A step that leaves the rows alone.
LEMMA RowsStay ==
  ASSUME SessionsInv, UNCHANGED <<row, minted, marked, tickets, timeouts>>,
         newer' \subseteq Sids \X Sids
  PROVE  TypeRows' /\ Onward
BY DEF SessionsInv, TypeRows, Onward

\* A session is minted.
LEMMA Minting ==
  ASSUME SessionsInv, NEW since \in 0..MaxResets, Mints(minted + 1, since),
         tickets' = tickets \/ tickets' = tickets \cup {minted + 1},
         UNCHANGED <<newer, marked, timeouts>>
  PROVE  /\ TypeRows' /\ Onward /\ born' \in [Sids -> 0..MaxResets]
         /\ minted' = minted + 1 /\ minted' \in Sids
<1>1. minted \in 0..MaxSids /\ minted + 1 \in Sids /\ minted' = minted + 1
  BY DEF SessionsInv, TypeRows, Mints
<1>2. row' \in [Sids -> RowStates] /\ row'[minted + 1] = "sent" /\ row[minted + 1] = "unused"
      /\ \A s \in Sids \ {minted + 1} : row'[s] = row[s]
  BY <1>1, SessionsConstants DEF SessionsInv, TypeRows, Mints, RowStates
<1>3. minted' \in 0..MaxSids
  BY <1>1, SessionsConstants DEF Sids
<1>4. \A s \in Sids : row'[s] = "unused" <=> s > minted'
  BY <1>1, <1>2, SessionsConstants DEF SessionsInv, TypeRows, Sids
<1>5. TypeRows'
  BY <1>1, <1>2, <1>3, <1>4 DEF SessionsInv, TypeRows
<1>6. Onward
  BY <1>1, <1>2, <1>3, SessionsConstants DEF Onward
<1>7. born' \in [Sids -> 0..MaxResets]
  BY DEF Mints, SessionsInv, TypeHistory
<1> QED BY <1>1, <1>5, <1>6, <1>7

\* A browser leaves a session: it is dead, or its DELETE got no answer.
LEMMA Leaving ==
  ASSUME SessionsInv, NEW s \in Sids \cup {NoSid}, Given(s), Leaves(s)
  PROVE  /\ TypeRows' /\ Onward /\ TypeHistory'
         /\ \A t \in ended' : t \in ended \/ t \in timeouts' \/ row'[t] = "dead"
<1>1. UNCHANGED <<tickets, minted, newer, marked, born, raced, revertible, crowded>>
      /\ ended' = ended \cup ({s} \cap Sids)
  BY DEF Leaves
<1>2. CASE Deletes({s}) /\ UNCHANGED timeouts
  <2>1. /\ TypeRows' /\ Onward
        /\ \A t \in Sids \cap {s} : row[t] \in {"live", "dead"} => row'[t] = "dead"
    BY <1>1, <1>2, Deleting DEF SessionsInv, Onward
  <2>2. \A t \in ended' : t \in ended \/ t \in timeouts' \/ row'[t] = "dead"
    BY <1>1, <1>2, <2>1, NoRequestTyped DEF Given
  <2> QED BY <1>1, <1>2, <2>1, <2>2 DEF SessionsInv, TypeHistory
<1>3. CASE s # NoSid /\ timeouts' = timeouts \cup {s} /\ UNCHANGED row
  <2>1. TypeRows'
    BY <1>1, <1>3 DEF SessionsInv, TypeRows
  <2>2. Onward
    BY <1>1, <1>3, SessionsConstants DEF SessionsInv, TypeRows, Onward
  <2> QED BY <1>1, <1>3, <2>1, <2>2 DEF SessionsInv, TypeHistory
<1> QED BY <1>2, <1>3 DEF Leaves

-----------------------------------------------------------------------------
(* Actions *)

LEMMA PostKeeps == ASSUME SessionsInv, NEW s \in Sids, PostStep(s) PROVE SessionsInv'
<1>1. row \in [Sids -> RowStates] /\ marked \in [Sids -> SUBSET Sids] /\ minted \in Int
  BY SessionsConstants DEF SessionsInv, TypeRows
<1>2. /\ row' \in [Sids -> RowStates] /\ marked' \in [Sids -> SUBSET Sids]
      /\ \A t \in Sids : row'[t] = "unused" <=> row[t] = "unused"
      /\ \A t \in Sids : row[t] \in {"live", "dead"} => row'[t] \in {"live", "dead"}
      /\ \A t \in Sids : row[t] = "dead" => row'[t] = "dead"
      /\ \A t \in Sids : \A u \in marked'[t] : row'[u] # "unused"
  <2>1. CASE PostInserts(s)
    BY <1>1, <2>1 DEF PostInserts, RowStates, SessionsInv, TypeRows
  <2>2. CASE PostTrims(s)
    <3>1. Victims(s) \subseteq Sids /\ \A t \in Victims(s) : t = s \/ row[t] = "live"
      BY DEF Victims, Seen, LiveSids
    <3>2. row' = [row EXCEPT ![s] = "trimmed"] /\ marked' = [marked EXCEPT ![s] = Victims(s)]
          /\ row[s] = "hidden"
      BY <2>2 DEF PostTrims
    <3> QED BY <1>1, <3>1, <3>2 DEF RowStates, SessionsInv, TypeRows
  <2>3. CASE PostCommits(s)
    <3>1. /\ \A t \in Sids :
               row'[t] = IF t \in marked[s] THEN "dead" ELSE IF t = s THEN "live" ELSE row[t]
          /\ row[s] = "trimmed" /\ marked' = [marked EXCEPT ![s] = {}]
      BY <2>3 DEF PostCommits
    <3>2. \A t \in marked[s] : row[t] # "unused"
      BY DEF SessionsInv, TypeRows
    <3>3. row' \in [Sids -> RowStates]
      BY <1>1, <2>3 DEF PostCommits, RowStates
    <3> QED BY <1>1, <3>1, <3>2, <3>3 DEF SessionsInv, TypeRows
  <2>4. CASE PostFails(s)
    BY <1>1, <2>4 DEF PostFails, RowStates, SessionsInv, TypeRows
  <2> QED BY <2>1, <2>2, <2>3, <2>4 DEF PostStep
<1>3. newer' \subseteq Sids \X Sids /\ UNCHANGED <<tickets, minted, cookie, request>>
  BY UsedTyped DEF PostStep, PostInserts, PostTrims, PostCommits, PostFails, SessionsInv, TypeRows
<1>4. TypeRows'
  BY <1>2, <1>3 DEF SessionsInv, TypeRows
<1>5. UNCHANGED <<operator, password, legacy, resets, born, raced, revertible, ended, timeouts>>
  BY DEF PostStep, PostInserts, PostTrims, PostCommits, PostFails, PasswordKept, HistoryKept
<1>6. crowded' \subseteq Sids
  BY DEF PostStep, PostInserts, PostTrims, PostCommits, PostFails, HistoryKept, Creating,
         SessionsInv, TypeHistory
<1>7. Onward
  BY <1>1, <1>2, <1>3, <1>5 DEF Onward
<1>8. TypePassword' /\ TypeHistory' /\ TypeRequests' /\ cookie' \in [Browsers -> Sids \cup {NoSid}]
  BY <1>3, <1>5, <1>6 DEF SessionsInv, TypePassword, TypeHistory, TypeRequests, TypeCookies
<1> QED BY <1>3, <1>4, <1>5, <1>7, <1>8, Carried

LEMMA ExpiresKeeps == ASSUME SessionsInv, NEW s \in Sids, SessionExpires(s) PROVE SessionsInv'
<1>1. UNCHANGED <<cookie, request, operator, password, legacy, resets, born, raced, revertible,
                  ended, timeouts, crowded, minted>>
  BY DEF SessionExpires, PasswordKept, HistoryKept
<1>2. TypeRows' /\ Onward
  BY <1>1, Deleting DEF SessionExpires, SessionsInv, Onward
<1>3. TypePassword' /\ TypeHistory' /\ TypeRequests' /\ cookie' \in [Browsers -> Sids \cup {NoSid}]
  BY <1>1 DEF SessionsInv, TypePassword, TypeHistory, TypeRequests, TypeCookies
<1> QED BY <1>1, <1>2, <1>3, Carried

\* A step of one request that deletes no session and mints none.
LEMMA RequestKeeps ==
  ASSUME SessionsInv, NEW q \in Tabs, TypeRequests', TypePassword', TypeHistory',
         \A p \in Tabs \ {q} : request'[p] = request[p],
         UNCHANGED <<row, tickets, minted, marked, ended>>, timeouts \subseteq timeouts',
         newer' \subseteq Sids \X Sids, cookie' \in [Browsers -> Sids \cup {NoSid}],
         \A b \in Browsers : cookie'[b] = cookie[b] \/ (Given(cookie[b])' /\ cookie'[b] <= minted'),
         RequestKnows(q)'
  PROVE  SessionsInv'
<1>1. TypeRows'
  BY DEF SessionsInv, TypeRows
<1>2. Onward
  BY SessionsConstants DEF SessionsInv, TypeRows, Onward
<1> QED BY <1>1, <1>2, Carried

LEMMA LoginKeeps == ASSUME SessionsInv, NEW q \in Tabs, LoginStep(q) PROVE SessionsInv'
<1> USE DEF RowsKept, PasswordKept, HistoryKept
<1>1. /\ TypeRows /\ TypeCookies /\ TypePassword /\ TypeHistory /\ TypeRequests
      /\ RequestKnows(q) /\ request[q] \in Request
  BY DEF SessionsInv, TypeRequests
<1>2. CASE \E b \in Browsers : LoginReads(q, b)
  <2>1. PICK b \in Browsers : LoginReads(q, b)
    BY <1>2
  <2> DEFINE new == [step |-> "verified", browser |-> b, sid |-> cookie[b], fresh |-> NoSid,
                     born |-> password, since |-> resets, old |-> legacy]
  <2>2. new \in Request
    BY <1>1 DEF Request, RequestSteps, TypeCookies, TypePassword
  <2>3. request' = [request EXCEPT ![q] = new]
    BY <2>1 DEF LoginReads
  <2>4. TypeRequests' /\ request'[q] = new /\ \A p \in Tabs \ {q} : request'[p] = request[p]
    BY <1>1, <2>2, <2>3 DEF TypeRequests
  <2>5. UNCHANGED <<row, tickets, minted, newer, marked, cookie, ended, timeouts>>
    BY <2>1 DEF LoginReads
  <2>6. RequestKnows(q)'
    BY <2>4, <2>5 DEF SessionsInv, RequestKnows, Given
  <2>7. TypePassword' /\ TypeHistory'
    BY <1>1, <2>1 DEF LoginReads, TypePassword, TypeHistory
  <2> QED BY <1>1, <2>4, <2>5, <2>6, <2>7, RequestKeeps DEF TypeRows, TypeCookies
<1>3. CASE LoginGrants(q)
  <2> DEFINE new == [request[q] EXCEPT !.step = "granted", !.old = FALSE]
  <2>1. new \in Request /\ new.step = "granted" /\ new.sid = request[q].sid
    BY <1>1 DEF Request, RequestSteps
  <2>2. request' = [request EXCEPT ![q] = new]
    BY <1>3 DEF LoginGrants
  <2>3. TypeRequests' /\ request'[q] = new /\ \A p \in Tabs \ {q} : request'[p] = request[p]
    BY <1>1, <2>1, <2>2 DEF TypeRequests
  <2>4. UNCHANGED <<row, tickets, minted, newer, marked, cookie, ended, timeouts>>
    BY <1>3 DEF LoginGrants
  <2>5. RequestKnows(q)'
    BY <1>1, <2>1, <2>3, <2>4 DEF RequestKnows, Given
  <2>6. TypePassword' /\ TypeHistory'
    <3>1. request[q].born \in 0..MaxResets /\ request[q].old \in BOOLEAN
      BY <1>1 DEF Request
    <3>2. (legacy /\ ~request[q].old) \in BOOLEAN
      OBVIOUS
    <3> QED BY <1>1, <1>3, <3>1, <3>2 DEF LoginGrants, TypePassword, TypeHistory
  <2> QED BY <1>1, <2>3, <2>4, <2>5, <2>6, RequestKeeps DEF TypeRows, TypeCookies
<1>4. CASE LoginRotates(q)
  <2>1. /\ TypeRequests' /\ \A p \in Tabs \ {q} : request'[p] = request[p]
        /\ request'[q].step = "rotated" /\ request'[q].sid = request[q].sid
    BY <1>1, <1>4, Going DEF LoginRotates, RequestSteps
  <2>2. request[q].sid \in Sids \cup {NoSid} /\ Given(request[q].sid)
    BY <1>1 DEF Request, RequestKnows
  <2>3. /\ TypeRows' /\ Onward /\ TypeHistory'
        /\ \A t \in ended' : t \in ended \/ t \in timeouts' \/ row'[t] = "dead"
    BY <1>4, <2>2, Leaving DEF LoginRotates
  <2>4. RequestKnows(q)'
    BY <2>1, <2>2, <2>3 DEF RequestKnows, Given, Onward
  <2>5. TypePassword' /\ cookie' \in [Browsers -> Sids \cup {NoSid}] /\ UNCHANGED cookie
    BY <1>1, <1>4 DEF LoginRotates, TypePassword, TypeCookies
  <2> QED BY <2>1, <2>3, <2>4, <2>5, Carried
<1>5. CASE LoginPosts(q)
  <2> DEFINE new == [request[q] EXCEPT !.step = "posting", !.fresh = minted + 1]
  <2>1. request[q].born \in 0..MaxResets /\ minted + 1 \in Sids
    BY <1>1, <1>5 DEF Request, LoginPosts, Mints
  <2>2. /\ TypeRows' /\ Onward /\ born' \in [Sids -> 0..MaxResets]
        /\ minted' = minted + 1 /\ minted' \in Sids
    BY <1>5, <2>1, Minting DEF LoginPosts
  <2>3. new \in Request /\ new.step = "posting" /\ new.sid = request[q].sid /\ new.fresh = minted + 1
    BY <1>1, <2>1 DEF Request, RequestSteps
  <2>4. TypeRequests' /\ request'[q] = new /\ \A p \in Tabs \ {q} : request'[p] = request[p]
    BY <1>1, <1>5, <2>3 DEF TypeRequests, LoginPosts
  <2>5. UNCHANGED <<cookie, ended, timeouts, operator, password, legacy, resets, revertible, crowded>>
        /\ raced' \subseteq raced \cup {minted + 1}
    BY <1>5 DEF LoginPosts
  <2>6. RequestKnows(q)'
    <3>1. request[q].sid \in Sids \cup {NoSid}
      BY <1>1 DEF Request
    <3>2. minted' <= minted'
      BY <2>2 DEF Sids
    <3> QED BY <1>1, <2>2, <2>3, <2>4, <3>1, <3>2 DEF RequestKnows, Given, Onward
  <2>7. TypePassword' /\ TypeHistory' /\ cookie' \in [Browsers -> Sids \cup {NoSid}]
    BY <1>1, <2>1, <2>2, <2>5 DEF TypePassword, TypeHistory, TypeCookies
  <2> QED BY <2>2, <2>4, <2>5, <2>6, <2>7, Carried
<1>6. CASE LoginAnswers(q)
  <2>1. request[q].fresh \in Sids /\ request[q].fresh <= minted /\ request[q].browser \in Browsers
    BY <1>1, <1>6 DEF LoginAnswers, RequestKnows, Request
  <2>2. /\ TypeRequests' /\ \A p \in Tabs \ {q} : request'[p] = request[p]
        /\ RequestKnows(q)'
    BY <1>1, <1>6, EndingRequest DEF LoginAnswers
  <2>3. /\ UNCHANGED <<row, tickets, minted, newer, marked, ended>>
        /\ timeouts \subseteq timeouts' /\ timeouts' \subseteq Sids
        /\ Given(request[q].fresh) \/ request[q].fresh \in timeouts'
        /\ cookie' = [cookie EXCEPT ![request[q].browser] = request[q].fresh]
    BY <1>1, <1>6, <2>1 DEF LoginAnswers, Given, TypeHistory
  <2>4. cookie' \in [Browsers -> Sids \cup {NoSid}]
    BY <1>1, <2>1, <2>3 DEF TypeCookies
  <2>5. \A b \in Browsers : cookie'[b] = cookie[b] \/ (Given(cookie[b])' /\ cookie'[b] <= minted')
    BY <1>1, <2>1, <2>3 DEF TypeCookies, Given
  <2>6. TypePassword' /\ TypeHistory'
    BY <1>1, <1>6, <2>3 DEF LoginAnswers, TypePassword, TypeHistory
  <2> QED BY <1>1, <2>2, <2>3, <2>4, <2>5, <2>6, RequestKeeps DEF TypeRows
<1> QED BY <1>2, <1>3, <1>4, <1>5, <1>6 DEF LoginStep

LEMMA CookieKeeps == ASSUME SessionsInv, NEW q \in Tabs, CookieStep(q) PROVE SessionsInv'
<1> USE DEF RowsKept, PasswordKept, HistoryKept
<1>1. /\ TypeRows /\ TypeCookies /\ TypePassword /\ TypeHistory /\ TypeRequests
      /\ RequestKnows(q) /\ request[q] \in Request
  BY DEF SessionsInv, TypeRequests
<1>2. CASE \E b \in Browsers : RequestOpens(q, b)
  <2>1. PICK b \in Browsers : RequestOpens(q, b)
    BY <1>2
  <2> DEFINE new == [NoRequest EXCEPT !.step = "open", !.browser = b, !.sid = cookie[b]]
  <2>2. cookie[b] \in Sids /\ row[cookie[b]] = "live"
    BY <2>1 DEF RequestOpens, LiveSids
  <2>3. new \in Request /\ new.step = "open" /\ new.sid = cookie[b]
    BY <2>2, NoRequestTyped DEF Request, RequestSteps
  <2>4. TypeRequests' /\ request'[q] = new /\ \A p \in Tabs \ {q} : request'[p] = request[p]
    BY <1>1, <2>1, <2>3 DEF TypeRequests, RequestOpens
  <2>5. UNCHANGED <<row, tickets, minted, newer, marked, cookie, ended, timeouts>>
    BY <2>1 DEF RequestOpens
  <2>6. RequestKnows(q)'
    BY <2>2, <2>3, <2>4, <2>5 DEF RequestKnows, Given
  <2>7. TypePassword' /\ TypeHistory'
    BY <1>1, <2>1 DEF RequestOpens, TypePassword, TypeHistory
  <2> QED BY <1>1, <2>4, <2>5, <2>6, <2>7, RequestKeeps DEF TypeRows, TypeCookies
<1>3. ASSUME Slides(request[q].sid) PROVE newer' \subseteq Sids \X Sids
  BY <1>1, <1>3, UsedTyped DEF Slides, LiveSids, TypeRows
<1>4. CASE RequestTouches(q)
  <2>1. /\ TypeRequests' /\ \A p \in Tabs \ {q} : request'[p] = request[p]
        /\ request'[q].step = "touched" /\ request'[q].sid = request[q].sid
    BY <1>1, <1>4, Going DEF RequestTouches, RequestSteps
  <2>2. UNCHANGED <<row, tickets, minted, marked, cookie, ended, timeouts>> /\ newer' \subseteq Sids \X Sids
    BY <1>3, <1>4 DEF RequestTouches
  <2>3. RequestKnows(q)'
    BY <1>1, <1>4, <2>1, <2>2 DEF RequestTouches, RequestKnows, Given
  <2>4. TypePassword' /\ TypeHistory'
    BY <1>1, <1>4 DEF RequestTouches, TypePassword, TypeHistory
  <2> QED BY <1>1, <2>1, <2>2, <2>3, <2>4, RequestKeeps DEF TypeCookies
<1>5. CASE RequestSaves(q)
  <2>1. /\ TypeRequests' /\ \A p \in Tabs \ {q} : request'[p] = request[p]
        /\ RequestKnows(q)'
    BY <1>1, <1>5, EndingRequest DEF RequestSaves
  <2>2. UNCHANGED <<row, tickets, minted, marked, cookie, ended, timeouts>> /\ newer' \subseteq Sids \X Sids
    BY <1>3, <1>5 DEF RequestSaves
  <2>3. TypePassword' /\ TypeHistory'
    BY <1>1, <1>5 DEF RequestSaves, TypePassword, TypeHistory
  <2> QED BY <1>1, <2>1, <2>2, <2>3, RequestKeeps DEF TypeCookies
<1>6. CASE Logout(q)
  <2>1. /\ TypeRequests' /\ \A p \in Tabs \ {q} : request'[p] = request[p]
        /\ RequestKnows(q)'
    BY <1>1, <1>6, EndingRequest DEF Logout
  <2>2. request[q].sid \in Sids /\ Given(request[q].sid) /\ request[q].browser \in Browsers
    BY <1>1, <1>6 DEF Logout, RequestKnows, Request
  <2>3. /\ TypeRows' /\ Onward /\ TypeHistory'
        /\ \A t \in ended' : t \in ended \/ t \in timeouts' \/ row'[t] = "dead"
    BY <1>6, <2>2, Leaving DEF Logout
  <2>4. cookie' = [cookie EXCEPT ![request[q].browser] = NoSid] /\ TypePassword'
    BY <1>1, <1>6 DEF Logout, TypePassword
  <2>5. /\ cookie' \in [Browsers -> Sids \cup {NoSid}]
        /\ \A b \in Browsers : cookie'[b] = cookie[b] \/ cookie'[b] = NoSid
    BY <1>1, <2>4 DEF TypeCookies
  <2>6. NoSid <= minted'
    BY <2>3, SessionsConstants DEF TypeRows, NoSid
  <2> QED BY <2>1, <2>3, <2>4, <2>5, <2>6, Carried DEF Given
<1> QED BY <1>2, <1>4, <1>5, <1>6 DEF CookieStep

LEMMA PasswordsKeep ==
  ASSUME SessionsInv,
         \/ OperatorSets \/ OperatorRevokes
         \/ \E q \in Tabs : ChangeReads(q) \/ ChangeCommits(q)
  PROVE  SessionsInv'
<1> USE DEF RowsKept, PasswordKept, HistoryKept
<1>1. TypeRows /\ TypeCookies /\ TypePassword /\ TypeHistory /\ TypeRequests
  BY DEF SessionsInv
<1>2. Uncommitted \subseteq Sids /\ TypeRequests /\ cookie \in [Browsers -> Sids \cup {NoSid}]
  BY <1>1 DEF Uncommitted, TypeCookies
<1>3. ASSUME SetsPassword
      PROVE  /\ resets' \in 0..MaxResets /\ password' \in 0..MaxResets /\ legacy' \in BOOLEAN
             /\ revertible' \in BOOLEAN /\ resets + 1 \in 0..MaxResets
  <2>1. (\E q \in Tabs : request[q].step = "verified" /\ request[q].old) \in BOOLEAN
    OBVIOUS
  <2>2. revertible' \in BOOLEAN
    BY <1>3, <2>1, Zenon DEF SetsPassword
  <2>3. resets \in 0..MaxResets /\ resets < MaxResets /\ resets' = resets + 1 /\ password' = resets + 1
        /\ legacy' = FALSE
    BY <1>1, <1>3 DEF SetsPassword, TypePassword
  <2>4. resets + 1 \in 0..MaxResets
    BY <2>3, SessionsConstants
  <2> QED BY <2>2, <2>3, <2>4
<1>4. CASE OperatorSets
  <2>1. TypePassword' /\ TypeHistory'
    BY <1>1, <1>3, <1>4 DEF OperatorSets, TypePassword, TypeHistory
  <2>2. TypeRows' /\ Onward
    BY <1>1, <1>4, SessionsConstants DEF OperatorSets, TypeRows, Onward
  <2>3. UNCHANGED <<cookie, request, ended>>
    BY <1>4 DEF OperatorSets
  <2>4. TypeRequests'
    BY <1>1, <2>3 DEF TypeRequests
  <2> QED BY <1>2, <2>1, <2>2, <2>3, <2>4, Carried
<1>5. CASE OperatorRevokes
  <2>1. UNCHANGED <<tickets, minted, newer, marked, cookie, request, ended, timeouts>>
    BY <1>5 DEF OperatorRevokes
  <2>2. TypeRows' /\ Onward
    BY <1>1, <1>5, <2>1, Deleting DEF OperatorRevokes, Onward
  <2>3. TypePassword' /\ TypeHistory'
    BY <1>1, <1>2, <1>5 DEF OperatorRevokes, Overlaps, TypePassword, TypeHistory
  <2>4. TypeRequests'
    BY <1>1, <2>1 DEF TypeRequests
  <2> QED BY <1>2, <2>1, <2>2, <2>3, <2>4, Carried
<1>6. ASSUME NEW q \in Tabs, ChangeReads(q) PROVE SessionsInv'
  <2>1. /\ TypeRequests' /\ \A p \in Tabs \ {q} : request'[p] = request[p]
        /\ request'[q].step = "changing" /\ request'[q].sid = request[q].sid
    BY <1>1, <1>6, Going DEF ChangeReads, RequestSteps
  <2>2. UNCHANGED <<row, tickets, minted, newer, marked, cookie, ended, timeouts>>
    BY <1>6 DEF ChangeReads
  <2>3. RequestKnows(q)'
    BY <1>6, <2>1, <2>2 DEF ChangeReads, SessionsInv, RequestKnows, Given
  <2>4. TypePassword' /\ TypeHistory'
    BY <1>1, <1>6 DEF ChangeReads, TypePassword, TypeHistory
  <2> QED BY <1>1, <1>2, <2>1, <2>2, <2>3, <2>4, RequestKeeps DEF TypeRows
<1>7. ASSUME NEW q \in Tabs, ChangeCommits(q) PROVE SessionsInv'
  <2>1. /\ TypeRequests' /\ \A p \in Tabs \ {q} : request'[p] = request[p]
        /\ RequestKnows(q)'
    BY <1>1, <1>7, EndingRequest DEF ChangeCommits
  <2>2. UNCHANGED <<tickets, minted, newer, marked, cookie, operator, ended, timeouts, crowded>>
    BY <1>7 DEF ChangeCommits
  <2>3. TypeRows' /\ Onward
    BY <1>1, <1>7, <2>2, Deleting DEF ChangeCommits, Onward
  <2>4. TypePassword' /\ TypeHistory'
    BY <1>1, <1>2, <1>3, <1>7, <2>2 DEF ChangeCommits, Overlaps, TypePassword, TypeHistory
  <2> QED BY <1>2, <2>1, <2>2, <2>3, <2>4, Carried
<1> QED BY <1>4, <1>5, <1>6, <1>7

LEMMA TicketsKeep ==
  ASSUME SessionsInv, TicketMints \/ \E q \in Tabs, b \in Browsers : Consumes(q, b)
  PROVE  SessionsInv'
<1> USE DEF PasswordKept
<1>1. TypeRows /\ TypeCookies /\ TypePassword /\ TypeHistory /\ TypeRequests
  BY DEF SessionsInv
<1>2. CASE TicketMints
  <2>1. UNCHANGED <<cookie, request, operator, password, legacy, resets, raced, revertible, ended,
                    timeouts, crowded>>
    BY <1>2 DEF TicketMints
  <2>2. TypeRows' /\ Onward /\ born' \in [Sids -> 0..MaxResets]
    BY <1>1, <1>2, Minting DEF TicketMints, TypePassword
  <2>3. TypePassword' /\ TypeHistory' /\ TypeRequests' /\ cookie' \in [Browsers -> Sids \cup {NoSid}]
    BY <1>1, <2>1, <2>2 DEF TypePassword, TypeHistory, TypeRequests, TypeCookies
  <2> QED BY <2>1, <2>2, <2>3, Carried
<1>3. ASSUME NEW q \in Tabs, NEW b \in Browsers, Consumes(q, b) PROVE SessionsInv'
  <2>1. PICK t \in tickets :
          /\ Deletes({t})
          /\ request' = [request EXCEPT ![q] =
               [NoRequest EXCEPT !.step = "granted", !.browser = b, !.sid = cookie[b],
                                 !.born = born[t], !.since = born[t]]]
    BY <1>3 DEF Consumes
  <2> DEFINE new == [NoRequest EXCEPT !.step = "granted", !.browser = b, !.sid = cookie[b],
                                      !.born = born[t], !.since = born[t]]
  <2>2. new \in Request /\ new.step = "granted" /\ new.sid = cookie[b]
    <3>1. born[t] \in 0..MaxResets /\ cookie[b] \in Sids \cup {NoSid}
      BY <1>1 DEF TypeRows, TypeHistory, TypeCookies
    <3> QED BY <3>1, NoRequestTyped DEF Request, RequestSteps
  <2>3. TypeRequests' /\ request'[q] = new /\ \A p \in Tabs \ {q} : request'[p] = request[p]
    BY <1>1, <2>1, <2>2 DEF TypeRequests
  <2>4. UNCHANGED <<tickets, minted, newer, marked, cookie, born, raced, revertible, ended, timeouts,
                    crowded, operator, password, legacy, resets>>
    BY <1>3 DEF Consumes
  <2>5. TypeRows' /\ Onward
    BY <1>1, <2>1, <2>4, Deleting DEF Onward
  <2>6. RequestKnows(q)'
    <3>1. Given(cookie[b]) /\ cookie[b] \in Sids \cup {NoSid}
      BY <1>1 DEF SessionsInv, TypeCookies
    <3> QED BY <2>2, <2>3, <2>4, <2>5, <3>1 DEF RequestKnows, Given, Onward
  <2>7. TypePassword' /\ TypeHistory' /\ cookie' \in [Browsers -> Sids \cup {NoSid}]
    BY <1>1, <2>4 DEF TypePassword, TypeHistory, TypeCookies
  <2> QED BY <2>3, <2>4, <2>5, <2>6, <2>7, Carried
<1> QED BY <1>2, <1>3

LEMMA SessionsKept == SessionsSpec => []SessionsInv
<1>1. SessionsInv /\ [SessionsNext]_sessionVars => SessionsInv'
  <2>1. SessionsInv /\ UNCHANGED sessionVars => SessionsInv'
    BY DEF sessionVars, SessionsInv, TypeRows, TypeCookies, TypePassword, TypeHistory, TypeRequests,
           RequestKnows, Given
  <2> QED BY <2>1, PostKeeps, ExpiresKeeps, LoginKeeps, CookieKeeps, PasswordsKeep, TicketsKeep
          DEF SessionsNext
<1> QED BY SessionsInitially, <1>1, PTL DEF SessionsSpec

\* Every variable keeps its type: a sid is minted once, and only minted sids are
\* in a browser.
THEOREM SessionsTyped == SessionsSpec => []SessionsTypeOK
<1>1. SessionsInv => SessionsTypeOK
  BY TypeParts DEF SessionsInv
<1> QED BY <1>1, SessionsKept, PTL

\* EndedStaysDead for any number of browsers, of requests at a time and of
\* sessions: nothing that is under way brings back a session that was left, but
\* for those with a creation or a DELETE that got no answer.
THEOREM LogoutHolds == SessionsSpec => []EndedStaysDead
<1>1. SessionsInv => EndedStaysDead
  BY DEF SessionsInv, EndedStaysDead
<1> QED BY <1>1, SessionsKept, PTL
-----------------------------------------------------------------------------
(* The reset *)

\* What a session was opened with, or will be once its creation is over, is the
\* password that was set last or the one in the row, but for the logins that a
\* reset overlapped.
Locks ==
  operator = "idle" => \A s \in Sids :
    row[s] \notin {"unused", "dead"} => born[s] \in {resets, password} \/ s \in raced
\* An old hash is that of the first password, so nothing else is ever put back.
Restores == (legacy => resets = 0) /\ (password = resets \/ (password = 0 /\ revertible))
\* What a request that no reset has overlapped was compared with, and when an old
\* hash that it writes again was read.
Compared(r) ==
  /\ r.born <= resets /\ r.since <= resets
  /\ r.step \in {"verified", "granted", "rotated"} /\ r.since = resets => r.born \in {resets, password}
  /\ r.step = "verified" /\ r.old => r.born = 0 /\ (resets = 0 \/ revertible)
ResetInv ==
  /\ Locks /\ Restores
  /\ \A s \in Sids : born[s] <= resets
  /\ \A q \in Tabs : Compared(request[q])

\* No row comes to life but by its creation, and no password is set.
LEMMA ResetStays ==
  ASSUME SessionsInv, ResetInv,
         UNCHANGED <<operator, password, legacy, resets, born, raced, revertible>>,
         \A s \in Sids : row[s] \in {"unused", "dead"} => row'[s] \in {"unused", "dead"},
         \A q \in Tabs : request'[q] = request[q] \/ Compared(request'[q])
  PROVE  ResetInv'
<1>1. \A q \in Tabs : Compared(request'[q])
  BY DEF ResetInv
<1>2. \A q \in Tabs : Compared(request[q])'
  BY <1>1 DEF Compared
<1> QED BY <1>2 DEF ResetInv, Locks, Restores

LEMMA RowsReset ==
  ASSUME SessionsInv, ResetInv, NEW s \in Sids, PostStep(s) \/ SessionExpires(s) PROVE ResetInv'
<1>1. UNCHANGED <<request, operator, password, legacy, resets, born, raced, revertible>>
  BY DEF PostStep, PostInserts, PostTrims, PostCommits, PostFails, SessionExpires, PasswordKept,
         HistoryKept
<1>2. row \in [Sids -> RowStates] /\ marked \in [Sids -> SUBSET Sids]
      /\ \A t \in Sids : \A u \in marked[t] : row[u] # "unused"
  BY DEF SessionsInv, TypeRows
<1>3. \A t \in Sids : row[t] \in {"unused", "dead"} => row'[t] \in {"unused", "dead"}
  BY <1>2 DEF PostStep, PostInserts, PostTrims, PostCommits, PostFails, SessionExpires, Deletes
<1> QED BY <1>1, <1>3, ResetStays

\* A request that goes on, or one that begins or ends.
LEMMA RequestReset ==
  ASSUME SessionsInv, ResetInv,
         UNCHANGED <<operator, password, legacy, resets, born, raced, revertible>>,
         row' = row \/ (\E gone : Deletes(gone)),
         NEW q \in Tabs, \A p \in Tabs \ {q} : request'[p] = request[p], Compared(request'[q])
  PROVE  ResetInv'
<1>1. \A t \in Sids : row[t] \in {"unused", "dead"} => row'[t] \in {"unused", "dead"}
  BY DEF Deletes
<1> QED BY <1>1, ResetStays

LEMMA BornTyped ==
  ASSUME SessionsInv
  PROVE  /\ resets \in Nat /\ born \in [Sids -> 0..MaxResets] /\ request \in [Tabs -> Request]
         /\ \A q \in Tabs : request[q].born \in Nat /\ request[q].since \in Nat
         /\ \A s \in Sids : born[s] \in Nat
         /\ NoRequest.born = 0 /\ NoRequest.since = 0 /\ NoRequest.step = "idle" /\ ~NoRequest.old
BY SessionsConstants DEF SessionsInv, TypeHistory, TypePassword, TypeRequests, Request, NoRequest

LEMMA CookieReset ==
  ASSUME SessionsInv, ResetInv, NEW q \in Tabs, CookieStep(q) \/ ChangeReads(q) PROVE ResetInv'
<1>1. UNCHANGED <<operator, password, legacy, resets, born, raced, revertible>>
  BY DEF CookieStep, RequestOpens, RequestTouches, RequestSaves, Logout, Leaves, ChangeReads,
         PasswordKept, HistoryKept
<1>2. row' = row \/ \E gone : Deletes(gone)
  <2>1. CASE Logout(q)
    <3>1. Deletes({request[q].sid}) \/ row' = row
      BY <2>1 DEF Logout, Leaves
    <3> QED BY <3>1
  <2>2. CASE ~Logout(q)
    BY <2>2 DEF CookieStep, RequestOpens, RequestTouches, RequestSaves, ChangeReads, RowsKept
  <2> QED BY <2>1, <2>2
<1>3. /\ \A p \in Tabs \ {q} : request'[p] = request[p]
      /\ request'[q].step \notin {"verified", "granted", "rotated"}
      /\ \/ request'[q].born = request[q].born /\ request'[q].since = request[q].since
         \/ request'[q].born = 0 /\ request'[q].since = 0
  <2>1. request \in [Tabs -> Request] /\ request[q] \in Request
    BY BornTyped
  <2>2. CASE RequestTouches(q) \/ ChangeReads(q)
    <3>1. PICK step \in {"touched", "changing"} : request' = [request EXCEPT ![q].step = step]
      BY <2>2 DEF RequestTouches, ChangeReads, Goes
    <3>2. request'[q] = [request[q] EXCEPT !.step = step] /\ \A p \in Tabs \ {q} : request'[p] = request[p]
      BY <2>1, <3>1
    <3> QED BY <2>1, <3>2 DEF Request
  <2>3. CASE RequestSaves(q) \/ Logout(q)
    <3>1. request' = [request EXCEPT ![q] = NoRequest]
      BY <2>3 DEF RequestSaves, Logout, Ends
    <3> QED BY <2>1, <3>1, BornTyped
  <2>4. ASSUME NEW b \in Browsers, RequestOpens(q, b)
        PROVE  /\ \A p \in Tabs \ {q} : request'[p] = request[p]
               /\ request'[q].step \notin {"verified", "granted", "rotated"}
               /\ request'[q].born = 0 /\ request'[q].since = 0
    <3>1. request' = [request EXCEPT ![q] =
            [NoRequest EXCEPT !.step = "open", !.browser = b, !.sid = cookie[b]]]
      BY <2>4 DEF RequestOpens
    <3> QED BY <2>1, <3>1 DEF NoRequest
  <2> QED BY <2>2, <2>3, <2>4 DEF CookieStep
<1>4. Compared(request'[q])
  BY <1>3, BornTyped DEF ResetInv, Compared
<1> QED BY <1>1, <1>2, <1>3, <1>4, RequestReset

LEMMA LoginReset == ASSUME SessionsInv, ResetInv, NEW q \in Tabs, LoginStep(q) PROVE ResetInv'
<1>1. /\ request[q].born \in Nat /\ request[q].since \in Nat /\ request[q] \in Request
      /\ resets \in Nat /\ Compared(request[q])
  BY BornTyped DEF ResetInv
<1>2. ASSUME NEW b \in Browsers, LoginReads(q, b) PROVE ResetInv'
  <2> DEFINE new == [step |-> "verified", browser |-> b, sid |-> cookie[b], fresh |-> NoSid,
                     born |-> password, since |-> resets, old |-> legacy]
  <2>1. request' = [request EXCEPT ![q] = new]
    BY <1>2 DEF LoginReads
  <2>2. request'[q] = new /\ \A p \in Tabs \ {q} : request'[p] = request[p]
    BY <2>1, BornTyped
  <2>3. Compared(new)
    BY <1>1 DEF ResetInv, Restores, Compared
  <2> QED BY <1>2, <2>2, <2>3, RequestReset DEF LoginReads, RowsKept, PasswordKept, HistoryKept
<1>3. CASE LoginGrants(q)
  <2>1. /\ request' = [request EXCEPT ![q].step = "granted", ![q].old = FALSE]
        /\ password' = IF request[q].old THEN request[q].born ELSE password
        /\ legacy' = (legacy /\ ~request[q].old)
        /\ UNCHANGED <<row, operator, resets, born, raced, revertible>> /\ request[q].step = "verified"
    BY <1>3 DEF LoginGrants, RowsKept, HistoryKept
  <2>2. /\ request'[q].step = "granted" /\ request'[q].born = request[q].born
        /\ request'[q].since = request[q].since
        /\ \A p \in Tabs \ {q} : request'[p] = request[p]
    BY <1>1, <2>1, BornTyped DEF Request
  <2>3. password' = password \/ (password' = 0 /\ (resets = 0 \/ revertible))
    BY <1>1, <2>1 DEF Compared
  <2>4. password \in {resets, 0}
    BY DEF ResetInv, Restores
  <2>5. Restores'
    BY <2>1, <2>3 DEF ResetInv, Restores
  <2>6. \A s \in Sids : born[s] \in {resets, password} => born[s] \in {resets, password'}
    BY <2>3, <2>4
  <2>7. Locks'
    BY <2>1, <2>6 DEF ResetInv, Locks
  <2>8. \A p \in Tabs : Compared(request[p])'
    <3>1. ASSUME NEW p \in Tabs, p # q PROVE Compared(request[p])'
      BY <2>1, <2>2, <2>3, <2>4, <3>1 DEF ResetInv, Compared
    <3>2. Compared(request[q])'
      BY <1>1, <2>1, <2>2, <2>3, <2>4 DEF Compared
    <3> QED BY <3>1, <3>2
  <2> QED BY <2>1, <2>5, <2>7, <2>8 DEF ResetInv
<1>4. CASE LoginRotates(q)
  <2>1. row' = row \/ \E gone : Deletes(gone)
    BY <1>4 DEF LoginRotates, Leaves
  <2>2. /\ request'[q].step = "rotated" /\ request'[q].born = request[q].born
        /\ request'[q].since = request[q].since
        /\ \A p \in Tabs \ {q} : request'[p] = request[p]
    BY <1>1, <1>4, BornTyped DEF LoginRotates, Goes, Request
  <2>3. Compared(request'[q])
    BY <1>1, <1>4, <2>2 DEF LoginRotates, Compared
  <2> QED BY <1>4, <2>1, <2>2, <2>3, RequestReset DEF LoginRotates, Leaves, PasswordKept
<1>5. CASE LoginPosts(q)
  <2> DEFINE s == minted + 1
  <2>1. /\ s \in Sids /\ row' = [row EXCEPT ![s] = "sent"] /\ born' = [born EXCEPT ![s] = request[q].born]
        /\ raced' = IF request[q].since < resets /\ operator = "idle" THEN raced \cup {s} ELSE raced
        /\ UNCHANGED <<operator, password, legacy, resets, revertible>> /\ request[q].step = "rotated"
    BY <1>5 DEF LoginPosts, Mints, PasswordKept
  <2>2. row \in [Sids -> RowStates]
    BY DEF SessionsInv, TypeRows
  <2>3. born'[s] = request[q].born /\ \A t \in Sids \ {s} : born'[t] = born[t] /\ row'[t] = row[t]
    BY <2>1, <2>2, BornTyped
  <2>4. operator = "idle" => born'[s] \in {resets, password} \/ s \in raced'
    <3>1. request[q].since < resets \/ request[q].since = resets
      BY <1>1 DEF Compared
    <3> QED BY <1>1, <2>1, <2>3, <3>1 DEF Compared
  <2>5. /\ request'[q].step = "posting" /\ request'[q].born = request[q].born
        /\ request'[q].since = request[q].since
        /\ \A p \in Tabs \ {q} : request'[p] = request[p]
    BY <1>1, <1>5, BornTyped DEF LoginPosts, Request
  <2>6. raced \subseteq raced'
    BY <2>1
  <2>7. Locks'
    BY <2>1, <2>3, <2>4, <2>6 DEF ResetInv, Locks
  <2>8. Restores' /\ \A t \in Sids : born'[t] <= resets'
    BY <1>1, <2>1, <2>3 DEF ResetInv, Restores, Compared
  <2>9. \A p \in Tabs : Compared(request[p])'
    BY <1>1, <2>1, <2>5 DEF ResetInv, Compared
  <2> QED BY <2>7, <2>8, <2>9 DEF ResetInv
<1>6. CASE LoginAnswers(q)
  <2>1. request' = [request EXCEPT ![q] = NoRequest]
    BY <1>6 DEF LoginAnswers, Ends
  <2>2. request'[q] = NoRequest /\ \A p \in Tabs \ {q} : request'[p] = request[p]
    BY <2>1, BornTyped
  <2>3. Compared(request'[q])
    BY <2>2, BornTyped DEF Compared
  <2> QED BY <1>6, <2>2, <2>3, RequestReset DEF LoginAnswers, RowsKept, PasswordKept
<1> QED BY <1>2, <1>3, <1>4, <1>5, <1>6 DEF LoginStep

LEMMA PasswordSet ==
  ASSUME SessionsInv, ResetInv, SetsPassword,
         \A p \in Tabs : request'[p] = request[p] \/ request'[p] = NoRequest
  PROVE  /\ Restores' /\ resets' = resets + 1
         /\ \A q \in Tabs : Compared(request[q])'
<1>1. resets \in Nat /\ resets' = resets + 1 /\ password' = resets + 1 /\ legacy' = FALSE
  BY BornTyped DEF SetsPassword
<1>2. \A q \in Tabs : request[q].step = "verified" /\ request[q].old => revertible'
  BY DEF SetsPassword
<1>3. ASSUME NEW q \in Tabs PROVE Compared(request[q])'
  <2>1. Compared(request[q]) /\ request[q].born \in Nat /\ request[q].since \in Nat
    BY BornTyped DEF ResetInv
  <2>2. CASE request'[q] = request[q]
    BY <1>1, <1>2, <2>1, <2>2 DEF Compared
  <2>3. CASE request'[q] = NoRequest
    BY <1>1, <2>3, BornTyped DEF Compared
  <2> QED BY <2>2, <2>3
<1> QED BY <1>1, <1>3 DEF Restores

LEMMA PasswordsReset ==
  ASSUME SessionsInv, ResetInv, OperatorSets \/ OperatorRevokes \/ \E q \in Tabs : ChangeCommits(q)
  PROVE  ResetInv'
<1>1. row \in [Sids -> RowStates] /\ resets \in Nat
      /\ \A s \in Sids : born[s] <= resets /\ born[s] \in Nat
  BY BornTyped DEF SessionsInv, TypeRows, ResetInv
<1>2. CASE OperatorSets
  <2>1. Restores' /\ resets' = resets + 1 /\ \A q \in Tabs : Compared(request[q])'
    <3>1. SetsPassword /\ \A p \in Tabs : request'[p] = request[p]
      BY <1>2 DEF OperatorSets
    <3> QED BY <3>1, PasswordSet
  <2>2. born' = born /\ operator' = "revoking"
    BY <1>2 DEF OperatorSets
  <2>3. \A s \in Sids : born'[s] <= resets'
    BY <1>1, <2>1, <2>2
  <2> QED BY <2>1, <2>2, <2>3 DEF ResetInv, Locks
<1>3. CASE OperatorRevokes
  <2>1. /\ raced' = raced \cup Uncommitted /\ Deletes(LiveSids)
        /\ UNCHANGED <<request, password, legacy, resets, born, revertible>>
    BY <1>3 DEF OperatorRevokes, Overlaps
  <2>2. \A s \in Sids : row'[s] \notin {"unused", "dead"} => s \in raced'
    BY <1>1, <2>1 DEF Deletes, LiveSids, Uncommitted, RowStates
  <2>3. \A q \in Tabs : Compared(request[q])'
    BY <2>1 DEF ResetInv, Compared
  <2> QED BY <2>1, <2>2, <2>3 DEF ResetInv, Locks, Restores
<1>4. ASSUME NEW q \in Tabs, ChangeCommits(q) PROVE ResetInv'
  <2> DEFINE s == request[q].sid
  <2>1. /\ s \in Sids /\ born' = [born EXCEPT ![s] = resets + 1] /\ operator' = operator
        /\ raced' = raced \cup Uncommitted /\ Deletes(LiveSids \ {s})
        /\ request' = [request EXCEPT ![q] = NoRequest]
    BY <1>4 DEF ChangeCommits, Overlaps, Ends, SessionsInv, RequestKnows
  <2>2. request'[q] = NoRequest /\ \A p \in Tabs \ {q} : request'[p] = request[p]
    BY <2>1, BornTyped
  <2>3. Restores' /\ resets' = resets + 1 /\ \A p \in Tabs : Compared(request[p])'
    <3>1. SetsPassword
      BY <1>4 DEF ChangeCommits
    <3>2. \A p \in Tabs : request'[p] = request[p] \/ request'[p] = NoRequest
      BY <2>2
    <3> QED BY <3>1, <3>2, PasswordSet
  <2>4. born'[s] = resets' /\ \A t \in Sids \ {s} : born'[t] = born[t]
    BY <2>1, <2>3, BornTyped
  <2>5. \A t \in Sids : born'[t] <= resets'
    BY <1>1, <2>3, <2>4
  <2>6. \A t \in Sids \ {s} : row'[t] \notin {"unused", "dead"} => t \in raced'
    BY <1>1, <2>1 DEF Deletes, LiveSids, Uncommitted, RowStates
  <2> QED BY <2>3, <2>4, <2>5, <2>6 DEF ResetInv, Locks
<1> QED BY <1>2, <1>3, <1>4

LEMMA TicketsReset ==
  ASSUME SessionsInv, ResetInv, TicketMints \/ \E q \in Tabs, b \in Browsers : Consumes(q, b)
  PROVE  ResetInv'
<1>1. CASE TicketMints
  <2>1. /\ minted + 1 \in Sids /\ row' = [row EXCEPT ![minted + 1] = "sent"]
        /\ born' = [born EXCEPT ![minted + 1] = resets]
        /\ UNCHANGED <<request, operator, password, legacy, resets, raced, revertible>>
    BY <1>1 DEF TicketMints, Mints, PasswordKept
  <2>2. row \in [Sids -> RowStates]
    BY DEF SessionsInv, TypeRows
  <2>3. /\ born'[minted + 1] = resets
        /\ \A t \in Sids \ {minted + 1} : born'[t] = born[t] /\ row'[t] = row[t]
    BY <2>1, <2>2, BornTyped
  <2>4. \A q \in Tabs : Compared(request[q])'
    BY <2>1 DEF ResetInv, Compared
  <2> QED BY <2>1, <2>3, <2>4, BornTyped DEF ResetInv, Locks, Restores
<1>2. ASSUME NEW q \in Tabs, NEW b \in Browsers, Consumes(q, b) PROVE ResetInv'
  <2>1. PICK t \in tickets :
          /\ Deletes({t})
          /\ request' = [request EXCEPT ![q] =
               [NoRequest EXCEPT !.step = "granted", !.browser = b, !.sid = cookie[b],
                                 !.born = born[t], !.since = born[t]]]
    BY <1>2 DEF Consumes
  <2>2. t \in Sids /\ born[t] <= resets
    BY DEF SessionsInv, TypeRows, ResetInv
  <2>3. /\ request'[q].step = "granted" /\ request'[q].born = born[t] /\ request'[q].since = born[t]
        /\ \A p \in Tabs \ {q} : request'[p] = request[p]
    BY <2>1, BornTyped DEF NoRequest
  <2>4. Compared(request'[q])
    BY <2>2, <2>3 DEF Compared
  <2> QED BY <1>2, <2>1, <2>3, <2>4, RequestReset DEF Consumes, PasswordKept
<1> QED BY <1>1, <1>2

\* ResetHolds for any number of browsers, requests, sessions and resets: after a
\* reset a session has the password that was set last or the one in the row, but
\* for logins that were under way, and nothing but the rehash of such a login
\* puts an older one into the row.
THEOREM ResetLocksOut == SessionsSpec => []ResetHolds
<1>1. SessionsInit => ResetInv
  <2> SUFFICES ASSUME SessionsInit PROVE ResetInv
    OBVIOUS
  <2>1. \A q \in Tabs : request[q] = NoRequest
    BY DEF SessionsInit
  <2>2. NoRequest.born = 0 /\ NoRequest.since = 0 /\ ~NoRequest.old
    BY DEF NoRequest
  <2> QED BY <2>1, <2>2 DEF SessionsInit, ResetInv, Locks, Restores, Compared
<1>2. SessionsInv /\ ResetInv /\ [SessionsNext]_sessionVars => ResetInv'
  <2>1. ASSUME ResetInv, UNCHANGED sessionVars PROVE ResetInv'
    BY <2>1 DEF sessionVars, ResetInv, Locks, Restores, Compared
  <2> QED BY <2>1, RowsReset, LoginReset, CookieReset, PasswordsReset, TicketsReset DEF SessionsNext
<1>3. ResetInv => ResetHolds
  BY DEF ResetInv, Locks, Restores, ResetHolds, LiveSids
<1> QED BY SessionsKept, <1>1, <1>2, <1>3, PTL DEF SessionsSpec

-----------------------------------------------------------------------------
(* The cap *)

\* R tells of any two of S which is the later one.
Ordered(R, S) ==
  /\ \A s \in S : <<s, s>> \notin R
  /\ \A s, t \in S : s # t => <<s, t>> \in R \/ <<t, s>> \in R
  /\ \A s, t, u \in S : <<s, t>> \in R /\ <<t, u>> \in R => <<s, u>> \in R

\* No more than n members of an ordered set have fewer than n later ones.
LEMMA KeptFew ==
  ASSUME NEW S, IsFiniteSet(S), NEW R, Ordered(R, S), NEW n \in Nat
  PROVE  LET K == {t \in S : Cardinality({u \in S : <<u, t>> \in R}) < n}
         IN  IsFiniteSet(K) /\ Cardinality(K) <= n
<1> DEFINE Later(t) == {u \in S : <<u, t>> \in R}
           K == {t \in S : Cardinality(Later(t)) < n}
           f == [t \in K |-> Cardinality(Later(t))]
<1>1. \A t \in S : IsFiniteSet(Later(t)) /\ Cardinality(Later(t)) \in Nat
  BY FS_Subset, FS_CardinalityType
<1>2. ASSUME NEW s \in S, NEW t \in S, <<s, t>> \in R
      PROVE  Cardinality(Later(s)) < Cardinality(Later(t))
  <2>1. Later(s) \subseteq Later(t) /\ s \in Later(t) /\ s \notin Later(s)
    BY <1>2 DEF Ordered
  <2>2. Cardinality(Later(s)) <= Cardinality(Later(t))
        /\ Cardinality(Later(s)) # Cardinality(Later(t))
    <3> HIDE DEF Later
    <3> QED BY <1>1, <2>1, FS_Subset
  <2> HIDE DEF Later
  <2> QED BY <1>1, <2>2
<1>3. \A s, t \in K : f[s] = f[t] => s = t
  <2> SUFFICES ASSUME NEW s \in K, NEW t \in K, Cardinality(Later(s)) = Cardinality(Later(t)), s # t
               PROVE  FALSE
    OBVIOUS
  <2>1. s \in S /\ t \in S /\ (<<s, t>> \in R \/ <<t, s>> \in R)
    BY DEF Ordered
  <2>2. Cardinality(Later(s)) < Cardinality(Later(t)) \/ Cardinality(Later(t)) < Cardinality(Later(s))
    BY <1>2, <2>1
  <2>3. Cardinality(Later(s)) \in Nat /\ Cardinality(Later(t)) \in Nat
    BY <1>1, <2>1
  <2> HIDE DEF Later
  <2> QED BY <2>2, <2>3
<1>4. f \in Injection(K, 0..(n - 1))
  <2> HIDE DEF Later
  <2>1. f \in [K -> 0..(n - 1)]
    BY <1>1
  <2> HIDE DEF f, K
  <2> QED BY <1>3, <2>1 DEF Injection, IsInjective
<1>5. IsFiniteSet(0..(n - 1)) /\ Cardinality(0..(n - 1)) = n
  BY FS_Interval
<1> HIDE DEF f, Later
<1>6. IsFiniteSet(K) /\ Cardinality(K) <= n
  BY <1>4, <1>5, FS_Injection
<1> QED BY <1>6 DEF Later

\* Moving s to the front keeps the order.
LEMMA UsedOrders ==
  ASSUME NEW S \in SUBSET Sids, NEW s \in Sids, Ordered(newer, S \ {s})
  PROVE  Ordered(Used(s), S)
BY DEF Ordered, Used

\* A creation that overlapped no other is the only one under way; what it will
\* leave, once it has counted, is within the cap.
CapInv ==
  /\ \A s \in Creating \ crowded : Creating = {s}
  /\ Ordered(newer, LiveSids \cup Creating)
  /\ SessionCap > 0 =>
       \A s \in Sids : row[s] = "trimmed" /\ s \notin crowded =>
         Cardinality((LiveSids \cup {s}) \ marked[s]) <= SessionCap
  /\ CapBound

LEMMA FewSids ==
  ASSUME NEW S \in SUBSET Sids
  PROVE  /\ IsFiniteSet(S) /\ Cardinality(S) \in Nat
         /\ \A T \in SUBSET S : Cardinality(T) \in Nat /\ Cardinality(T) <= Cardinality(S)
<1>1. IsFiniteSet(Sids)
  BY FS_Interval, SessionsConstants DEF Sids
<1>2. IsFiniteSet(S)
  BY <1>1, FS_Subset
<1> QED BY <1>2, FS_Subset, FS_CardinalityType

\* A step that brings no row nearer to life.
LEMMA CapFewer ==
  ASSUME SessionsInv, CapInv, crowded' = crowded,
         LiveSids' \subseteq LiveSids, Creating' \subseteq Creating,
         \A s \in Creating' : row'[s] = row[s] /\ marked'[s] = marked[s],
         newer' = newer \/ \E s \in Sids : newer' = Used(s)
  PROVE  CapInv'
<1>1. LiveSids \subseteq Sids /\ LiveSids' \subseteq Sids /\ Creating \subseteq Sids /\ Creating' \subseteq Sids
  BY DEF LiveSids, Creating
<1>2. Ordered(newer, LiveSids \cup Creating) => Ordered(newer', LiveSids' \cup Creating')
  <2>1. ASSUME Ordered(newer, LiveSids \cup Creating)
        PROVE  /\ \A s : Ordered(newer, (LiveSids' \cup Creating') \ {s})
               /\ Ordered(newer, LiveSids' \cup Creating')
    BY <2>1 DEF Ordered
  <2>2. LiveSids' \cup Creating' \in SUBSET Sids
    BY <1>1
  <2> QED BY <2>1, <2>2, UsedOrders
<1>3. \A s \in Creating' \ crowded' : Creating' = {s}
  BY DEF CapInv
<1>4. ASSUME SessionCap > 0, NEW s \in Sids, row'[s] = "trimmed", s \notin crowded'
      PROVE  Cardinality((LiveSids' \cup {s}) \ marked'[s]) <= SessionCap
  <2>1. s \in Creating' /\ row[s] = "trimmed" /\ marked'[s] = marked[s]
    BY <1>4 DEF Creating
  <2>2. (LiveSids' \cup {s}) \ marked'[s] \subseteq (LiveSids \cup {s}) \ marked[s]
    BY <2>1
  <2>3. (LiveSids \cup {s}) \ marked[s] \in SUBSET Sids
    BY <1>1
  <2>4. Cardinality((LiveSids \cup {s}) \ marked[s]) <= SessionCap
    BY <1>4, <2>1 DEF CapInv
  <2> HIDE DEF LiveSids
  <2> QED BY <2>2, <2>3, <2>4, FewSids, SessionsConstants
<1>5. CapBound'
  <2>1. LiveSids' \ crowded' \subseteq LiveSids \ crowded /\ LiveSids \ crowded \in SUBSET Sids
    BY <1>1
  <2> QED BY <2>1, FewSids, SessionsConstants DEF CapInv, CapBound
<1>6. Ordered(newer', LiveSids' \cup Creating')
  BY <1>2 DEF CapInv
<1> QED BY <1>3, <1>4, <1>5, <1>6 DEF CapInv, Ordered

LEMMA PostCaps == ASSUME SessionsInv, CapInv, NEW s \in Sids, PostStep(s) PROVE CapInv'
<1>1. /\ row \in [Sids -> RowStates] /\ marked \in [Sids -> SUBSET Sids]
      /\ crowded \subseteq Sids /\ LiveSids \subseteq Sids /\ Creating \subseteq Sids
  BY DEF SessionsInv, TypeRows, TypeHistory, LiveSids, Creating
<1>2. CASE PostInserts(s)
  <2>1. /\ row[s] = "sent" /\ row' = [row EXCEPT ![s] = "hidden"] /\ newer' = Used(s)
        /\ crowded' = crowded \cup (IF Creating = {} THEN {} ELSE Creating \cup {s}) /\ marked' = marked
    BY <1>2 DEF PostInserts
  <2>2. LiveSids' = LiveSids /\ Creating' = Creating \cup {s} /\ s \notin LiveSids \cup Creating
    BY <1>1, <2>1 DEF LiveSids, Creating
  <2>3. \A t \in Creating' \ crowded' : Creating' = {t}
    BY <2>1, <2>2
  <2>4. Ordered(newer', LiveSids' \cup Creating')
    <3>1. (LiveSids' \cup Creating') \ {s} = LiveSids \cup Creating
      BY <2>2
    <3>2. LiveSids' \cup Creating' \in SUBSET Sids
      BY <1>1, <2>2
    <3>3. Ordered(newer, LiveSids \cup Creating)
      BY DEF CapInv
    <3> QED BY <2>1, <3>1, <3>2, <3>3, UsedOrders
  <2>5. \A t \in Sids : row'[t] = "trimmed" /\ t \notin crowded' =>
          row[t] = "trimmed" /\ t \notin crowded /\ marked'[t] = marked[t]
    BY <1>1, <2>1
  <2>6. CapBound'
    <3>1. LiveSids' \ crowded' \subseteq LiveSids \ crowded /\ LiveSids \ crowded \in SUBSET Sids
      BY <1>1, <2>1, <2>2
    <3> QED BY <3>1, FewSids, SessionsConstants DEF CapInv, CapBound
  <2> QED BY <2>2, <2>3, <2>4, <2>5, <2>6 DEF CapInv, Ordered
<1>3. CASE PostTrims(s)
  <2>1. /\ row[s] = "hidden" /\ row' = [row EXCEPT ![s] = "trimmed"]
        /\ marked' = [marked EXCEPT ![s] = Victims(s)] /\ newer' = newer /\ crowded' = crowded
    BY <1>3 DEF PostTrims, HistoryKept
  <2>2. LiveSids' = LiveSids /\ Creating' = Creating /\ s \in Creating
    BY <1>1, <2>1 DEF LiveSids, Creating
  <2>3. SessionCap > 0 => Cardinality(Seen(s) \ Victims(s)) <= SessionCap
    <3> SUFFICES ASSUME SessionCap > 0 PROVE Cardinality(Seen(s) \ Victims(s)) <= SessionCap
      OBVIOUS
    <3>1. Seen(s) \in SUBSET Sids /\ Seen(s) \subseteq LiveSids \cup Creating
      BY <1>1, <2>2 DEF Seen
    <3>2. IsFiniteSet(Seen(s)) /\ Ordered(newer, Seen(s))
      BY <3>1, FewSids DEF CapInv, Ordered
    <3>3. Seen(s) \ Victims(s) =
            {t \in Seen(s) : Cardinality({u \in Seen(s) : <<u, t>> \in newer}) < SessionCap}
      <4> DEFINE later(t) == Cardinality({u \in Seen(s) : <<u, t>> \in newer})
      <4>1. \A t : later(t) \in Nat
        BY <3>1, FewSids
      <4>2. \A t : t \in Victims(s) <=> t \in Seen(s) /\ later(t) >= SessionCap
        BY DEF Victims
      <4> HIDE DEF later
      <4>3. Seen(s) \ Victims(s) = {t \in Seen(s) : later(t) < SessionCap}
        BY <4>1, <4>2, SessionsConstants
      <4> QED BY <4>3 DEF later
    <3> HIDE DEF Seen, Victims
    <3> QED BY <3>2, <3>3, KeptFew, SessionsConstants
  <2>4. (LiveSids' \cup {s}) \ marked'[s] = Seen(s) \ Victims(s)
    BY <1>1, <2>1, <2>2 DEF Seen
  <2>5. \A t \in Sids \ {s} : row'[t] = row[t] /\ marked'[t] = marked[t]
    BY <1>1, <2>1
  <2>6. \A t \in Sids : SessionCap > 0 /\ row'[t] = "trimmed" /\ t \notin crowded' =>
          Cardinality((LiveSids' \cup {t}) \ marked'[t]) <= SessionCap
    <3> SUFFICES ASSUME NEW t \in Sids, SessionCap > 0, row'[t] = "trimmed", t \notin crowded'
                 PROVE  Cardinality((LiveSids' \cup {t}) \ marked'[t]) <= SessionCap
      OBVIOUS
    <3>1. CASE t = s
      BY <2>3, <2>4, <3>1
    <3>2. CASE t # s
      BY <2>1, <2>2, <2>5, <3>2 DEF CapInv
    <3> QED BY <3>1, <3>2
  <2>7. CapBound'
    BY <2>1, <2>2 DEF CapInv, CapBound
  <2> QED BY <2>1, <2>2, <2>6, <2>7 DEF CapInv
<1>4. CASE PostCommits(s)
  <2>1. /\ row[s] = "trimmed" /\ newer' = newer /\ crowded' = crowded /\ marked' = [marked EXCEPT ![s] = {}]
        /\ row' = [t \in Sids |-> IF t \in marked[s] THEN "dead" ELSE IF t = s THEN "live" ELSE row[t]]
    BY <1>4 DEF PostCommits, HistoryKept
  <2>2. /\ LiveSids' = (LiveSids \cup {s}) \ marked[s] /\ s \in Creating
        /\ Creating' \subseteq Creating \ {s}
    BY <1>1, <2>1 DEF LiveSids, Creating
  <2>3. Ordered(newer', LiveSids' \cup Creating')
    BY <2>1, <2>2 DEF CapInv, Ordered
  <2>4. \A t \in Creating' : t \in crowded'
    BY <2>1, <2>2 DEF CapInv
  <2>5. CapBound'
    <3> SUFFICES ASSUME SessionCap > 0 PROVE Cardinality(LiveSids' \ crowded') <= SessionCap
      BY DEF CapBound
    <3>1. CASE s \in crowded
      <4>1. LiveSids' \ crowded' \subseteq LiveSids \ crowded /\ LiveSids \ crowded \in SUBSET Sids
        BY <1>1, <2>1, <2>2, <3>1
      <4> QED BY <4>1, FewSids, SessionsConstants DEF CapInv, CapBound
    <3>2. CASE s \notin crowded
      <4>1. LiveSids' \ crowded' \subseteq (LiveSids \cup {s}) \ marked[s]
        BY <2>2
      <4>2. (LiveSids \cup {s}) \ marked[s] \in SUBSET Sids
        BY <1>1
      <4>3. Cardinality((LiveSids \cup {s}) \ marked[s]) <= SessionCap
        BY <2>1, <3>2 DEF CapInv
      <4> QED BY <4>1, <4>2, <4>3, FewSids, SessionsConstants
    <3> QED BY <3>1, <3>2
  <2>6. \A t \in Sids : row'[t] = "trimmed" => t \in crowded'
    BY <2>4 DEF Creating
  <2> QED BY <2>3, <2>4, <2>5, <2>6 DEF CapInv
<1>5. CASE PostFails(s)
  <2>1. /\ row[s] \in {"sent", "hidden", "trimmed"} /\ row' = [row EXCEPT ![s] = "dead"] /\ newer' = newer
        /\ crowded' = crowded /\ marked' = [marked EXCEPT ![s] = {}]
    BY <1>5 DEF PostFails, HistoryKept
  <2>2. LiveSids' \subseteq LiveSids /\ Creating' \subseteq Creating
        /\ \A t \in Creating' : row'[t] = row[t] /\ marked'[t] = marked[t]
    BY <1>1, <2>1 DEF LiveSids, Creating
  <2> QED BY <2>1, <2>2, CapFewer
<1> QED BY <1>2, <1>3, <1>4, <1>5 DEF PostStep

\* Every other step only slides, deletes or mints.
LEMMA OthersCap ==
  ASSUME SessionsInv, CapInv, SessionsNext, \A s \in Sids : ~PostStep(s)
  PROVE  CapInv'
<1> USE DEF RowsKept, PasswordKept, HistoryKept
<1>1. row \in [Sids -> RowStates] /\ marked \in [Sids -> SUBSET Sids]
  BY DEF SessionsInv, TypeRows
<1>2. ASSUME NEW gone, Deletes(gone), marked' = marked
      PROVE  /\ LiveSids' \subseteq LiveSids /\ Creating' \subseteq Creating
             /\ \A s \in Creating' : row'[s] = row[s] /\ marked'[s] = marked[s]
  BY <1>1, <1>2 DEF Deletes, LiveSids, Creating
<1>3. ASSUME NEW s, NEW since, Mints(s, since), marked' = marked
      PROVE  /\ LiveSids' \subseteq LiveSids /\ Creating' \subseteq Creating
             /\ \A t \in Creating' : row'[t] = row[t] /\ marked'[t] = marked[t]
  BY <1>1, <1>3 DEF Mints, LiveSids, Creating
<1>4. ASSUME row' = row, marked' = marked
      PROVE  /\ LiveSids' \subseteq LiveSids /\ Creating' \subseteq Creating
             /\ \A s \in Creating' : row'[s] = row[s] /\ marked'[s] = marked[s]
  BY <1>4 DEF LiveSids, Creating
<1>5. ASSUME NEW q \in Tabs, LoginStep(q) PROVE CapInv'
  <2>1. CASE LoginRotates(q)
    <3>1. marked' = marked /\ newer' = newer /\ crowded' = crowded
          /\ (Deletes({request[q].sid}) \/ row' = row)
      BY <2>1 DEF LoginRotates, Leaves
    <3> QED BY <1>2, <1>4, <3>1, CapFewer
  <2>2. CASE LoginPosts(q)
    BY <1>3, <2>2, CapFewer DEF LoginPosts
  <2>3. CASE LoginGrants(q) \/ LoginAnswers(q) \/ \E b \in Browsers : LoginReads(q, b)
    BY <1>4, <2>3, CapFewer DEF LoginGrants, LoginAnswers, LoginReads
  <2> QED BY <1>5, <2>1, <2>2, <2>3 DEF LoginStep
<1>6. ASSUME NEW q \in Tabs, CookieStep(q) \/ ChangeReads(q) PROVE CapInv'
  <2>1. CASE RequestTouches(q) \/ RequestSaves(q)
    <3>1. row' = row /\ marked' = marked /\ crowded' = crowded /\ Slides(request[q].sid)
      BY <2>1 DEF RequestTouches, RequestSaves
    <3>2. newer' = newer \/ \E s \in Sids : newer' = Used(s)
      BY <3>1 DEF Slides, LiveSids
    <3> QED BY <1>4, <3>1, <3>2, CapFewer
  <2>2. CASE Logout(q)
    <3>1. marked' = marked /\ newer' = newer /\ crowded' = crowded
          /\ (Deletes({request[q].sid}) \/ row' = row)
      BY <2>2 DEF Logout, Leaves
    <3> QED BY <1>2, <1>4, <3>1, CapFewer
  <2>3. CASE ChangeReads(q) \/ \E b \in Browsers : RequestOpens(q, b)
    BY <1>4, <2>3, CapFewer DEF ChangeReads, RequestOpens
  <2> QED BY <1>6, <2>1, <2>2, <2>3 DEF CookieStep
<1>7. ASSUME NEW q \in Tabs, ChangeCommits(q) \/ \E b \in Browsers : Consumes(q, b) PROVE CapInv'
  <2>1. \E gone : Deletes(gone)
    BY <1>7 DEF ChangeCommits, Consumes
  <2>2. marked' = marked /\ newer' = newer /\ crowded' = crowded
    BY <1>7 DEF ChangeCommits, Consumes
  <2> QED BY <1>2, <2>1, <2>2, CapFewer
<1>8. ASSUME NEW s \in Sids, SessionExpires(s) PROVE CapInv'
  BY <1>2, <1>8, CapFewer DEF SessionExpires
<1>9. CASE OperatorSets
  BY <1>4, <1>9, CapFewer DEF OperatorSets
<1>10. CASE OperatorRevokes
  BY <1>2, <1>10, CapFewer DEF OperatorRevokes
<1>11. CASE TicketMints
  BY <1>3, <1>11, CapFewer DEF TicketMints
<1> QED BY <1>5, <1>6, <1>7, <1>8, <1>9, <1>10, <1>11 DEF SessionsNext

\* CapBound for every cap and every number of browsers and requests: a creation
\* leaves more sessions than the cap only where another one overlapped it.
THEOREM CapKept == SessionsSpec => []CapBound
<1>1. SessionsInit => CapInv
  <2> SUFFICES ASSUME SessionsInit PROVE CapInv
    OBVIOUS
  <2>1. LiveSids = {} /\ Creating = {} /\ \A s \in Sids : row[s] = "unused"
    BY DEF SessionsInit, LiveSids, Creating
  <2> QED BY <2>1, FS_EmptySet, SessionsConstants DEF CapInv, CapBound, Ordered
<1>2. SessionsInv /\ CapInv /\ [SessionsNext]_sessionVars => CapInv'
  <2>1. CapInv /\ UNCHANGED sessionVars => CapInv'
    BY DEF sessionVars, CapInv, CapBound, LiveSids, Creating, Ordered
  <2> QED BY <2>1, PostCaps, OthersCap
<1>3. CapInv => CapBound
  BY DEF CapInv
<1> QED BY <1>1, <1>2, <1>3, SessionsKept, PTL DEF SessionsSpec
=============================================================================

----------------------------- MODULE NodeClient -----------------------------
(***************************************************************************)
(* The panel's client of a node that lists several addresses of one agent: *)
(* the probe before the first request, the walk over the addresses and the *)
(* cooldown of those that failed, under several threads.  The threads      *)
(* share the client; its answers decide what they try next.                *)
(***************************************************************************)
EXTENDS Integers, FiniteSets, Sequences

CONSTANTS
  ClientThreads,  \* panel threads
  Addresses, \* how many addresses the node lists
  Methods, \* bound: what is asked, of "GET", "POST" and "create"
  MaxFlips, \* bound: how often what is at an address changes
  MaxLost \* bound: answers of the agent that are lost, by a timeout or a reset

ASSUME NodeClientConstants ==
  /\ Addresses \in Nat \ {0} /\ MaxFlips \in Nat /\ MaxLost \in Nat
  /\ Methods \subseteq {"GET", "POST", "create"}

Urls == 1..Addresses
\* "refuses": no connection, so nothing is sent; "silent": it times out;
\* "foreign": the error page of something else.
Conditions == {"agent", "refuses", "silent", "foreign"}

VARIABLES
  answers,  \* what is at each address
  dead,     \* _dead_urls: addresses in their cooldown
  active,   \* _active
  probed,   \* _probed
  call,     \* the request of each thread
  flips,    \* history: changes of an address
  lost      \* history: answers that were lost

clientVars == <<answers, dead, active, probed, call, flips, lost>>

CallSteps == {"idle", "begun", "probing", "ready", "pinging", "trying", "answered", "failed"}
Call == [step : CallSteps, method : {"GET", "POST", "create"},
         walk : Seq(Urls),       \* addresses that are left to try
         skipped : SUBSET Urls,  \* history: those that were left out
         asked : SUBSET Urls,    \* history: those that were tried
         acted : Nat,            \* history: how often the agent carried out a write
         cut : Nat]              \* history: those after which it reset the connection
NoCall == [step |-> "idle", method |-> "GET", walk |-> <<>>,
           skipped |-> {}, asked |-> {}, acted |-> 0, cut |-> 0]

Walked(t) == {call[t].walk[i] : i \in DOMAIN call[t].walk}
\* One thread probes, and no walk comes to an address twice.
NodeClientTypeOK ==
  /\ answers \in [Urls -> Conditions] /\ dead \subseteq Urls /\ active \in Urls
  /\ probed \in BOOLEAN /\ call \in [ClientThreads -> Call]
  /\ flips \in 0..MaxFlips /\ lost \in 0..MaxLost
  /\ \A t, s \in ClientThreads : call[t].step = "probing" /\ call[s].step = "probing" => t = s
  /\ \A t \in ClientThreads : Cardinality(Walked(t)) = Len(call[t].walk)

NodeClientInit ==
  /\ answers \in [Urls -> Conditions] /\ dead = {} /\ active = 1 /\ probed = FALSE
  /\ call = [t \in ClientThreads |-> NoCall] /\ flips = 0 /\ lost = 0

-----------------------------------------------------------------------------
(* Helpers *)

\* Addresses in the order they are tried: the active one first, the others as
\* the column lists them.
Place(u) == IF u = active THEN 0 ELSE u
InOrder(S) ==
  [k \in 1..Cardinality(S) |->
     CHOOSE u \in S : Cardinality({v \in S : Place(v) < Place(u)}) = k - 1]
Order == InOrder(Urls)
Fit == InOrder(Urls \ dead)
\* Mutant: what is in its cooldown is refused without an attempt.
CandidatesFit == Fit
\* _candidates: a cooldown of all addresses is ignored.
Candidates == IF Fit = <<>> THEN Order ELSE Fit

\* Mutant: the address that answered is not remembered.
MarkLiveForgets(u) == dead' = dead \ {u} /\ UNCHANGED active
MarkLive(u) == dead' = dead \ {u} /\ active' = u
MarkDead(u) == dead' = dead \cup {u} /\ UNCHANGED active

CallGoes(t, step) == call' = [call EXCEPT ![t].step = step]
\* A walk over nothing falls through to the error.
Walks(t, step) ==
  call' = [call EXCEPT ![t].step = IF Candidates = <<>> THEN "failed" ELSE step,
    ![t].walk = Candidates,
    ![t].skipped = {u \in Urls : \A i \in DOMAIN Candidates : Candidates[i] # u}]
\* The next address in the walk, or the end of it.
Moves(t, atEnd, cut) ==
  call' = [call EXCEPT ![t].walk = Tail(@), ![t].asked = @ \cup {Head(call[t].walk)},
    ![t].step = IF Len(call[t].walk) = 1 THEN atEnd ELSE @,
    ![t].acted = @ + cut, ![t].cut = @ + cut]
Leaves(t, step, acted) ==
  call' = [call EXCEPT ![t].walk = <<>>, ![t].asked = @ \cup {Head(call[t].walk)},
    ![t].step = step, ![t].acted = @ + IF call[t].method = "GET" THEN 0 ELSE acted]
AddressesKept == UNCHANGED <<answers, flips>>

-----------------------------------------------------------------------------
(* The probes *)

CallBegins(t) ==
  /\ call[t].step = "idle"
  /\ \E m \in Methods : call' = [call EXCEPT ![t] = [NoCall EXCEPT !.step = "begun", !.method = m]]
  /\ AddressesKept /\ UNCHANGED <<dead, active, probed, lost>>

\* Mutant: the probe lock is not taken.
EnsureActiveUnlocked(t) ==
  /\ call[t].step = "begun"
  /\ IF probed \/ Addresses = 1 THEN CallGoes(t, "ready") ELSE Walks(t, "probing")
  /\ AddressesKept /\ UNCHANGED <<dead, active, probed, lost>>
\* _ensure_active takes the _probe_lock; one address needs no probe.
EnsureActive(t) ==
  /\ call[t].step = "begun"
  /\ IF probed \/ Addresses = 1 THEN CallGoes(t, "ready")
     ELSE (\A s \in ClientThreads : call[s].step # "probing") /\ Walks(t, "probing")
  /\ AddressesKept /\ UNCHANGED <<dead, active, probed, lost>>

\* The identity in the body of /health tells the agent from anything else.
Probes(t) ==
  LET u == Head(call[t].walk) IN
  /\ call[t].step = "probing" /\ call[t].walk # <<>>
  /\ IF answers[u] = "agent"
     THEN active' = u /\ probed' = TRUE /\ Leaves(t, "ready", 0) /\ UNCHANGED dead
     ELSE MarkDead(u) /\ Moves(t, "ready", 0) /\ probed' = (probed \/ Len(call[t].walk) = 1)
  /\ AddressesKept /\ UNCHANGED lost

\* create_server pings before it sends; everything else walks at once.
CallWalks(t) ==
  /\ call[t].step = "ready"
  /\ Walks(t, IF call[t].method = "create" THEN "pinging" ELSE "trying")
  /\ AddressesKept /\ UNCHANGED <<dead, active, probed, lost>>

\* ping; the create that follows is a POST.
Pings(t) ==
  LET u == Head(call[t].walk) IN
  /\ call[t].step = "pinging" /\ call[t].walk # <<>>
  /\ IF answers[u] = "agent"
     THEN /\ MarkLive(u)
          /\ call' = [call EXCEPT ![t] = [NoCall EXCEPT !.step = "begun", !.method = "POST"]]
     ELSE MarkDead(u) /\ Moves(t, "failed", 0)
  /\ AddressesKept /\ UNCHANGED <<probed, lost>>

-----------------------------------------------------------------------------
(* The walk of _request *)

Trying(t) == call[t].step = "trying" /\ call[t].walk # <<>>

\* Any answer of the agent ends the walk, an error of its own included.
AgentAnswers(t) ==
  /\ Trying(t) /\ answers[Head(call[t].walk)] = "agent"
  /\ MarkLive(Head(call[t].walk)) /\ Leaves(t, "answered", 1)
  /\ AddressesKept /\ UNCHANGED <<probed, lost>>

\* Mutant: a write that timed out is sent to the next address as well.
RetriesAll(t) == TRUE
\* A GET may be asked again elsewhere; a write that may have been sent may not.
Retries(t) == call[t].method = "GET"

\* The agent acts and its answer is lost, or it is not reached in time.
TimesOut(t) ==
  /\ Trying(t)
  /\ LET u == Head(call[t].walk) IN
     /\ \/ answers[u] = "agent" /\ lost < MaxLost /\ lost' = lost + 1
        \/ answers[u] = "silent" /\ UNCHANGED lost
     /\ MarkDead(u)
     /\ call' = [call EXCEPT
          ![t].walk = IF Retries(t) THEN Tail(@) ELSE <<>>,
          ![t].asked = @ \cup {u},
          ![t].acted = IF answers[u] = "agent" /\ call[t].method # "GET" THEN @ + 1 ELSE @,
          ![t].step = IF Retries(t) /\ Len(call[t].walk) > 1 THEN @ ELSE "failed"]
  /\ AddressesKept /\ UNCHANGED probed

\* _is_connect_failure: any method goes on.  A reset connection counts as one that
\* was refused, also when the agent had the request by then and carried it out.
ConnectFails(t) ==
  /\ Trying(t)
  /\ LET u == Head(call[t].walk) IN
     /\ \/ answers[u] = "refuses" /\ Moves(t, "failed", 0) /\ UNCHANGED lost
        \/ /\ answers[u] = "agent" /\ lost < MaxLost /\ lost' = lost + 1
           /\ \E cut \in {0, 1} : Moves(t, "failed", IF call[t].method = "GET" THEN 0 ELSE cut)
     /\ MarkDead(u)
  /\ AddressesKept /\ UNCHANGED probed

\* _speaks_agent: as dead as one that refuses, and the client probes again.
AnsweredByOther(t) ==
  /\ Trying(t) /\ answers[Head(call[t].walk)] = "foreign"
  /\ MarkDead(Head(call[t].walk)) /\ probed' = FALSE
  /\ IF Retries(t) THEN Moves(t, "failed", 0) ELSE Leaves(t, "failed", 0)
  /\ AddressesKept /\ UNCHANGED lost

CallEnds(t) ==
  /\ call[t].step \in {"answered", "failed"}
  /\ call' = [call EXCEPT ![t] = NoCall]
  /\ AddressesKept /\ UNCHANGED <<dead, active, probed, lost>>

-----------------------------------------------------------------------------
(* The addresses *)

CooldownEnds(u) ==
  /\ u \in dead /\ dead' = dead \ {u}
  /\ AddressesKept /\ UNCHANGED <<active, probed, call, lost>>

AddressChanges(u) ==
  /\ flips < MaxFlips /\ flips' = flips + 1
  /\ \E c \in Conditions \ {answers[u]} : answers' = [answers EXCEPT ![u] = c]
  /\ UNCHANGED <<dead, active, probed, call, lost>>

-----------------------------------------------------------------------------
CallGoesOn(t) ==
  \/ EnsureActive(t) \/ Probes(t) \/ CallWalks(t) \/ Pings(t)
  \/ AgentAnswers(t) \/ TimesOut(t) \/ ConnectFails(t) \/ AnsweredByOther(t) \/ CallEnds(t)

NodeClientNext ==
  \/ \E t \in ClientThreads : CallBegins(t) \/ CallGoesOn(t)
  \/ \E u \in Urls : CooldownEnds(u) \/ AddressChanges(u)

NodeClientSpec == NodeClientInit /\ [][NodeClientNext]_clientVars

\* A thread that has a request goes on with it, and time passes.
NodeClientFairness ==
  /\ \A t \in ClientThreads : WF_clientVars(CallGoesOn(t))
  /\ \A u \in Urls : WF_clientVars(CooldownEnds(u))
FairNodeClientSpec == NodeClientSpec /\ NodeClientFairness

-----------------------------------------------------------------------------
(* Properties *)

\* A write that was carried out is sent again only if the agent reset the
\* connection after it, whichever addresses fail and however: with no such reset
\* the agent carries a write out once at most ("a replayed create would leave two
\* containers behind"), and with some once more for each at most.
WriteOnce == \A t \in ClientThreads : call[t].acted <= 1 + call[t].cut

\* A request fails only after an attempt ("Refusing here would fail the request
\* without a single attempt"), and a read only when every address was tried or
\* was in its cooldown.
FailsAsked ==
  \A t \in ClientThreads : call[t].step = "failed" =>
    /\ call[t].asked # {}
    /\ call[t].method = "GET" => call[t].asked \cup call[t].skipped = Urls

\* When the agent stays at one of the addresses and reads go on, requests stop
\* failing, writes included, whatever is at the others: no address that costs a
\* write its time is tried first for good (_mark_live, _mark_dead).  Without the
\* reads a silent address stays the active one: each write comes to it again as
\* soon as its cooldown is over.
Recovers ==
  \A u \in Urls :
    /\ <>[](answers[u] = "agent")
    /\ []<>(\E t \in ClientThreads : call[t].step = "answered" /\ call[t].method = "GET")
    => <>[](\A t \in ClientThreads : call[t].step # "failed")
=============================================================================

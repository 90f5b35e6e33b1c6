------------------------------ MODULE MCLive -------------------------------
(***************************************************************************)
(* Instances of the models whose promises are about what happens in the    *)
(* end, side by side: a behaviour picks one of them, the others stay as    *)
(* they began, and only the steps of the one that was picked are fair.     *)
(* The status message is there twice: by one engine that may be asked for  *)
(* everything (a poll that fails is left to the run that shows what it     *)
(* does), and by two engines that share the bot and only tick.             *)
(***************************************************************************)
EXTENDS Trials, NodeClient, HardClose, Publisher, Catalog

CONSTANTS sw, panel, t1, t2, e1, e2, c1, c2

OneSweeper == {sw}
OneDoor == {panel}
TwoThreads == {t1, t2}
TwoEngines == {e1, e2}
TwoCallers == {c1, c2}

VARIABLE part

liveVars == <<part, trialVars, clientVars, closeVars, vars, catalogVars>>

\* A client that has been in use, when an address changed for the last time
\* and every cooldown is over.
UsedClient ==
  /\ answers \in [Urls -> Conditions] /\ \E u \in Urls : answers[u] = "agent"
  /\ dead = {} /\ active \in Urls /\ probed \in BOOLEAN
  /\ call = [t \in ClientThreads |-> NoCall] /\ flips = 0 /\ lost = 0

LiveInit ==
  /\ part \in {"trials", "client", "close", "one", "two", "catalog"}
  /\ TrialsInit /\ HardCloseInit /\ Init /\ CatalogInit
  /\ IF part = "client" THEN UsedClient
     ELSE NodeClientInit /\ answers = [u \in Urls |-> "agent"]

\* In the part "one" no poll fails and the second engine is not there.
Here(e) == part = "two" \/ (part = "one" /\ e = e1)
Ticks(e) ==
  /\ Here(e) /\ TickStep(e)
  /\ (part = "one" /\ job'[Worker(e)].step = "polled" => age' = age)
IsAsked(e) == part = "one" /\ e = e1 /\ (GenerateBegins(e) \/ Start(e))

PublisherNext ==
  \/ \E e \in Engines :
       \/ Ticks(e) \/ IsAsked(e)
       \/ Here(e) /\ (GenerateStep(e) \/ Stop(e) \/ Crash(e))
       \/ Here(e) /\ (PublishStep(Worker(e)) \/ PublishStep(Manual(e)))
  \/ Save \/ Erase \/ TrialEnds \/ TrialSweep \/ Clock

InTrials(A) ==
  part = "trials" /\ A /\ UNCHANGED <<part, clientVars, closeVars, vars, catalogVars>>
InClient(A) ==
  part = "client" /\ A /\ UNCHANGED <<part, trialVars, closeVars, vars, catalogVars>>
InClose(A) ==
  part = "close" /\ A /\ UNCHANGED <<part, trialVars, clientVars, vars, catalogVars>>
InEngine(A) ==
  part \in {"one", "two"} /\ A
  /\ UNCHANGED <<part, trialVars, clientVars, closeVars, catalogVars>>
InCatalog(A) ==
  part = "catalog" /\ A /\ UNCHANGED <<part, trialVars, clientVars, closeVars, vars>>

LiveNext ==
  \/ InTrials(TrialsNext)
  \/ InClient(NodeClientNext)
  \/ InClose(HardCloseNext)
  \/ InEngine(PublisherNext)
  \/ InCatalog(CatalogNext)

\* The fairness of Trials, NodeClient, Publisher and Catalog.  A behaviour is in
\* one part for ever, so a condition on one action of each is one on each.
Serves(thread, engine, caller, url, f) ==
  /\ WF_liveVars(\/ InClient(CallGoesOn(thread)) \/ InEngine(Ticks(engine))
                 \/ InCatalog(AskGoesOn(caller)))
  /\ WF_liveVars(InClient(CooldownEnds(url)) \/ InEngine(Here(engine) /\ GenerateStep(engine))
                 \/ InCatalog(FetchGoesOn(f)))
  /\ WF_liveVars(InEngine(Here(engine) /\ PublishStep(Worker(engine))))
  /\ WF_liveVars(InEngine(Here(engine) /\ PublishStep(Manual(engine))))
  /\ SF_liveVars(InEngine(Here(engine) /\ TickLocks(engine)) \/ InCatalog(AskStarts(caller)))
LiveFairness ==
  /\ WF_liveVars(InTrials(Day) \/ InEngine(Clock) \/ InCatalog(BackoffEnds))
  /\ WF_liveVars(InTrials(PassStep(sw))) /\ WF_liveVars(InTrials(RenewWrites(panel)))
  /\ Serves(t1, e1, c1, 1, 1) /\ Serves(t2, e2, c2, 2, 2)
  /\ SF_liveVars(InCatalog(\E f \in Fetches : FetchStores(f)))

LiveSpec == LiveInit /\ [][LiveNext]_liveVars /\ LiveFairness

\* A running bot of the single engine is published again and again.
OneRefreshes == part = "one" => Refreshes

\* The variables of each model keep their types.
LiveTypeOK == HardCloseTypeOK /\ TypeOK /\ CatalogTypeOK
=============================================================================

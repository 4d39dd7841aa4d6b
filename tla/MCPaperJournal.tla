--------------------------- MODULE MCPaperJournal ----------------------------
(***************************************************************************)
(* Model-checking instances of components that share no state: the          *)
(* paper journal (two processes, so that one can be mid-append while the    *)
(* other opens, retries or dies), the paper account, the paper study lineage, *)
(* the market store, the sealed forward study, the Vision cache and a market *)
(* data source. Every behaviour is a behaviour of one of them.              *)
(***************************************************************************)
EXTENDS PaperJournal, PaperAccount, PaperAttempt, MarketStore, ForwardStudy, VisionCache, MarketSource, TLC

Symmetry == Permutations(Clients) \union Permutations(Versions) \union Permutations(Fetchers)

Kline(f, t) == [kind |-> "klines", from |-> f, to |-> t]
Ingest(p, w, r) == [plan |-> p, warm |-> w, refetch |-> r]
SomeArchives == {Kline(0, 2), Kline(1, 3)}
SomeRequests == {Ingest(<<Kline(0, 2)>>, FALSE, TRUE), Ingest(<<Kline(1, 3)>>, TRUE, FALSE)}
SomeExports == {[end |-> 3, warm |-> TRUE]}
SomeWindows == {[start |-> s, end |-> e] : s \in {0, 2}, e \in {6, 8}} \union {[start |-> 1, end |-> 7]}
SomeBars == {(0..7) \ h : h \in {{a} : a \in 0..7} \union {{}, {2, 3}, {3, 6}}}
SomeFunding == {{0, 4, 8}, {2, 4, 6, 8}}

(* The store, the cache of raw archives and a source built on either account for themselves: *)
(* rows, sources and runs agree and only a live run writes; bytes read back were served      *)
(* whole; a series has the bars of the exchange and every clock the same funding.            *)
MarketDataAccountsForItself ==
  [][/\ \/ UNCHANGED marketVars
        \/ /\ (StoreMatchesSources /\ SucceededRunsAccount /\ WarmupExportIsNamed)'
           /\ OnlyLiveRunsWrite
     /\ UNCHANGED visionVars \/ (BytesWereServed /\ QuietCallLeavesAPair)'
     /\ \/ UNCHANGED seriesVars
        \/ (SeriesAreTheExchanges /\ ClocksAgreeOnFunding /\ FundingIsAccruedOnce)'
    ]_<<marketVars, visionVars, seriesVars>>

-----------------------------------------------------------------------------
VARIABLE part  \* the component that runs; the others keep their initial state

Parts == {"journal", "account", "attempt", "market", "forward", "vision", "series"}

GroupInit ==
  /\ part \in Parts
  /\ Init
  /\ AccountInit
  /\ AttemptInit
  /\ MarketInit
  /\ ForwardInit
  /\ VisionInit
  /\ SeriesInit
  /\ archive = CHOOSE x \in Payloads : TRUE

groupVars == <<part, vars, accountVars, attemptVars, marketVars, forwardVars, visionVars, seriesVars>>

GroupNext ==
  \/ part = "journal" /\ Next /\ UNCHANGED <<part, accountVars, attemptVars, marketVars, forwardVars, visionVars, seriesVars>>
  \/ part = "account" /\ AccountNext /\ UNCHANGED <<part, vars, attemptVars, marketVars, forwardVars, visionVars, seriesVars>>
  \/ part = "attempt" /\ AttemptNext /\ UNCHANGED <<part, vars, accountVars, marketVars, forwardVars, visionVars, seriesVars>>
  \/ part = "market" /\ MarketNext /\ UNCHANGED <<part, vars, accountVars, attemptVars, forwardVars, visionVars, seriesVars>>
  \/ part = "forward" /\ ForwardNext /\ UNCHANGED <<part, vars, accountVars, attemptVars, marketVars, visionVars, seriesVars>>
  \/ part = "vision" /\ VisionNext /\ UNCHANGED <<part, vars, accountVars, attemptVars, marketVars, forwardVars, seriesVars>>
  \/ part = "series" /\ SeriesNext /\ UNCHANGED <<part, vars, accountVars, attemptVars, marketVars, forwardVars, visionVars>>
  \/ part \notin {"journal"} /\ UNCHANGED groupVars  \* the others stop at their bounds

GroupSpec == GroupInit /\ [][GroupNext]_groupVars

==============================================================================

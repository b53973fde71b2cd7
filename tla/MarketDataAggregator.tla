------------------------ MODULE MarketDataAggregator ------------------------
(***************************************************************************)
(* MarketDataAggregator: the cache the connector threads write and the     *)
(* decision loop reads (MarketDataAggregator.cpp).                         *)
(*                                                                         *)
(* Every mutator takes dataMutex around one map assignment.  The copy of  *)
(* an OrderBookUpdate or FundingData into the map is not atomic, so a      *)
(* write is two steps: the connector thread takes the lock and starts the  *)
(* assignment (the value being written is in bookPending / fundingPending),*)
(* then finishes it and releases the lock.  Every reader sees each field  *)
(* of an entry being written either old or new; a reader that takes the   *)
(* lock (getFundingData, printSnapshot) waits for the write to finish,    *)
(* while getLatestUpdates hands out a reference to the map and does not.  *)
(***************************************************************************)
EXTENDS Integers, Rat

CONSTANTS
    BookVenues,      \* connector names: the keys of exchangeData
    Feed,            \* Feed[v]: the OrderBookUpdates connector v may deliver
    FundingVenues,   \* keys of fundingInfo
    FundingFeed,     \* the FundingData values the mark-price stream may deliver
    SyntheticNames,  \* keys of syntheticData
    SyntheticFeed,   \* SyntheticInstrument values (opaque)
    Absent,          \* no entry under the key
    None,            \* no write in progress
    Free             \* dataMutex not held

VARIABLES exchangeData, fundingInfo, syntheticData,
          bookPending, fundingPending, lock,
          fundingSeen,   \* what the decision thread's last getFundingData returned
          snapshotSeen   \* what its last printSnapshot showed

cacheVars == <<exchangeData, fundingInfo, syntheticData,
               bookPending, fundingPending, lock>>
readVars == <<fundingSeen, snapshotSeen>>

LOCAL Math == INSTANCE ArbitrageMath

BookHolder(v) == <<"book", v>>
FundingHolder(v) == <<"funding", v>>

\* A value-initialised FundingData, inserted by operator[] before the copy.
ZeroFunding == [markPrice |-> 0, fundingRate |-> Zero]

CacheTypeOK ==
    /\ exchangeData \in [BookVenues -> UNION {Feed[v] : v \in BookVenues} \cup {Absent}]
    /\ fundingInfo \in [FundingVenues -> FundingFeed \cup {Absent}]
    /\ syntheticData \in [SyntheticNames -> SyntheticFeed \cup {Absent}]
    /\ bookPending \in [BookVenues -> UNION {Feed[v] : v \in BookVenues} \cup {None}]
    /\ fundingPending \in [FundingVenues -> FundingFeed \cup {None}]
    /\ lock \in {Free} \cup {BookHolder(v) : v \in BookVenues}
                       \cup {FundingHolder(v) : v \in FundingVenues}

CacheInit ==
    /\ exchangeData = [v \in BookVenues |-> Absent]
    /\ fundingInfo = [v \in FundingVenues |-> Absent]
    /\ syntheticData = [n \in SyntheticNames |-> Absent]
    /\ bookPending = [v \in BookVenues |-> None]
    /\ fundingPending = [v \in FundingVenues |-> None]
    /\ lock = Free
    /\ fundingSeen = [v \in FundingVenues |-> Absent]
    /\ snapshotSeen = <<exchangeData, fundingInfo, syntheticData>>

(***************************************************************************)
(* update(exchange, update), called from connector v's orderBookCallback:  *)
(* lock, then exchangeData[exchange] = update in two steps.                *)
(***************************************************************************)
BeginUpdate(v, b) ==
    /\ lock = Free
    /\ lock' = BookHolder(v)
    /\ bookPending' = [bookPending EXCEPT ![v] = b]
    /\ UNCHANGED <<exchangeData, fundingInfo, syntheticData, fundingPending, readVars>>

\* Fault model: the pending slot is cleared before it is copied.
EndUpdateClearFirst(v) ==
    /\ lock = BookHolder(v)
    /\ bookPending' = [bookPending EXCEPT ![v] = None]
    /\ exchangeData' = [exchangeData EXCEPT ![v] = bookPending'[v]]
    /\ lock' = Free
    /\ UNCHANGED <<fundingInfo, syntheticData, fundingPending, readVars>>

EndUpdate(v) ==
    /\ lock = BookHolder(v)
    /\ exchangeData' = [exchangeData EXCEPT ![v] = bookPending[v]]
    /\ bookPending' = [bookPending EXCEPT ![v] = None]
    /\ lock' = Free
    /\ UNCHANGED <<fundingInfo, syntheticData, fundingPending, readVars>>

(***************************************************************************)
(* updateFundingAndMark(exchange, mark, funding), from the BinancePerp    *)
(* mark-price callback.                                                    *)
(***************************************************************************)
BeginUpdateFundingAndMark(v, f) ==
    /\ lock = Free
    /\ lock' = FundingHolder(v)
    /\ fundingPending' = [fundingPending EXCEPT ![v] = f]
    /\ UNCHANGED <<exchangeData, fundingInfo, syntheticData, bookPending, readVars>>

EndUpdateFundingAndMark(v) ==
    /\ lock = FundingHolder(v)
    /\ fundingInfo' = [fundingInfo EXCEPT ![v] = fundingPending[v]]
    /\ fundingPending' = [fundingPending EXCEPT ![v] = None]
    /\ lock' = Free
    /\ UNCHANGED <<exchangeData, syntheticData, bookPending, readVars>>

\* updateSynthetic(name, synthetic): nothing reads the map without the lock
\* while it runs, so its one assignment is one step.
UpdateSynthetic(n, s) ==
    /\ lock = Free
    /\ syntheticData' = [syntheticData EXCEPT ![n] = s]
    /\ UNCHANGED <<exchangeData, fundingInfo, bookPending, fundingPending, lock, readVars>>

(***************************************************************************)
(* Reads.  Every reader reads the entry's memory: while a copy is in       *)
(* flight, each field is old or new (the zero value if operator[] has just *)
(* inserted the key).  Only the lock keeps a reader from seeing that.      *)
(***************************************************************************)
Torn(old, new, fields) == [f \in DOMAIN old |-> IF f \in fields THEN new[f] ELSE old[f]]

EntryViews(cur, pending, zero, fields) ==
    IF pending = None THEN {cur}
    ELSE LET old == IF cur = Absent THEN zero ELSE cur
         IN  {Torn(old, pending, F) : F \in SUBSET fields}

BookViews(v) == EntryViews(exchangeData[v], bookPending[v], Math!ZeroBook, Math!ScalarFields)

FundingViews(v) == EntryViews(fundingInfo[v], fundingPending[v], ZeroFunding, DOMAIN ZeroFunding)

\* One view of every key's entry.
Views(keys, ViewsOf(_)) ==
    {f \in [keys -> UNION {ViewsOf(k) : k \in keys}] : \A k \in keys : f[k] \in ViewsOf(k)}

\* getLatestUpdates(): an unlocked reference.  count(v) is true from the
\* moment operator[] inserts the entry; the entry then holds a zero book
\* until the first copy completes.
HasEntry(v) == exchangeData[v] # Absent \/ bookPending[v] # None

LatestViews(v) == {IF b = Absent THEN Math!ZeroBook ELSE b : b \in BookViews(v)}

\* Fault model: getFundingData without its lock_guard.
GetFundingDataUnlocked(v) ==
    /\ \E seen \in FundingViews(v) : fundingSeen' = [fundingSeen EXCEPT ![v] = seen]
    /\ UNCHANGED <<cacheVars, snapshotSeen>>

\* getFundingData(exchange): under the lock, the entry or Absent (nullopt).
GetFundingData(v) ==
    /\ lock = Free
    /\ \E seen \in FundingViews(v) : fundingSeen' = [fundingSeen EXCEPT ![v] = seen]
    /\ UNCHANGED <<cacheVars, snapshotSeen>>

\* printSnapshot(): every book, funding entry and synthetic, under the lock.
PrintSnapshot ==
    /\ lock = Free
    /\ \E books \in Views(BookVenues, BookViews), fund \in Views(FundingVenues, FundingViews) :
          snapshotSeen' = <<books, fund, syntheticData>>
    /\ UNCHANGED <<cacheVars, fundingSeen>>

(***************************************************************************)
(* The cache on its own: the connector threads write, the decision thread  *)
(* makes its locked reads.                                                 *)
(***************************************************************************)
CacheNext ==
    \/ \E v \in BookVenues : \E b \in Feed[v] : BeginUpdate(v, b)
    \/ \E v \in BookVenues : EndUpdate(v)
    \/ \E v \in FundingVenues, f \in FundingFeed : BeginUpdateFundingAndMark(v, f)
    \/ \E v \in FundingVenues : EndUpdateFundingAndMark(v)
    \/ \E n \in SyntheticNames, s \in SyntheticFeed : UpdateSynthetic(n, s)
    \/ \E v \in FundingVenues : GetFundingData(v)
    \/ PrintSnapshot

CacheSpec == CacheInit /\ [][CacheNext]_<<cacheVars, readVars>>

Abstract == INSTANCE MarketStateCache WITH
    BookKeys <- BookVenues, Books <- UNION {Feed[v] : v \in BookVenues},
    FundingKeys <- FundingVenues, Fundings <- FundingFeed,
    Synthetics <- SyntheticFeed,
    books <- exchangeData, funding <- fundingInfo, synthetics <- syntheticData

\* Every write the connectors make takes effect atomically and last-write-
\* wins, and every locked read (getFundingData, printSnapshot) returns the
\* entries as they stand, never a copy in flight, although each copy into
\* the map spans two steps and the readers read the map's memory: dataMutex
\* makes the cache implement MarketStateCache.
RefinesMarketStateCache == Abstract!Spec
=============================================================================

-------------------------- MODULE MarketStateCache --------------------------
(***************************************************************************)
(* What the market-state cache promises (spec 4.1): per-key last-write-    *)
(* wins updates of order books, funding and synthetic instruments, each    *)
(* atomic, and reads that return a value the cache really held at one      *)
(* instant.  fundingSeen and snapshotSeen hold what the last read          *)
(* returned.                                                               *)
(***************************************************************************)
CONSTANTS BookKeys, Books, FundingKeys, Fundings, SyntheticNames, Synthetics,
          Absent

VARIABLES books, funding, synthetics, fundingSeen, snapshotSeen

vars == <<books, funding, synthetics, fundingSeen, snapshotSeen>>

Init ==
    /\ books = [k \in BookKeys |-> Absent]
    /\ funding = [k \in FundingKeys |-> Absent]
    /\ synthetics = [n \in SyntheticNames |-> Absent]
    /\ fundingSeen = [k \in FundingKeys |-> Absent]
    /\ snapshotSeen = <<books, funding, synthetics>>

Update(k, b) ==
    /\ books' = [books EXCEPT ![k] = b]
    /\ UNCHANGED <<funding, synthetics, fundingSeen, snapshotSeen>>

UpdateFunding(k, f) ==
    /\ funding' = [funding EXCEPT ![k] = f]
    /\ UNCHANGED <<books, synthetics, fundingSeen, snapshotSeen>>

UpdateSynthetic(n, s) ==
    /\ synthetics' = [synthetics EXCEPT ![n] = s]
    /\ UNCHANGED <<books, funding, fundingSeen, snapshotSeen>>

ReadFunding(k) ==
    /\ fundingSeen' = [fundingSeen EXCEPT ![k] = funding[k]]
    /\ UNCHANGED <<books, funding, synthetics, snapshotSeen>>

ReadSnapshot ==
    /\ snapshotSeen' = <<books, funding, synthetics>>
    /\ UNCHANGED <<books, funding, synthetics, fundingSeen>>

Next ==
    \/ \E k \in BookKeys, b \in Books : Update(k, b)
    \/ \E k \in FundingKeys, f \in Fundings : UpdateFunding(k, f)
    \/ \E n \in SyntheticNames, s \in Synthetics : UpdateSynthetic(n, s)
    \/ \E k \in FundingKeys : ReadFunding(k)
    \/ ReadSnapshot

Spec == Init /\ [][Next]_vars
=============================================================================

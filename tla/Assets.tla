-------------------------------- MODULE Assets --------------------------------
(***************************************************************************)
(* Fixed assets and their depreciation: one run a month, each posting a    *)
(* journal, until the asset is written down to its residual value or       *)
(* disposed of.                                                            *)
(*                                                                         *)
(* Runs are never changed: one that should not count has its journal       *)
(* reversed, by the disposal of its asset or by hand, and the next period, *)
(* the amount and the book value are computed from the runs still live.    *)
(* Months are numbered; amounts are in minor units, rates in basis points. *)
(***************************************************************************)
EXTENDS Connections, Sums, Sequences, FiniteSetsExt

CONSTANTS FixedAssets, \* ids
          Terms,       \* what an asset may be registered with; rate None is straight-line
          Months       \* months runs and disposals are asked for

AssetRows == [terms : Terms, disposed : Months \cup {None}]

\* The whole, in the unit of rates.
BasisPoints == 10000

ASSUME AssetsAssumption ==
    /\ Months \subseteq Nat
    /\ None \notin Months /\ None \notin AssetRows
    /\ \A t \in Terms :
        /\ t.from \in Months
        /\ t.cost \in Nat \ {0} /\ t.residual \in 0..t.cost
        /\ t.life \in Nat \ {0}
        /\ t.rate # None => t.rate \in 1..BasisPoints

VARIABLES register,  \* assets: the row, or None
          runs,      \* asset_depreciation_runs, and whether each one's journal is net-live
          reversed   \* did someone reverse a journal of the asset's runs by hand?

assetVars == <<register, runs, reversed>>

AssetRow(t) == [terms |-> t, disposed |-> None]

AssetsInit ==
    /\ register = [a \in FixedAssets |-> None]
    /\ runs = [a \in FixedAssets |-> <<>>]
    /\ reversed = [a \in FixedAssets |-> FALSE]

-----------------------------------------------------------------------------
(***************************************************************************)
(* The register.  Nothing deletes an asset, and an edit writes its whole   *)
(* row as it was read.                                                     *)
(***************************************************************************)

AssetCreate(a) ==
    /\ Free
    /\ register[a] = None
    /\ \E t \in Terms : register' = [register EXCEPT ![a] = AssetRow(t)]
    /\ UNCHANGED <<connVars, runs, reversed>>

AssetGet(c, a) ==
    /\ register[a] # None
    /\ Read(c, [job |-> "asset", id |-> a, row |-> register[a], runs |-> runs[a]])
    /\ UNCHANGED assetVars

PutAsset(a, row) == register' = [register EXCEPT ![a] = row]

\* A new name leaves the terms; new terms need an asset with no run, live or not.
AssetUpdate(c) ==
    /\ Doing(c, "asset")
    /\ seen[c].row.disposed = None
    /\ \E t \in IF seen[c].runs = <<>> THEN Terms ELSE {seen[c].row.terms} :
        PutAsset(seen[c].id, AssetRow(t))
    /\ Done(c)
    /\ UNCHANGED <<runs, reversed>>

PeriodIndex(terms, month) == month - terms.from + 1

\* asset_dispose: what was run past the disposal is taken back.
Disposed(rows, index) ==
    [i \in DOMAIN rows |->
        [rows[i] EXCEPT !.live = @ /\ rows[i].index <= index]]

AssetDispose(c) ==
    LET a == seen[c].id IN
    /\ Doing(c, "asset")
    /\ seen[c].row.disposed = None
    /\ \E month \in Months :
        LET index == PeriodIndex(seen[c].row.terms, month) IN
        /\ index >= 1
        /\ runs' = [runs EXCEPT ![a] = Disposed(@, index)]
        /\ PutAsset(a, [seen[c].row EXCEPT !.disposed = month])
    /\ Done(c)
    /\ UNCHANGED reversed

-----------------------------------------------------------------------------
(***************************************************************************)
(* Depreciation.                                                           *)
(***************************************************************************)

LiveRuns(rows) == {i \in DOMAIN rows : rows[i].live}
Accumulated(rows) == Total([i \in LiveRuns(rows) |-> rows[i].amount])
LastLive(rows) == Max({0} \cup {rows[i].index : i \in LiveRuns(rows)})

\* What a straight line has written off after n periods.
Target(t, n) == ((t.cost - t.residual) * (IF n < t.life THEN n ELSE t.life)) \div t.life

\* Mutation of DepreciationAmount: every period of a straight line writes off the same.
DepreciationShare(t, index, accumulated) ==
    IF t.rate = None THEN (t.cost - t.residual) \div t.life
    ELSE Min({t.cost - accumulated - t.residual, ((t.cost - accumulated) * t.rate) \div BasisPoints})

DepreciationAmount(t, index, accumulated) ==
    LET opening == t.cost - accumulated
        headroom == opening - t.residual
        raw == (opening * t.rate) \div BasisPoints
    IN  CASE t.rate = None -> Target(t, index) - Target(t, index - 1)
          [] t.rate # None /\ headroom <= 0 -> 0
          [] t.rate # None /\ headroom > 0 /\ index >= t.life -> headroom
          [] OTHER -> IF raw < headroom THEN raw ELSE headroom

\* depreciation_run: the row and the live runs are read first; of what was decided
\* from them the table checks only that neither the period nor its index is there.
MayRun(row, rows, month) ==
    LET index == PeriodIndex(row.terms, month) IN
    /\ index = LastLive(rows) + 1
    /\ index <= row.terms.life
    /\ row.disposed # None => index <= PeriodIndex(row.terms, row.disposed)

NotRun(rows, run) ==
    \A i \in DOMAIN rows : rows[i].period # run.period /\ rows[i].index # run.index

DepreciationRun(c) ==
    LET a == seen[c].id
        row == seen[c].row
    IN
    /\ Doing(c, "asset")
    /\ \E month \in Months :
        LET index == PeriodIndex(row.terms, month)
            run == [period |-> month, index |-> index, live |-> TRUE,
                    amount |-> DepreciationAmount(row.terms, index, Accumulated(seen[c].runs))]
        IN
        /\ MayRun(row, seen[c].runs, month)
        /\ run.amount > 0
        /\ NotRun(runs[a], run)
        /\ runs' = [runs EXCEPT ![a] = Append(@, run)]
    /\ Done(c)
    /\ UNCHANGED <<register, reversed>>

\* journal_reverse of a run's journal, or of the reversal that took it back.
JournalReversed(a, i) ==
    /\ Free
    /\ runs' = [runs EXCEPT ![a][i].live = ~@]
    /\ reversed' = [reversed EXCEPT ![a] = TRUE]
    /\ UNCHANGED <<connVars, register>>

AssetsNext ==
    \/ \E a \in FixedAssets :
        \/ AssetCreate(a)
        \/ \E i \in DOMAIN runs[a] : JournalReversed(a, i)
    \/ \E c \in Conns :
        \/ \E a \in FixedAssets : AssetGet(c, a)
        \/ AssetUpdate(c) \/ AssetDispose(c) \/ DepreciationRun(c)
        \/ Abandon(c) /\ UNCHANGED assetVars

-----------------------------------------------------------------------------
(***************************************************************************)
(* Properties.                                                             *)
(***************************************************************************)

\* The tables hold what the columns allow.
AssetsTypeOK ==
    /\ \A a \in FixedAssets :
        /\ register[a] # None =>
            register[a].terms \in Terms /\ register[a].disposed \in Months \cup {None}
        /\ \A i \in DOMAIN runs[a] :
            /\ runs[a][i].period \in Months /\ runs[a][i].index \in Nat \ {0}
            /\ runs[a][i].amount \in Nat \ {0} /\ runs[a][i].live \in BOOLEAN
    /\ reversed \in [FixedAssets -> BOOLEAN]

\* With one process, and journals left alone by hand, an asset's live runs are its
\* first n periods, none past its disposal; they add up to what a straight line has
\* written off after n, never take it below its residual value, and at the end of its
\* life leave exactly that (service.rs:7925, 7932).
WrittenDownInOrder ==
    Alone => \A a \in FixedAssets : register[a] # None /\ ~reversed[a] =>
        LET t == register[a].terms
            n == LastLive(runs[a])
            left == t.cost - Accumulated(runs[a])
        IN
        /\ {runs[a][i].index : i \in LiveRuns(runs[a])} = 1..n
        /\ register[a].disposed # None => n <= PeriodIndex(t, register[a].disposed)
        /\ t.rate = None => left = t.cost - Target(t, n)
        /\ left >= t.residual
        /\ n = t.life => left = t.residual

\* What depreciation_run says of its sums (service.rs:7915, 7932): a period computes to
\* zero when an asset is fully written down, and its last one leaves the residual.  So,
\* with one process and journals left alone, a period before the end of an asset's life
\* can be run, or there is nothing left to write off.
NoPeriodStands ==
    Alone => \A a \in FixedAssets : register[a] # None /\ ~reversed[a] =>
        LET t == register[a].terms
            n == LastLive(runs[a])
            done == Accumulated(runs[a])
        IN  n < t.life /\ t.cost - done > t.residual => DepreciationAmount(t, n + 1, done) > 0

AssetsSpec == ConnInit /\ AssetsInit /\ [][AssetsNext]_<<connVars, assetVars>>
=============================================================================

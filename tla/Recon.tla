-------------------------------- MODULE Recon --------------------------------
(***************************************************************************)
(* Bank reconciliation: statement lines matched to slips and to journals,  *)
(* suggested by the program and confirmed or rejected by people.           *)
(*                                                                         *)
(* recon_suggest reads every match before its transaction and inserts all  *)
(* it finds in one; an index keeps a line from having two active matches,  *)
(* and nothing but those reads keeps a counterpart from it.                *)
(***************************************************************************)
EXTENDS Connections, Naturals, Sequences, FiniteSets

CONSTANTS Statement,    \* statement lines
          Counterparts, \* documents and journals
          Fits,         \* the pairs confident enough to be considered
          MaxMatches    \* bound: rows of recon_matches

ASSUME ReconAssumption ==
    /\ Fits \subseteq Statement \X Counterparts
    /\ IsFiniteSet(Fits)
    /\ MaxMatches \in Nat

VARIABLES matches,    \* recon_matches, in the order they were inserted
          candidates  \* counterparts there are: slips, live manual journals

reconVars == <<matches, candidates>>

ReconInit ==
    /\ matches = <<>>
    /\ candidates = {}

MatchIds == DOMAIN matches
Active(rows) == {i \in DOMAIN rows : rows[i].state # "rejected"}
Pair(m) == <<m.line, m.part>>

\* A slip is extracted, a journal posted; or its journal is reversed.
CandidateComes(k) ==
    /\ Free
    /\ k \notin candidates
    /\ candidates' = candidates \cup {k}
    /\ UNCHANGED <<connVars, matches>>

CandidateGoes(k) ==
    /\ Free
    /\ k \in candidates
    /\ candidates' = candidates \ {k}
    /\ UNCHANGED <<connVars, matches>>

-----------------------------------------------------------------------------

\* Mutation of Considered: only open and confirmed matches are looked at.
ConsideredAgain(rows) ==
    {p \in Fits :
        /\ p[2] \in candidates
        /\ \A i \in Active(rows) : rows[i].line # p[1] /\ rows[i].part # p[2]}

Considered(rows) ==
    {p \in Fits :
        /\ p[2] \in candidates
        /\ \A i \in DOMAIN rows : Pair(rows[i]) # p
        /\ \A i \in Active(rows) : rows[i].line # p[1] /\ rows[i].part # p[2]}

\* Line by line, each takes the best counterpart left: no two share one, and no line
\* goes without while a counterpart it fits is left.
Chosen(pairs) ==
    {s \in SUBSET pairs :
        /\ \A p, q \in s : p # q => p[1] # q[1] /\ p[2] # q[2]
        /\ \A p \in pairs : \E q \in s : p[1] = q[1] \/ p[2] = q[2]}

ReconRead(c) ==
    /\ Read(c, [job |-> "suggest", pairs |-> Considered(matches)])
    /\ UNCHANGED reconVars

\* recon_matches_tx_active_unique: the whole suggestion fails with one of its rows.
LinesFree(s) == \A p \in s, i \in Active(matches) : matches[i].line # p[1]

Inserted(s) ==
    {rows \in [1..Cardinality(s) -> [line : {p[1] : p \in s}, part : {p[2] : p \in s},
                                     state : {"open"}]] :
        {Pair(rows[i]) : i \in DOMAIN rows} = s}

ReconSuggest(c) ==
    /\ Doing(c, "suggest")
    /\ \E s \in Chosen(seen[c].pairs) :
        /\ Len(matches) + Cardinality(s) <= MaxMatches
        /\ LinesFree(s)
        /\ \E rows \in Inserted(s) : matches' = matches \o rows
    /\ Done(c)
    /\ UNCHANGED candidates

ReconGet(c, i) ==
    /\ Read(c, [job |-> "match", id |-> i, state |-> matches[i].state])
    /\ UNCHANGED reconVars

Decidable(from, to) ==
    <<from, to>> \notin {<<"confirmed", "rejected">>, <<"rejected", "confirmed">>}

\* UPDATE of the state, whatever it is by now; the index has its say again.
ReconSetState(c) ==
    LET i == seen[c].id IN
    /\ Doing(c, "match")
    /\ \E to \in {"confirmed", "rejected"} :
        /\ Decidable(seen[c].state, to)
        /\ to # "rejected" => \A j \in Active(matches) \ {i} : matches[j].line # matches[i].line
        /\ matches' = [matches EXCEPT ![i].state = to]
    /\ Done(c)
    /\ UNCHANGED candidates

ReconNext ==
    \/ \E k \in Counterparts : CandidateComes(k) \/ CandidateGoes(k)
    \/ \E c \in Conns :
        \/ ReconRead(c) \/ ReconSuggest(c)
        \/ \E i \in MatchIds : ReconGet(c, i)
        \/ ReconSetState(c)
        \/ Abandon(c) /\ UNCHANGED reconVars

-----------------------------------------------------------------------------
(***************************************************************************)
(* Properties.                                                             *)
(***************************************************************************)

\* The tables hold what the columns allow.
ReconTypeOK ==
    /\ \A i \in MatchIds : /\ Pair(matches[i]) \in Fits
                           /\ matches[i].state \in {"open", "confirmed", "rejected"}
    /\ candidates \subseteq Counterparts

\* However many processes suggest and decide at once, a statement line has at most one
\* match that is not rejected.  With one process so has a slip or a journal, and a pair
\* is suggested once: what a person rejected does not come back (service.rs:8072).
MatchedOnce ==
    \A i, j \in MatchIds : i # j =>
        /\ {i, j} \subseteq Active(matches) =>
            /\ matches[i].line # matches[j].line
            /\ Alone => matches[i].part # matches[j].part
        /\ Alone => Pair(matches[i]) # Pair(matches[j])

ReconSpec == ConnInit /\ ReconInit /\ [][ReconNext]_<<connVars, reconVars>>
=============================================================================

----------------------------- MODULE IngestStore -----------------------------
(***************************************************************************)
(* The bounded tables of core/timeseries that accepting an envelope        *)
(* writes: ingest_dedup, the claims on envelope ids, and staged_readings,  *)
(* what devices not yet approved sent.  A table is the sequence of its     *)
(* rows in rowid order.  Staging also bounds bytes, with the same tests as *)
(* for rows; bytes are left out.                                           *)
(***************************************************************************)
EXTENDS Integers, FiniteSets, SequencesExt

CONSTANTS
    DedupRows, DedupPrincipalRows, DedupAge,            \* DedupLimits
    StageRows, StagePrincipalRows, StageReserve, StageAge,  \* StagingLimits
    NoRoom              \* the Limit error of stage_sightings_at

\* DedupLimits::new and StagingLimits::new.
ASSUME LimitsAssumption ==
    /\ DedupPrincipalRows \in 1 .. DedupRows /\ DedupAge > 0
    /\ StagePrincipalRows \in 1 .. StageRows /\ StageAge > 0
    /\ StageReserve \in 1 .. StagePrincipalRows - 1

Count(table, Test(_)) == Len(SelectSeq(table, Test))

-----------------------------------------------------------------------------
\* ingest_dedup

\* Mutant: in the order of the rows, not of their times.
OldestRow_ByRow(dedup, where) == Min(where)

\* The first of the rows at the positions where, ORDER BY received_at, rowid.
OldestRow(dedup, where) ==
    CHOOSE i \in where : \A j \in where \ {i} :
        \/ dedup[i].at < dedup[j].at
        \/ dedup[i].at = dedup[j].at /\ i < j

Claimed(dedup, p, id, now) ==
    \E i \in DOMAIN dedup : /\ dedup[i].principal = p /\ dedup[i].id = id
                            /\ dedup[i].at >= now - DedupAge

\* Mutant: a principal over its share displaces any other's claims.
Displaceable_Anyone(dedup, p) ==
    IF \/ Count(dedup, LAMBDA r : r.principal = p) >= DedupPrincipalRows
       \/ Len(dedup) >= DedupRows
    THEN DOMAIN dedup ELSE {}

\* The rows one of which must go before p claims: p's own while its share is
\* full, any while the table is.
Displaceable(dedup, p) ==
    LET own == {i \in DOMAIN dedup : dedup[i].principal = p}
    IN  IF Cardinality(own) >= DedupPrincipalRows THEN own
        ELSE IF Len(dedup) >= DedupRows THEN DOMAIN dedup
        ELSE {}

RECURSIVE MakeRoom(_, _)
MakeRoom(dedup, p) ==
    LET rows == Displaceable(dedup, p)
    IN  IF rows = {} THEN dedup ELSE MakeRoom(RemoveAt(dedup, OldestRow(dedup, rows)), p)

\* try_claim_envelope_bounded_at, for an envelope that is not Claimed: its
\* expired row is renewed, or the oldest rows make room for a new one.
Claim(dedup, p, id, now) ==
    LET mine == {i \in DOMAIN dedup : dedup[i].principal = p /\ dedup[i].id = id}
    IN  IF mine # {}
        THEN [i \in DOMAIN dedup |->
                IF i \in mine THEN [dedup[i] EXCEPT !.at = now] ELSE dedup[i]]
        ELSE Append(MakeRoom(dedup, p), [principal |-> p, id |-> id, at |-> now])

PurgeDedup(dedup, now) == SelectSeq(dedup, LAMBDA r : r.at >= now - DedupAge)

-----------------------------------------------------------------------------
\* staged_readings, kept and evicted by subject: a principal and a hardware id

SubjectOf(row) == [principal |-> row.principal, hw |-> row.hw]
Subjects(staged) == {SubjectOf(staged[i]) : i \in DOMAIN staged}
Pinned(staged, subject) ==
    \E i \in DOMAIN staged : staged[i].pinned /\ SubjectOf(staged[i]) = subject

\* Mutant: the principal's share is not looked at.
ReserveLeft_TableOnly(staged, p, more) ==
    Count(staged, LAMBDA r : r.pinned) + more <= StageRows - StageReserve

\* So many more pinned rows of p leave the reserve evictable
\* (validate_inherited_pin_capacity and validate_sighting_pin).
ReserveLeft(staged, p, more) ==
    /\ Count(staged, LAMBDA r : r.pinned) + more <= StageRows - StageReserve
    /\ Count(staged, LAMBDA r : r.pinned /\ r.principal = p) + more
            <= StagePrincipalRows - StageReserve

\* Mutant: age alone decides.
Expire_Pinned(staged, now) == SelectSeq(staged, LAMBDA r : r.at >= now - StageAge)

Expire(staged, now) ==
    SelectSeq(staged, LAMBDA r : r.at >= now - StageAge \/ Pinned(staged, SubjectOf(r)))

\* ORDER BY MIN(received_at), MIN(id) of the subjects.
OldestSubject(staged, subjects) ==
    LET rows(s) == {i \in DOMAIN staged : SubjectOf(staged[i]) = s}
        since(s) == Min({staged[i].at : i \in rows(s)})
    IN  CHOOSE s \in subjects : \A t \in subjects \ {s} :
            \/ since(s) < since(t)
            \/ since(s) = since(t) /\ Min(rows(s)) < Min(rows(t))

\* Evict the oldest subjects that are neither pinned nor protected until n
\* more rows of p fit; only p's own while p is over its share.
RECURSIVE Evict(_, _, _, _)
Evict(staged, p, n, protected) ==
    LET over == Count(staged, LAMBDA r : r.principal = p) + n > StagePrincipalRows
        evictable == {s \in Subjects(staged) \ protected :
                        ~Pinned(staged, s) /\ (over => s.principal = p)}
        victim == OldestSubject(staged, evictable)
    IN  IF ~over /\ Len(staged) + n <= StageRows THEN staged
        ELSE IF evictable = {} THEN NoRoom
        ELSE Evict(SelectSeq(staged, LAMBDA r : SubjectOf(r) # victim), p, n, protected)

StagedRow(p, hw, now, pinned) == [principal |-> p, hw |-> hw, at |-> now, pinned |-> pinned]

\* stage_sightings_at: the table with one row more for each of the unknown
\* hardware ids hws of an envelope of p, or NoRoom.
Stage(staged, p, hws, now) ==
    LET subject(i) == [principal |-> p, hw |-> hws[i]]
        inherited == {i \in DOMAIN hws : Pinned(staged, subject(i))}
        room == Evict(Expire(staged, now), p, Len(hws), {subject(i) : i \in DOMAIN hws})
    IN  IF \/ Len(hws) > StageReserve
           \/ inherited # {} /\ ~ReserveLeft(staged, p, Cardinality(inherited))
           \/ room = NoRoom
        THEN NoRoom
        ELSE room \o [i \in DOMAIN hws |-> StagedRow(p, hws[i], now, i \in inherited)]

\* set_sighting_pin; refused when validate_sighting_pin finds the reserve used.
PinAllowed(staged, subject, pinned) ==
    /\ subject \in Subjects(staged)
    /\ \/ ~pinned
       \/ Pinned(staged, subject)
       \/ ReserveLeft(staged, subject.principal,
                      Count(staged, LAMBDA r : SubjectOf(r) = subject))

SetPin(staged, subject, pinned) ==
    [i \in DOMAIN staged |->
        IF SubjectOf(staged[i]) = subject THEN [staged[i] EXCEPT !.pinned = pinned]
        ELSE staged[i]]

-----------------------------------------------------------------------------
\* sightings: hardware id -> principal that saw it last, and when

HasStaged(staged, hw) == \E i \in DOMAIN staged : staged[i].hw = hw

\* delete_sighting_if_unstaged for every subject that lost its rows.
ForgetUnstaged(sightings, before, after) ==
    LET gone == {hw \in DOMAIN sightings :
                    /\ [principal |-> sightings[hw].source, hw |-> hw]
                            \in Subjects(before) \ Subjects(after)
                    /\ ~HasStaged(after, hw)}
    IN  [hw \in DOMAIN sightings \ gone |-> sightings[hw]]

RecordSightings(sightings, p, hws, now) ==
    [hw \in DOMAIN sightings \cup Range(hws) |->
        IF hw \in Range(hws) THEN [source |-> p, seen |-> now] ELSE sightings[hw]]
=============================================================================

----------------------------- MODULE Governance -----------------------------
(***************************************************************************)
(* What the POA contract promises about membership, without its storage     *)
(* layout: who the members are, which elections are open and who has said   *)
(* yes in them.                                                             *)
(*                                                                          *)
(* A vote counts when it is cast by a member, once per election, and goes   *)
(* on counting while the election is open.  One no closes an election.  A   *)
(* nominee joins with as many yes votes as there are members, an evictee    *)
(* leaves with as many as there are other members; membership never changes *)
(* in any other way, and only when a vote is cast.                          *)
(***************************************************************************)
EXTENDS Integers, FiniteSets

CONSTANTS Person, Founders

VARIABLES
    members,
    nominees, votesIn,      \* open nominations, and the yes votes of each
    evictees, votesOut      \* open evictions, and the yes votes of each

govVars == <<members, nominees, votesIn, evictees, votesOut>>

Init ==
    /\ members = Founders
    /\ nominees = {} /\ votesIn  = [p \in Person |-> {}]
    /\ evictees = {} /\ votesOut = [p \in Person |-> {}]

Nominate(p) ==
    /\ p \notin members \cup nominees
    /\ nominees' = nominees \cup {p}
    /\ UNCHANGED <<members, votesIn, evictees, votesOut>>

ProposeEviction(p) ==
    /\ p \in members \ evictees
    /\ evictees' = evictees \cup {p}
    /\ UNCHANGED <<members, nominees, votesIn, votesOut>>

CloseNomination(p) ==
    /\ nominees' = nominees \ {p}
    /\ votesIn'  = [votesIn EXCEPT ![p] = {}]
    /\ UNCHANGED <<evictees, votesOut>>

CloseEviction(p) ==
    /\ evictees' = evictees \ {p}
    /\ votesOut' = [votesOut EXCEPT ![p] = {}]
    /\ UNCHANGED <<nominees, votesIn>>

\* v, a member who has not voted on p yet, may vote on p's nomination.
MayVoteIn(v, p) == v \in members \ votesIn[p] /\ p \in nominees

MayVoteOut(v, p) == v \in members \ votesOut[p] /\ p \in evictees

Reject(v, p) == MayVoteIn(v, p) /\ CloseNomination(p) /\ UNCHANGED members

Approve(v, p) ==
    /\ MayVoteIn(v, p)
    /\ Cardinality(votesIn[p] \cup {v}) < Cardinality(members)
    /\ votesIn' = [votesIn EXCEPT ![p] = @ \cup {v}]
    /\ UNCHANGED <<members, nominees, evictees, votesOut>>

Admit(v, p) ==
    /\ MayVoteIn(v, p)
    /\ Cardinality(votesIn[p] \cup {v}) >= Cardinality(members)
    /\ members' = members \cup {p}
    /\ CloseNomination(p)

Keep(v, p) == MayVoteOut(v, p) /\ CloseEviction(p) /\ UNCHANGED members

Condemn(v, p) ==
    /\ MayVoteOut(v, p)
    /\ Cardinality(votesOut[p] \cup {v}) < Cardinality(members \ {p})
    /\ votesOut' = [votesOut EXCEPT ![p] = @ \cup {v}]
    /\ UNCHANGED <<members, nominees, evictees, votesIn>>

Expel(v, p) ==
    /\ MayVoteOut(v, p)
    /\ Cardinality(votesOut[p] \cup {v}) >= Cardinality(members \ {p})
    /\ members' = members \ {p}
    /\ CloseEviction(p)

Next ==
    \E p \in Person :
        \/ Nominate(p) \/ ProposeEviction(p)
        \/ \E v \in Person : \/ Reject(v, p) \/ Approve(v, p) \/ Admit(v, p)
                             \/ Keep(v, p) \/ Condemn(v, p) \/ Expel(v, p)

Spec == Init /\ [][Next]_govVars
=============================================================================

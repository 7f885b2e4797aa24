-------------------------------- MODULE Vote --------------------------------
(***************************************************************************)
(* cvotemgr: the votes of one type.  A vote has members with a number of   *)
(* votes each, and candidates to support; it ends when enough votes are    *)
(* cast, when they can no longer be, or when its time is over, and then    *)
(* its callback is called and it is deleted.                               *)
(*                                                                         *)
(* votemgr is called by code outside of it and its callbacks are given by  *)
(* that code: Elections are the votes that may be added, and the callback  *)
(* of a "bad" one raises an error.                                         *)
(***************************************************************************)
EXTENDS Integers, FiniteSetsExt

CONSTANTS
    Pids,        \* players
    Agree,       \* cvotemgr.AGREE_VOTE, the candidate of a yes-or-no vote
    None,        \* Lua's nil
    Elections,   \* the votes that newvote and addvote are called with
    MaxVotes     \* bound: votes added

Ids        == 1..MaxVotes
Candidates == Pids \cup {Agree}

Members(vote) == DOMAIN vote.member_vote

Voted(vote) == UNION {vote.candidate[topid] : topid \in DOMAIN vote.candidate}

\* Who voted or gave up is a member and did one of the two; each supports one
\* candidate, and nobody himself unless that is allowed.
BallotsFit(vote) ==
    /\ Voted(vote) \cup vote.giveup_member \subseteq Members(vote)
    /\ Voted(vote) \cap vote.giveup_member = {}
    /\ \A x, y \in DOMAIN vote.candidate :
          x # y => vote.candidate[x] \cap vote.candidate[y] = {}
    /\ \A pid \in DOMAIN vote.candidate : pid \in vote.candidate[pid] => vote.toself

\* A vote as newvote is given it: member_vote, each candidate's first supporters,
\* giveup_member, pass_vote (None: all votes are needed), allow_voteto_self,
\* whether it has an exceedtime, and whether its callback raises an error.  The
\* caller sees to it that the first ballots fit: newvote does not.
IsElection(e) ==
    /\ e = [member_vote |-> e.member_vote, candidate |-> e.candidate,
            giveup_member |-> e.giveup_member, toself |-> e.toself,
            pass_vote |-> e.pass_vote, timed |-> e.timed, bad |-> e.bad]
    /\ Members(e) \subseteq Pids
    /\ e.member_vote \in [Members(e) -> Nat]
    /\ DOMAIN e.candidate \subseteq Candidates
    /\ e.candidate \in [DOMAIN e.candidate -> SUBSET Pids]
    /\ BallotsFit(e)
    /\ e.pass_vote \in Nat \cup {None}
    /\ {e.toself, e.timed, e.bad} \subseteq BOOLEAN

\* The votes that these members have between them.
VotesOf(vote, pids) == FoldFunctionOnSet(+, 0, vote.member_vote, pids)

SumVotes(vote) == VotesOf(vote, Members(vote))

\* Votes of these members with these candidates.
Votes(pids, topids) ==
    [member_vote : [pids -> Nat], toself : BOOLEAN, timed : BOOLEAN, bad : BOOLEAN,
     pass_vote : Nat, giveup_member : SUBSET Pids, candidate : [topids -> SUBSET Pids]]

ASSUME VoteAssumption ==
    /\ \A e \in Elections : IsElection(e)
    /\ MaxVotes \in Nat
    /\ None \notin Ids \cup Candidates
    /\ \A pids \in SUBSET Pids, topids \in SUBSET Candidates : None \notin Votes(pids, topids)
    /\ Agree \notin Pids

\* Lua tables are finite.
ASSUME FiniteAssumption ==
    \A e \in Elections : IsFiniteSet(Members(e)) /\ IsFiniteSet(DOMAIN e.candidate)

VARIABLES
    voteid,    \* the last id given
    id_vote,   \* id -> open vote, or None
    pid_id,    \* pid -> id of the vote the player takes part in, or None
    expired,   \* ids of votes whose exceedtime has passed
    shared,    \* history: players who were members of two open votes at once
    unchecked  \* history: ids of votes that check_endvote has not looked at

vars == <<voteid, id_vote, pid_id, expired, shared, unchecked>>

Open == {id \in Ids : id_vote[id] # None}

\* check_endvote adds up the supporters of every candidate.
CastVotes(vote) ==
    MapThenSumSet(LAMBDA topid : VotesOf(vote, vote.candidate[topid]),
                  DOMAIN vote.candidate)

Passed(vote) == CastVotes(vote) >= vote.pass_vote

Unpassable(vote) == SumVotes(vote) - VotesOf(vote, vote.giveup_member) < vote.pass_vote

\* check_endvote and the delvote that follows it; ids is pid_id after the step.  An
\* error of the callback leaves the decided vote open.
UpdateKeepsIds(id, vote, ids) ==    \* a mutated form of Update
    LET over == (Passed(vote) \/ Unpassable(vote)) /\ ~vote.bad
    IN /\ unchecked' = unchecked \ {id}
       /\ id_vote' = [id_vote EXCEPT ![id] = IF over THEN None ELSE vote]
       /\ pid_id' = ids

UpdateClearsAll(id, vote, ids) ==    \* a mutated form of Update
    LET over == (Passed(vote) \/ Unpassable(vote)) /\ ~vote.bad
    IN /\ unchecked' = unchecked \ {id}
       /\ id_vote' = [id_vote EXCEPT ![id] = IF over THEN None ELSE vote]
       /\ pid_id' = [pid \in Pids |-> IF over THEN None ELSE ids[pid]]

UpdatePassOnly(id, vote, ids) ==    \* a mutated form of Update
    LET over == Passed(vote) /\ ~vote.bad
    IN /\ unchecked' = unchecked \ {id}
       /\ id_vote' = [id_vote EXCEPT ![id] = IF over THEN None ELSE vote]
       /\ pid_id' = [pid \in Pids |-> IF over /\ pid \in Members(vote)
                                      THEN None ELSE ids[pid]]

Update(id, vote, ids) ==
    LET over == (Passed(vote) \/ Unpassable(vote)) /\ ~vote.bad
    IN /\ unchecked' = unchecked \ {id}
       /\ id_vote' = [id_vote EXCEPT ![id] = IF over THEN None ELSE vote]
       /\ pid_id' = [pid \in Pids |-> IF over /\ pid \in Members(vote)
                                      THEN None ELSE ids[pid]]

AtMostNil(n, sum) == IF n # None /\ n > sum THEN sum ELSE n    \* a mutated form of AtMost

AtMost(n, sum) == IF n = None \/ n > sum THEN sum ELSE n

\* newvote and addvote.  Members who are in another open vote are moved.  Whether
\* the vote is decided by its first ballots, or by a pass_vote of 0, is not asked.
AddVote(e) ==
    LET id   == voteid + 1
        vote == [e EXCEPT !.pass_vote = AtMost(@, SumVotes(e))]
    IN /\ voteid < MaxVotes
       /\ voteid' = id
       /\ id_vote' = [id_vote EXCEPT ![id] = vote]
       /\ pid_id' = [pid \in Pids |-> IF pid \in Members(vote) THEN id ELSE pid_id[pid]]
       /\ shared' = shared \cup UNION {Members(id_vote[i]) \cap Members(vote) : i \in Open}
       /\ unchecked' = unchecked \cup {id}
       /\ UNCHANGED expired

\* getvotebypid: the vote in which the player may act.
InVote(pid) == pid_id[pid] # None /\ pid_id[pid] \in Open
VoteOf(pid) == id_vote[pid_id[pid]]

VotetoTwice(pid, topid) ==    \* a mutated form of Voteto: a repeated vote is taken
    /\ InVote(pid)
    /\ LET vote == VoteOf(pid)
       IN /\ pid \in Members(vote) \ vote.giveup_member
          /\ pid = topid => vote.toself
          /\ topid \in DOMAIN vote.candidate
          /\ Update(pid_id[pid], [vote EXCEPT !.candidate[topid] = @ \cup {pid}], pid_id)
    /\ UNCHANGED <<voteid, expired, shared>>

Voteto(pid, topid) ==
    /\ InVote(pid)
    /\ LET vote == VoteOf(pid)
       IN /\ pid \in Members(vote) \ (vote.giveup_member \cup Voted(vote))
          /\ pid = topid => vote.toself
          /\ topid \in DOMAIN vote.candidate
          /\ Update(pid_id[pid], [vote EXCEPT !.candidate[topid] = @ \cup {pid}], pid_id)
    /\ UNCHANGED <<voteid, expired, shared>>

Without(vote, pid) == [topid \in DOMAIN vote.candidate |-> vote.candidate[topid] \ {pid}]

\* cancel_voteto does not check whether the vote has ended.
CancelVoteto(pid) ==
    /\ InVote(pid)
    /\ pid \in Voted(VoteOf(pid))
    /\ id_vote' = [id_vote EXCEPT ![pid_id[pid]].candidate = Without(VoteOf(pid), pid)]
    /\ UNCHANGED <<voteid, pid_id, expired, shared, unchecked>>

GiveupVote(pid) ==
    /\ InVote(pid)
    /\ LET vote == VoteOf(pid)
       IN /\ pid \in Members(vote) \ (vote.giveup_member \cup Voted(vote))
          /\ Update(pid_id[pid], [vote EXCEPT !.giveup_member = @ \cup {pid}], pid_id)
    /\ UNCHANGED <<voteid, expired, shared>>

\* quit_vote takes the player's vote back and lowers pass_vote to what is left.
QuitVote(pid) ==
    /\ InVote(pid)
    /\ LET vote == VoteOf(pid)
           left == [vote EXCEPT
                      !.candidate     = Without(vote, pid),
                      !.member_vote   = Restrict(@, Members(vote) \ {pid}),
                      !.giveup_member = @ \ {pid}]
       IN Update(pid_id[pid],
                 [left EXCEPT !.pass_vote = AtMost(@, SumVotes(left))],
                 [pid_id EXCEPT ![pid] = None])
    /\ UNCHANGED <<voteid, expired, shared>>

\* The exceedtime of a vote passes.
Expire(id) ==
    /\ id \in Open \ expired
    /\ id_vote[id].timed
    /\ expired' = expired \cup {id}
    /\ UNCHANGED <<voteid, id_vote, pid_id, shared, unchecked>>

CheckTimeoutKeeps ==    \* a mutated form of CheckTimeout: the votes stay
    /\ \E id \in expired \cap Open : ~id_vote[id].bad
    /\ UNCHANGED vars

\* check_timeout, every 10 seconds: the expired votes are ended in some order, up
\* to the first one whose callback fails.
CheckTimeout ==
    LET late == expired \cap Open
        bad  == {id \in late : id_vote[id].bad}
    IN \E over \in SUBSET (late \ bad) :
        /\ over = late \ bad \/ bad # {}
        /\ id_vote' = [id \in Ids |-> IF id \in over THEN None ELSE id_vote[id]]
        /\ pid_id' = [pid \in Pids |->
                        IF \E id \in over : pid \in Members(id_vote[id])
                        THEN None ELSE pid_id[pid]]
        /\ UNCHANGED <<voteid, expired, shared, unchecked>>

----------------------------------------------------------------------------
Init ==
    /\ voteid  = 0
    /\ id_vote = [id \in Ids |-> None]
    /\ pid_id  = [pid \in Pids |-> None]
    /\ expired = {}
    /\ shared  = {}
    /\ unchecked = {}

Next ==
    \/ \E e \in Elections : AddVote(e)
    \/ \E pid \in Pids, topid \in Candidates : Voteto(pid, topid)
    \/ \E pid \in Pids : CancelVoteto(pid) \/ GiveupVote(pid) \/ QuitVote(pid)
    \/ \E id \in Ids : Expire(id)
    \/ CheckTimeout

Spec == Init /\ [][Next]_vars /\ WF_vars(CheckTimeout)

----------------------------------------------------------------------------
IsVote(vote) ==
    \E pids \in SUBSET Pids, topids \in SUBSET Candidates : vote \in Votes(pids, topids)

\* An open vote is whole: its threshold is a number, and its members, candidates and
\* supporters are players.
TypeOK ==
    /\ voteid \in 0..MaxVotes
    /\ DOMAIN id_vote = Ids
    /\ \A id \in Open : IsVote(id_vote[id])
    /\ pid_id \in [Pids -> Ids \cup {None}]
    /\ expired \subseteq Ids
    /\ shared \subseteq Pids
    /\ unchecked \subseteq Ids

\* A player's id leads to an open vote the player is a member of, however votes
\* that share members begin and end.
IndexSound ==
    \A pid \in Pids : pid_id[pid] # None =>
        pid_id[pid] \in Open /\ pid \in Members(id_vote[pid_id[pid]])

\* check_endvote looks up the votes of everyone who voted or gave up.  Whatever is
\* voted, cancelled, given up and quit: they are members and did one of the two,
\* each supports one candidate, and nobody himself unless the vote allows it.
BallotsValid == \A id \in Open : BallotsFit(id_vote[id])

\* A vote that check_endvote has looked at stays open only while its result is
\* open: enough votes are not cast, and still can be.  Exempt are a vote that was
\* only added or cancelled in (addvote does not ask whether it is decided already,
\* as one with a pass_vote of 0 is) and one whose callback fails, which stays open.
OpenUndecided ==
    \A id \in Open \ unchecked : LET vote == id_vote[id] IN
        ~vote.bad => ~Passed(vote) /\ ~Unpassable(vote)

\* A member of an open vote can act in it, unless the caller of addvote has put the
\* player in two votes at once.
MembersIndexed ==
    \A id \in Open : \A pid \in Members(id_vote[id]) \ shared : pid_id[pid] = id

\* A vote whose time is over ends, unless the callback of one that is over fails.
ExpiredEnd ==
    \A id \in Ids :
        id \in expired \cap Open
        ~> \/ id \notin Open
           \/ \E i \in expired \cap Open : id_vote[i].bad

=============================================================================

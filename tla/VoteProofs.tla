----------------------------- MODULE VoteProofs -----------------------------
(***************************************************************************)
(* Proofs about Vote, for any players, elections and number of votes: the  *)
(* index leads to open votes of their members, every ballot is valid, and  *)
(* no vote stays open once it is decided.                                  *)
(***************************************************************************)
EXTENDS Vote, FiniteSetTheorems, WellFoundedInduction, TLAPS

(***************************************************************************)
(* Sums over a finite set.  Votes are added up by a fold of the community  *)
(* modules, whose recursive function has to be shown to exist.             *)
(***************************************************************************)
LEMMA LeastElement ==
    ASSUME NEW S \in SUBSET Nat, S # {}
    PROVE  \E x \in S : \A y \in S : x <= y
<1> DEFINE R == OpToRel(<, Nat)
<1>1. R = {ss \in Nat \X Nat : ss[1] < ss[2]} /\ IsWellFoundedOn(R, Nat)
  BY NatLessThanWellFounded DEF OpToRel
<1> HIDE DEF R
<1>2. PICK x \in S : \A y \in S : <<y, x>> \notin R
  BY <1>1, WFMin
<1>3. \A y \in S : ~(y < x)
  BY <1>1, <1>2
<1> QED BY <1>3

\* Induction over the size of the subsets of a finite set, for a set P of them.
LEMMA SubsetInduction ==
    ASSUME NEW S, IsFiniteSet(S), NEW P,
           \A s \in SUBSET S : (\A x \in s : s \ {x} \in P) => s \in P
    PROVE  SUBSET S \subseteq P
<1> SUFFICES ASSUME ~(SUBSET S \subseteq P) PROVE FALSE
  OBVIOUS
<1> DEFINE bad == {s \in SUBSET S : s \notin P}
<1> DEFINE sizes == {n \in Nat : \E s \in bad : n = Cardinality(s)}
<1>1. \A s \in SUBSET S : IsFiniteSet(s) /\ Cardinality(s) \in Nat
  BY FS_Subset, FS_CardinalityType
<1>2. sizes # {}
  BY <1>1
<1>3. PICK n \in sizes : \A m \in sizes : n <= m
  <2> HIDE DEF sizes
  <2>1. sizes \in SUBSET Nat
    BY DEF sizes
  <2> QED BY <1>2, <2>1, LeastElement
<1>4. PICK s \in bad : n = Cardinality(s)
  OBVIOUS
<1>5. ASSUME NEW x \in s
      PROVE  s \ {x} \in P
  <2>1. Cardinality(s \ {x}) = n - 1 /\ n \in Nat
    BY <1>1, <1>4, FS_RemoveElement
  <2>2. s \ {x} \in SUBSET S /\ n - 1 \notin sizes
    BY <1>3, <2>1
  <2> QED BY <1>1, <2>1, <2>2
<1> QED BY <1>4, <1>5

\* The equation of the fold: f[s] is the sum of h over the subset s of S.
Adds(h, S, f) ==
    f = [s \in SUBSET S |-> IF s = {} THEN 0
                            ELSE LET x == CHOOSE x \in s : TRUE IN h[x] + f[s \ {x}]]

\* The same for the subsets of at most n elements.
AddsUpTo(h, S, n, f) ==
    f = [s \in {s \in SUBSET S : Cardinality(s) <= n} |->
            IF s = {} THEN 0
            ELSE LET x == CHOOSE x \in s : TRUE IN h[x] + f[s \ {x}]]

LEMMA AddsExists ==
    ASSUME NEW h, NEW S, IsFiniteSet(S)
    PROVE  \E f : Adds(h, S, f)
<1> DEFINE some == {n \in Nat : \E f : AddsUpTo(h, S, n, f)}
<1>1. \A s \in SUBSET S : /\ IsFiniteSet(s) /\ Cardinality(s) \in Nat
                          /\ Cardinality(s) <= Cardinality(S)
                          /\ Cardinality(s) = 0 <=> s = {}
                          /\ \A x \in s : Cardinality(s \ {x}) = Cardinality(s) - 1
  BY FS_Subset, FS_CardinalityType, FS_EmptySet, FS_RemoveElement
<1>2. Cardinality(S) \in Nat
  BY <1>1
<1>3. 0 \in some
  <2> DEFINE f == [s \in {s \in SUBSET S : Cardinality(s) <= 0} |-> 0]
  <2>1. \A s \in {s \in SUBSET S : Cardinality(s) <= 0} : s = {}
    BY <1>1
  <2>2. AddsUpTo(h, S, 0, f)
    BY <2>1 DEF AddsUpTo
  <2> QED BY <2>2
<1>4. ASSUME NEW n \in Nat, n \in some
      PROVE  n + 1 \in some
  <2>1. PICK f : AddsUpTo(h, S, n, f)
    BY <1>4
  <2> DEFINE small == {s \in SUBSET S : Cardinality(s) <= n}
  <2> DEFINE more  == {s \in SUBSET S : Cardinality(s) <= n + 1}
  <2> DEFINE g == [s \in more |-> IF s = {} THEN 0
                                  ELSE LET x == CHOOSE x \in s : TRUE IN h[x] + f[s \ {x}]]
  <2>2. ASSUME NEW s \in more, NEW x \in s
        PROVE  s \ {x} \in small
    <3>1. s \ {x} \in SUBSET S /\ Cardinality(s \ {x}) = Cardinality(s) - 1
          /\ Cardinality(s) \in Nat /\ Cardinality(s) <= n + 1
      BY <1>1
    <3>2. Cardinality(s \ {x}) <= n
      BY <3>1
    <3> QED BY <3>1, <3>2
  <2>3. \A s \in small : s \in more /\ g[s] = f[s]
    BY <1>1, <2>1 DEF AddsUpTo
  <2>4. \A s \in more : s # {} => LET x == CHOOSE x \in s : TRUE IN g[s \ {x}] = f[s \ {x}]
    BY <2>2, <2>3
  <2>5. g = [s \in more |-> IF s = {} THEN 0
                            ELSE LET x == CHOOSE x \in s : TRUE IN h[x] + f[s \ {x}]]
    OBVIOUS
  <2> HIDE DEF g, more, small
  <2>6. g = [s \in more |-> IF s = {} THEN 0
                            ELSE LET x == CHOOSE x \in s : TRUE IN h[x] + g[s \ {x}]]
    <3> DEFINE G == [s \in more |-> IF s = {} THEN 0
                         ELSE LET x == CHOOSE x \in s : TRUE IN h[x] + g[s \ {x}]]
    <3>1. ASSUME NEW s \in more
          PROVE  g[s] = G[s]
      <4>1. CASE s = {}
        BY <2>5, <4>1
      <4>2. CASE s # {}
        <5> DEFINE x == CHOOSE x \in s : TRUE
        <5>1. g[s] = h[x] + f[s \ {x}] /\ G[s] = h[x] + g[s \ {x}]
          BY <2>5, <4>2
        <5>2. g[s \ {x}] = f[s \ {x}]
          BY <2>4, <4>2
        <5> QED BY <5>1, <5>2
      <4> QED BY <4>1, <4>2
    <3>2. g = [s \in more |-> g[s]]
      BY <2>5
    <3>3. G = [s \in more |-> G[s]]
      OBVIOUS
    <3> HIDE DEF G
    <3>4. g = G
      BY <3>1, <3>2, <3>3
    <3> QED BY <3>4 DEF G
  <2>7. AddsUpTo(h, S, n + 1, g)
    BY <2>6 DEF AddsUpTo, more
  <2> QED BY <2>7
<1> HIDE DEF some
<1>5. Cardinality(S) \in some
  <2> SUFFICES ASSUME Cardinality(S) \notin some PROVE FALSE
    OBVIOUS
  <2> DEFINE not == {n \in Nat : n \notin some}
  <2>1. PICK n \in not : \A m \in not : n <= m
    BY <1>2, LeastElement
  <2>2. n - 1 \in some /\ n - 1 \in Nat
    BY <1>3, <2>1
  <2>3. (n - 1) + 1 \in some /\ (n - 1) + 1 = n
    BY <1>4, <2>2
  <2> QED BY <2>1, <2>3
<1>6. PICK f : AddsUpTo(h, S, Cardinality(S), f)
  BY <1>5 DEF some
<1>7. {s \in SUBSET S : Cardinality(s) <= Cardinality(S)} = SUBSET S
  BY <1>1
<1> QED BY <1>6, <1>7 DEF AddsUpTo, Adds

\* What the equation says of one subset.
LEMMA AddsOne ==
    ASSUME NEW h, NEW S, NEW f, Adds(h, S, f), NEW s \in SUBSET S
    PROVE  /\ s = {} => f[s] = 0
           /\ s # {} => \E x \in s : x = (CHOOSE y \in s : TRUE) /\ f[s] = h[x] + f[s \ {x}]
<1>1. CASE s = {}
  BY <1>1 DEF Adds
<1>2. CASE s # {}
  <2> DEFINE x == CHOOSE y \in s : TRUE
  <2>1. x \in s
    BY <1>2
  <2>2. f[s] = h[x] + f[s \ {x}]
    BY <1>2 DEF Adds
  <2> QED BY <1>2, <2>1, <2>2
<1> QED BY <1>1, <1>2

LEMMA AddsAgree ==
    ASSUME NEW h, NEW S, IsFiniteSet(S), NEW f, Adds(h, S, f),
           NEW k, NEW T, S \subseteq T, NEW g, Adds(k, T, g),
           \A x \in S : h[x] = k[x]
    PROVE  \A s \in SUBSET S : f[s] = g[s]
<1> DEFINE P == {s \in SUBSET S : f[s] = g[s]}
<1>1. ASSUME NEW s \in SUBSET S, \A x \in s : s \ {x} \in P
      PROVE  s \in P
  <2>1. s \in SUBSET T
    OBVIOUS
  <2>2. CASE s = {}
    <3>1. f[s] = 0
      BY <2>2, AddsOne
    <3>2. g[s] = 0
      BY <2>1, <2>2, AddsOne
    <3> QED BY <3>1, <3>2
  <2>3. CASE s # {}
    <3>1. PICK x \in s : x = (CHOOSE y \in s : TRUE) /\ f[s] = h[x] + f[s \ {x}]
      BY <2>3, AddsOne
    <3>2. g[s] = k[x] + g[s \ {x}]
      <4>1. PICK y \in s : y = (CHOOSE z \in s : TRUE) /\ g[s] = k[y] + g[s \ {y}]
        BY <2>1, <2>3, AddsOne
      <4>2. y = x
        BY <3>1, <4>1
      <4> QED BY <4>1, <4>2
    <3> QED BY <1>1, <3>1, <3>2
  <2> QED BY <2>2, <2>3
<1>2. SUBSET S \subseteq P
  <2> HIDE DEF P
  <2> QED BY <1>1, SubsetInduction
<1> QED BY <1>2

\* A sum of the community modules is such a fold.
LEMMA SumAdds ==
    ASSUME NEW h, NEW S, IsFiniteSet(S)
    PROVE  \E f : Adds(h, S, f) /\ \A T \in SUBSET S : SumFunctionOnSet(h, T) = f[T]
<1>1. PICK f : Adds(h, S, f)
  BY AddsExists
<1>2. ASSUME NEW T \in SUBSET S
      PROVE  SumFunctionOnSet(h, T) = f[T]
  <2>1. IsFiniteSet(T)
    BY FS_Subset
  <2> DEFINE g == CHOOSE g : Adds(h, T, g)
  <2>2. SumFunctionOnSet(h, T) = g[T]
    BY DEF SumFunctionOnSet, FoldFunctionOnSet, MapThenFoldSet, Adds
  <2>3. Adds(h, T, g)
    BY <2>1, AddsExists
  <2> HIDE DEF g
  <2>4. g[T] = f[T]
    BY <1>1, <2>1, <2>3, AddsAgree
  <2> QED BY <2>2, <2>4
<1> QED BY <1>1, <1>2

LEMMA SumEmpty ==
    ASSUME NEW h
    PROVE  SumFunctionOnSet(h, {}) = 0
<1>1. PICK f : Adds(h, {}, f) /\ \A T \in SUBSET {} : SumFunctionOnSet(h, T) = f[T]
  BY FS_EmptySet, SumAdds
<1> QED BY <1>1, AddsOne

LEMMA SumNat ==
    ASSUME NEW h, NEW S, IsFiniteSet(S), \A x \in S : h[x] \in Nat
    PROVE  SumFunctionOnSet(h, S) \in Nat
<1>1. PICK f : Adds(h, S, f) /\ \A T \in SUBSET S : SumFunctionOnSet(h, T) = f[T]
  BY SumAdds
<1> DEFINE P == {s \in SUBSET S : f[s] \in Nat}
<1>2. ASSUME NEW s \in SUBSET S, \A x \in s : s \ {x} \in P
      PROVE  s \in P
  <2>1. s = {} => f[s] = 0
    BY <1>1, AddsOne
  <2>2. s # {} => \E x \in s : f[s] = h[x] + f[s \ {x}]
    BY <1>1, AddsOne
  <2>3. CASE s # {}
    <3>1. PICK x \in s : f[s] = h[x] + f[s \ {x}]
      BY <2>2, <2>3
    <3>2. h[x] \in Nat /\ f[s \ {x}] \in Nat
      BY <1>2
    <3> QED BY <3>1, <3>2
  <2> QED BY <2>1, <2>3
<1>3. SUBSET S \subseteq P
  <2> HIDE DEF P
  <2> QED BY <1>2, SubsetInduction
<1> QED BY <1>1, <1>3

\* The order in which the elements are added is of no matter.
LEMMA SumRemove ==
    ASSUME NEW h, NEW S, IsFiniteSet(S), \A x \in S : h[x] \in Nat, NEW x \in S
    PROVE  SumFunctionOnSet(h, S) = h[x] + SumFunctionOnSet(h, S \ {x})
<1>1. PICK f : Adds(h, S, f) /\ \A T \in SUBSET S : SumFunctionOnSet(h, T) = f[T]
  BY SumAdds
<1>2. \A s \in SUBSET S : f[s] \in Nat
  BY <1>1, SumNat, FS_Subset
<1> DEFINE P == {s \in SUBSET S : \A y \in s : f[s] = h[y] + f[s \ {y}]}
<1>3. ASSUME NEW s \in SUBSET S, \A y \in s : s \ {y} \in P
      PROVE  s \in P
  <2> SUFFICES ASSUME NEW y \in s PROVE f[s] = h[y] + f[s \ {y}]
    OBVIOUS
  <2>1. PICK z \in s : f[s] = h[z] + f[s \ {z}]
    BY <1>1, AddsOne
  <2>2. CASE y = z
    BY <2>1, <2>2
  <2>3. CASE y # z
    <3>1. (s \ {z}) \ {y} = (s \ {y}) \ {z}
      OBVIOUS
    <3>2. f[s \ {z}] = h[y] + f[(s \ {y}) \ {z}]
      BY <1>3, <2>3, <3>1
    <3>3. f[s \ {y}] = h[z] + f[(s \ {y}) \ {z}]
      BY <1>3, <2>3
    <3>4. h[y] \in Nat /\ h[z] \in Nat /\ f[(s \ {y}) \ {z}] \in Nat
      BY <1>2
    <3> QED BY <2>1, <3>2, <3>3, <3>4
  <2> QED BY <2>2, <2>3
<1>4. SUBSET S \subseteq P
  <2> HIDE DEF P
  <2> QED BY <1>3, SubsetInduction
<1> QED BY <1>1, <1>4

\* Fewer elements, and smaller values, have a smaller sum.
LEMMA SumLess ==
    ASSUME NEW h, NEW S, IsFiniteSet(S), \A x \in S : h[x] \in Nat,
           NEW T \in SUBSET S, NEW k, \A x \in T : k[x] \in Nat /\ k[x] <= h[x]
    PROVE  SumFunctionOnSet(k, T) <= SumFunctionOnSet(h, S)
<1> DEFINE P == {s \in SUBSET S : SumFunctionOnSet(k, s \cap T) <= SumFunctionOnSet(h, s)}
<1>1. ASSUME NEW s \in SUBSET S, \A x \in s : s \ {x} \in P
      PROVE  s \in P
  <2>1. /\ IsFiniteSet(s) /\ IsFiniteSet(s \cap T)
        /\ \A x \in s \cap T : k[x] \in Nat /\ k[x] <= h[x]
    BY FS_Subset
  <2>2. CASE s = {}
    <3>1. s \cap T = {}
      BY <2>2
    <3> QED BY <2>2, <3>1, SumEmpty
  <2>3. CASE s # {}
    <3>1. PICK x : x \in s
      BY <2>3
    <3> DEFINE r == s \ {x}
               u == r \cap T
    <3>2. SumFunctionOnSet(k, u) <= SumFunctionOnSet(h, r)
      BY <1>1, <3>1
    <3>3. SumFunctionOnSet(h, s) = h[x] + SumFunctionOnSet(h, r)
      BY <2>1, <3>1, SumRemove
    <3>4. SumFunctionOnSet(h, r) \in Nat /\ SumFunctionOnSet(k, u) \in Nat /\ h[x] \in Nat
      <4>1. IsFiniteSet(r) /\ IsFiniteSet(u)
        BY <2>1, FS_Subset
      <4>2. (\A y \in r : h[y] \in Nat) /\ (\A y \in u : k[y] \in Nat)
        OBVIOUS
      <4> QED BY <3>1, <4>1, <4>2, SumNat
    <3>5. CASE x \in T
      <4>1. SumFunctionOnSet(k, s \cap T) = k[x] + SumFunctionOnSet(k, (s \cap T) \ {x})
        BY <2>1, <3>1, <3>5, SumRemove
      <4>2. (s \cap T) \ {x} = u
        OBVIOUS
      <4>3. k[x] \in Nat /\ k[x] <= h[x]
        BY <3>5
      <4> HIDE DEF r, u
      <4> QED BY <3>2, <3>3, <3>4, <4>1, <4>2, <4>3
    <3>6. CASE x \notin T
      <4>1. s \cap T = u
        BY <3>6
      <4> HIDE DEF r, u
      <4> QED BY <3>2, <3>3, <3>4, <4>1
    <3> QED BY <3>5, <3>6
  <2> QED BY <2>2, <2>3
<1>2. SUBSET S \subseteq P
  <2> HIDE DEF P
  <2> QED BY <1>1, SubsetInduction
<1>3. S \in P /\ S \cap T = T
  BY <1>2
<1> QED BY <1>3

\* The votes that each candidate has.
Cast(vote) == [topid \in DOMAIN vote.candidate |-> VotesOf(vote, vote.candidate[topid])]

LEMMA CastSum ==
    ASSUME NEW vote, IsFiniteSet(DOMAIN vote.candidate)
    PROVE  CastVotes(vote) = SumFunctionOnSet(Cast(vote), DOMAIN vote.candidate)
<1> DEFINE S == DOMAIN vote.candidate
           A(f) == f = [s \in SUBSET S |->
                          IF s = {} THEN 0
                          ELSE LET x == CHOOSE x \in s : TRUE
                               IN VotesOf(vote, vote.candidate[x]) + f[s \ {x}]]
<1>1. CastVotes(vote) = (CHOOSE f : A(f))[S]
  BY DEF CastVotes, MapThenSumSet, MapThenFoldSet
<1>2. SumFunctionOnSet(Cast(vote), S) = (CHOOSE f : Adds(Cast(vote), S, f))[S]
  BY DEF SumFunctionOnSet, FoldFunctionOnSet, MapThenFoldSet, Adds
<1>3. ASSUME NEW f
      PROVE  A(f) <=> Adds(Cast(vote), S, f)
  <2> DEFINE F == [s \in SUBSET S |->
                      IF s = {} THEN 0
                      ELSE LET x == CHOOSE x \in s : TRUE
                           IN VotesOf(vote, vote.candidate[x]) + f[s \ {x}]]
             G == [s \in SUBSET S |->
                      IF s = {} THEN 0
                      ELSE LET x == CHOOSE x \in s : TRUE IN Cast(vote)[x] + f[s \ {x}]]
  <2>1. ASSUME NEW s \in SUBSET S
        PROVE  F[s] = G[s]
    <3>1. CASE s = {}
      BY <3>1
    <3>2. CASE s # {}
      <4> DEFINE x == CHOOSE x \in s : TRUE
      <4>1. x \in S
        BY <3>2
      <4>2. Cast(vote)[x] = VotesOf(vote, vote.candidate[x])
        BY <4>1 DEF Cast
      <4> QED BY <3>2, <4>2
    <3> QED BY <3>1, <3>2
  <2>2. F = [s \in SUBSET S |-> F[s]] /\ G = [s \in SUBSET S |-> G[s]]
    OBVIOUS
  <2>3. F = G
    <3> HIDE DEF F, G
    <3> QED BY <2>1, <2>2
  <2>4. (A(f) <=> f = F) /\ (Adds(Cast(vote), S, f) <=> f = G)
    BY DEF Adds
  <2> QED BY <2>3, <2>4
<1> HIDE DEF A
<1>4. (CHOOSE f : A(f)) = (CHOOSE f : Adds(Cast(vote), S, f))
  BY <1>3
<1> QED BY <1>1, <1>2, <1>4

----------------------------------------------------------------------------
\* The members and the candidates are finitely many.
Finite(vote) == IsFiniteSet(Members(vote)) /\ IsFiniteSet(DOMAIN vote.candidate)

Good(vote) == IsVote(vote) /\ Finite(vote) /\ BallotsFit(vote)

Types ==
    /\ voteid \in 0..MaxVotes
    /\ DOMAIN id_vote = Ids
    /\ pid_id \in [Pids -> Ids \cup {None}]
    /\ expired \subseteq Ids
    /\ shared \subseteq Pids
    /\ unchecked \subseteq Ids

\* The ids that are still to be given have no vote.
Fresh == \A id \in Ids : id > voteid => id_vote[id] = None

IInv ==
    /\ Types
    /\ Fresh
    /\ \A id \in Open : Good(id_vote[id])
    /\ IndexSound
    /\ MembersIndexed

----------------------------------------------------------------------------
(***************************************************************************)
(* Votes                                                                   *)
(***************************************************************************)
LEMMA GoodIsVote ==
    ASSUME NEW vote, IsVote(vote)
    PROVE  /\ vote # None
           /\ Members(vote) \subseteq Pids
           /\ vote.member_vote \in [Members(vote) -> Nat]
           /\ vote.toself \in BOOLEAN /\ vote.timed \in BOOLEAN /\ vote.bad \in BOOLEAN
           /\ vote.pass_vote \in Nat
           /\ vote.giveup_member \subseteq Pids
           /\ DOMAIN vote.candidate \subseteq Candidates
           /\ vote.candidate \in [DOMAIN vote.candidate -> SUBSET Pids]
           /\ vote \in Votes(Members(vote), DOMAIN vote.candidate)
<1>1. PICK pids \in SUBSET Pids, topids \in SUBSET Candidates : vote \in Votes(pids, topids)
  BY DEF IsVote
<1>2. Members(vote) = pids /\ DOMAIN vote.candidate = topids
  BY <1>1 DEF Votes, Members
<1>3. vote # None
  BY <1>1, VoteAssumption
<1> QED BY <1>1, <1>2, <1>3 DEF Votes

LEMMA IsVoteIntro ==
    ASSUME NEW pids \in SUBSET Pids, NEW topids \in SUBSET Candidates,
           NEW vote \in Votes(pids, topids)
    PROVE  IsVote(vote)
BY DEF IsVote

\* The threshold that newvote and quit_vote set is a number.
LEMMA AtMostNat ==
    ASSUME NEW n \in Nat \cup {None}, NEW sum \in Nat
    PROVE  AtMost(n, sum) \in Nat
BY DEF AtMost

LEMMA VotesNat ==
    ASSUME NEW vote, IsFiniteSet(Members(vote)), vote.member_vote \in [Members(vote) -> Nat],
           NEW pids \in SUBSET Members(vote)
    PROVE  VotesOf(vote, pids) = SumFunctionOnSet(vote.member_vote, pids)
           /\ VotesOf(vote, pids) \in Nat
<1>1. VotesOf(vote, pids) = SumFunctionOnSet(vote.member_vote, pids)
  BY DEF VotesOf, SumFunctionOnSet
<1>2. IsFiniteSet(pids) /\ \A x \in pids : vote.member_vote[x] \in Nat
  BY FS_Subset
<1>3. SumFunctionOnSet(vote.member_vote, pids) \in Nat
  BY <1>2, SumNat
<1> QED BY <1>1, <1>3

\* A new supporter of one candidate, who has neither voted nor given up.
LEMMA VotetoGood ==
    ASSUME NEW vote, Good(vote), NEW topid \in DOMAIN vote.candidate,
           NEW pid \in Members(vote) \ (vote.giveup_member \cup Voted(vote)),
           pid = topid => vote.toself
    PROVE  LET new == [vote EXCEPT !.candidate[topid] = @ \cup {pid}]
           IN Good(new) /\ Members(new) = Members(vote)
<1> DEFINE new == [vote EXCEPT !.candidate[topid] = @ \cup {pid}]
<1> DEFINE cand == [vote.candidate EXCEPT ![topid] = @ \cup {pid}]
<1>1. IsVote(vote) /\ Finite(vote) /\ BallotsFit(vote)
  BY DEF Good
<1>2. vote \in Votes(Members(vote), DOMAIN vote.candidate)
      /\ Members(vote) \subseteq Pids /\ DOMAIN vote.candidate \subseteq Candidates
      /\ vote.candidate \in [DOMAIN vote.candidate -> SUBSET Pids]
  BY <1>1, GoodIsVote
<1>3. cand \in [DOMAIN vote.candidate -> SUBSET Pids]
  BY <1>2
<1>4. /\ new \in Votes(Members(vote), DOMAIN vote.candidate)
      /\ new.candidate = cand
      /\ new.member_vote = vote.member_vote
      /\ new.giveup_member = vote.giveup_member
      /\ new.toself = vote.toself
  BY <1>2, <1>3 DEF Votes
<1> HIDE DEF new
<1>5. IsVote(new) /\ Finite(new) /\ Members(new) = Members(vote)
  BY <1>1, <1>2, <1>3, <1>4, IsVoteIntro DEF Members, Finite
<1>6. Voted(new) \subseteq Voted(vote) \cup {pid}
  BY <1>2, <1>4 DEF Voted
<1>7. Voted(new) \cup new.giveup_member \subseteq Members(new)
  BY <1>1, <1>4, <1>5, <1>6 DEF BallotsFit
<1>8. Voted(new) \cap new.giveup_member = {}
  BY <1>1, <1>4, <1>6 DEF BallotsFit
<1>9. ASSUME NEW x \in DOMAIN new.candidate, NEW y \in DOMAIN new.candidate, x # y
      PROVE  new.candidate[x] \cap new.candidate[y] = {}
  <2>1. x \in DOMAIN vote.candidate /\ y \in DOMAIN vote.candidate
    BY <1>2, <1>4, <1>9
  <2>2. vote.candidate[x] \cap vote.candidate[y] = {}
    BY <1>1, <1>9, <2>1 DEF BallotsFit
  <2>3. pid \notin vote.candidate[x] /\ pid \notin vote.candidate[y]
    BY <2>1 DEF Voted
  <2> QED BY <1>2, <1>4, <1>9, <2>1, <2>2, <2>3
<1>10. ASSUME NEW p \in DOMAIN new.candidate, p \in new.candidate[p]
       PROVE  new.toself
  <2>1. p \in DOMAIN vote.candidate /\ (p \notin vote.candidate[p] => p = pid /\ p = topid)
    BY <1>2, <1>4, <1>10
  <2> QED BY <1>1, <1>4, <2>1 DEF BallotsFit
<1>11. BallotsFit(new)
  BY <1>7, <1>8, <1>9, <1>10 DEF BallotsFit
<1> QED BY <1>5, <1>11 DEF Good, new

\* A supporter less.
LEMMA WithoutGood ==
    ASSUME NEW vote, Good(vote), NEW pid
    PROVE  LET new == [vote EXCEPT !.candidate = Without(vote, pid)]
           IN /\ Good(new) /\ Members(new) = Members(vote)
              /\ pid \notin Voted(new)
              /\ new.member_vote = vote.member_vote
<1> DEFINE new == [vote EXCEPT !.candidate = Without(vote, pid)]
<1>1. IsVote(vote) /\ Finite(vote) /\ BallotsFit(vote)
  BY DEF Good
<1>2. vote \in Votes(Members(vote), DOMAIN vote.candidate)
      /\ Members(vote) \subseteq Pids /\ DOMAIN vote.candidate \subseteq Candidates
      /\ vote.candidate \in [DOMAIN vote.candidate -> SUBSET Pids]
  BY <1>1, GoodIsVote
<1>3. Without(vote, pid) \in [DOMAIN vote.candidate -> SUBSET Pids]
  BY <1>2 DEF Without
<1>4. /\ new \in Votes(Members(vote), DOMAIN vote.candidate)
      /\ new.candidate = Without(vote, pid)
      /\ new.member_vote = vote.member_vote
      /\ new.giveup_member = vote.giveup_member
      /\ new.toself = vote.toself
  BY <1>2, <1>3 DEF Votes
<1> HIDE DEF new
<1>5. IsVote(new) /\ Finite(new) /\ Members(new) = Members(vote)
  BY <1>1, <1>2, <1>3, <1>4, IsVoteIntro DEF Members, Finite
<1>6. Voted(new) \subseteq Voted(vote) \ {pid}
  BY <1>4 DEF Voted, Without
<1>7. BallotsFit(new)
  BY <1>1, <1>4, <1>5, <1>6 DEF BallotsFit, Without
<1> QED BY <1>4, <1>5, <1>6, <1>7 DEF Good, new

\* One who gives up, having neither voted nor given up.
LEMMA GiveupGood ==
    ASSUME NEW vote, Good(vote),
           NEW pid \in Members(vote) \ (vote.giveup_member \cup Voted(vote))
    PROVE  LET new == [vote EXCEPT !.giveup_member = @ \cup {pid}]
           IN Good(new) /\ Members(new) = Members(vote)
<1> DEFINE new == [vote EXCEPT !.giveup_member = @ \cup {pid}]
<1>1. IsVote(vote) /\ Finite(vote) /\ BallotsFit(vote)
  BY DEF Good
<1>2. vote \in Votes(Members(vote), DOMAIN vote.candidate)
      /\ Members(vote) \subseteq Pids /\ DOMAIN vote.candidate \subseteq Candidates
      /\ vote.giveup_member \subseteq Pids
  BY <1>1, GoodIsVote
<1>3. /\ new \in Votes(Members(vote), DOMAIN vote.candidate)
      /\ new.candidate = vote.candidate
      /\ new.member_vote = vote.member_vote
      /\ new.giveup_member = vote.giveup_member \cup {pid}
      /\ new.toself = vote.toself
  BY <1>2 DEF Votes
<1> HIDE DEF new
<1>4. IsVote(new) /\ Finite(new) /\ Members(new) = Members(vote)
  BY <1>1, <1>2, <1>3, IsVoteIntro DEF Members, Finite
<1>5. BallotsFit(new)
  BY <1>1, <1>3, <1>4 DEF BallotsFit, Voted
<1> QED BY <1>4, <1>5 DEF Good, new

\* What quit_vote makes of a vote: a member less ...
Left(vote, pid) ==
    [vote EXCEPT !.candidate     = Without(vote, pid),
                 !.member_vote   = Restrict(@, Members(vote) \ {pid}),
                 !.giveup_member = @ \ {pid}]

\* ... and a threshold that sinks to what is left.
Sunk(left) == [left EXCEPT !.pass_vote = AtMost(@, SumVotes(left))]

LEMMA QuitGood ==
    ASSUME NEW vote, Good(vote), NEW pid
    PROVE  /\ Good(Sunk(Left(vote, pid)))
           /\ Members(Sunk(Left(vote, pid))) = Members(vote) \ {pid}
<1> DEFINE left == Left(vote, pid)
<1> DEFINE new == Sunk(left)
<1> DEFINE pids == Members(vote) \ {pid}
<1> DEFINE topids == DOMAIN vote.candidate
<1>1. IsVote(vote) /\ Finite(vote) /\ BallotsFit(vote)
  BY DEF Good
<1>2. vote \in Votes(Members(vote), topids)
      /\ Members(vote) \subseteq Pids /\ topids \subseteq Candidates
      /\ vote.candidate \in [topids -> SUBSET Pids]
      /\ vote.member_vote \in [Members(vote) -> Nat]
      /\ vote.giveup_member \subseteq Pids
  BY <1>1, GoodIsVote
<1>3. Without(vote, pid) \in [topids -> SUBSET Pids]
  BY <1>2 DEF Without
<1>4. Restrict(vote.member_vote, pids) \in [pids -> Nat]
  BY <1>2 DEF Restrict
<1>5. /\ left \in Votes(pids, topids)
      /\ left.candidate = Without(vote, pid)
      /\ left.member_vote = Restrict(vote.member_vote, pids)
      /\ left.giveup_member = vote.giveup_member \ {pid}
      /\ left.pass_vote \in Nat /\ left.toself = vote.toself
  BY <1>2, <1>3, <1>4 DEF Votes, Left
<1> HIDE DEF left
<1>6. Members(left) = pids /\ IsFiniteSet(pids) /\ left.member_vote \in [pids -> Nat]
  BY <1>1, <1>4, <1>5, FS_RemoveElement DEF Members, Finite
<1>7. AtMost(left.pass_vote, SumVotes(left)) \in Nat
  BY <1>5, <1>6, VotesNat, AtMostNat DEF SumVotes
<1>8. /\ new \in Votes(pids, topids)
      /\ new.candidate = left.candidate
      /\ new.member_vote = left.member_vote
      /\ new.giveup_member = left.giveup_member
      /\ new.toself = vote.toself
  BY <1>5, <1>7 DEF Votes, Sunk
<1> HIDE DEF new
<1>9. Members(new) = pids
  BY <1>5, <1>8, <1>4 DEF Members
<1>10. IsVote(new)
  BY <1>2, <1>8, IsVoteIntro
<1> DEFINE cand == Without(vote, pid)
<1>a. DOMAIN cand = topids /\ \A t \in topids : cand[t] = vote.candidate[t] \ {pid}
  BY DEF Without
<1> HIDE DEF cand
<1>b. /\ new.candidate = cand /\ new.giveup_member = vote.giveup_member \ {pid}
      /\ new.toself = vote.toself
  BY <1>5, <1>8 DEF cand
<1>11. Voted(new) \subseteq Voted(vote) \ {pid}
  BY <1>a, <1>b DEF Voted
<1>12. BallotsFit(new)
  BY <1>1, <1>9, <1>11, <1>a, <1>b DEF BallotsFit
<1>13. Finite(new)
  BY <1>1, <1>6, <1>9, <1>a, <1>b DEF Finite
<1> QED BY <1>8, <1>9, <1>10, <1>12, <1>13 DEF Good, new, left

\* A vote that is new: its first ballots fit, and its threshold becomes a number.
LEMMA AddGood ==
    ASSUME NEW e \in Elections,
           NEW vote, vote = [e EXCEPT !.pass_vote = AtMost(@, SumVotes(e))]
    PROVE  Good(vote)
<1>1. IsElection(e)
  BY VoteAssumption
<1>2. /\ Members(e) \subseteq Pids
      /\ e.member_vote \in [Members(e) -> Nat]
      /\ DOMAIN e.candidate \subseteq Candidates
      /\ e.candidate \in [DOMAIN e.candidate -> SUBSET Pids]
      /\ e.giveup_member \subseteq Pids
      /\ e.pass_vote \in Nat \cup {None}
      /\ e.toself \in BOOLEAN /\ e.timed \in BOOLEAN /\ e.bad \in BOOLEAN
  BY <1>1 DEF IsElection, BallotsFit
<1>3. AtMost(e.pass_vote, SumVotes(e)) \in Nat
  BY <1>2, FiniteAssumption, VotesNat, AtMostNat DEF SumVotes
<1>4. vote = [member_vote |-> e.member_vote, candidate |-> e.candidate,
              giveup_member |-> e.giveup_member, toself |-> e.toself,
              pass_vote |-> AtMost(e.pass_vote, SumVotes(e)), timed |-> e.timed, bad |-> e.bad]
  BY <1>1 DEF IsElection
<1>5. vote \in Votes(Members(e), DOMAIN e.candidate)
  BY <1>2, <1>3, <1>4 DEF Votes
<1>6. IsVote(vote)
  BY <1>2, <1>5, IsVoteIntro
<1>7. Finite(vote)
  BY <1>4, FiniteAssumption DEF Finite, Members
<1>8. BallotsFit(vote)
  BY <1>1, <1>4 DEF IsElection, BallotsFit, Voted, Members
<1> QED BY <1>6, <1>7, <1>8 DEF Good

----------------------------------------------------------------------------
(***************************************************************************)
(* Steps                                                                   *)
(***************************************************************************)
\* check_endvote and delvote: the vote has the members it had, or the one who quits
\* less, whose id is taken out.
LEMMA UpdateInv ==
    ASSUME IInv, NEW id \in Open, NEW vote, Good(vote),
           NEW ids \in [Pids -> Ids \cup {None}],
           Members(vote) \subseteq Members(id_vote[id]),
           \A pid \in Pids :
              \/ ids[pid] = pid_id[pid] /\ (pid \in Members(id_vote[id]) => pid \in Members(vote))
              \/ pid_id[pid] = id /\ ids[pid] = None /\ pid \notin Members(vote),
           Update(id, vote, ids),
           UNCHANGED <<voteid, expired, shared>>
    PROVE  IInv'
<1> DEFINE over == (Passed(vote) \/ Unpassable(vote)) /\ ~vote.bad
<1>1. Types /\ Fresh /\ (\A i \in Open : Good(id_vote[i])) /\ IndexSound /\ MembersIndexed
  BY DEF IInv
<1>2. id \in Ids /\ id_vote[id] # None /\ vote # None
  BY GoodIsVote DEF Open, Good
<1>3. /\ id_vote' = [id_vote EXCEPT ![id] = IF over THEN None ELSE vote]
      /\ pid_id' = [pid \in Pids |-> IF over /\ pid \in Members(vote) THEN None ELSE ids[pid]]
      /\ unchecked' = unchecked \ {id}
  BY DEF Update
<1> HIDE DEF over
<1>4. /\ \A i \in Ids : i # id => id_vote'[i] = id_vote[i]
      /\ id_vote'[id] = IF over THEN None ELSE vote
      /\ DOMAIN id_vote' = Ids
  BY <1>1, <1>2, <1>3 DEF Types
<1>5. Types'
  BY <1>1, <1>3, <1>4 DEF Types
<1>6. Fresh'
  BY <1>1, <1>2, <1>4 DEF Fresh
<1>7. /\ \A i \in Ids : i # id => (i \in Open' <=> i \in Open)
      /\ id \in Open' <=> ~over
      /\ Open' \subseteq Ids /\ Open \subseteq Ids
  BY <1>2, <1>4 DEF Open
<1>8. \A i \in Open' : Good(id_vote'[i])
  BY <1>1, <1>4, <1>7
<1>9. ASSUME NEW pid \in Pids, pid_id'[pid] # None
      PROVE  pid_id'[pid] \in Open' /\ pid \in Members(id_vote'[pid_id'[pid]])
  <2>1. pid_id'[pid] = ids[pid] /\ ids[pid] = pid_id[pid] /\ pid_id[pid] # None
        /\ ~(over /\ pid \in Members(vote))
    BY <1>3, <1>9
  <2>2. pid_id[pid] \in Open /\ pid \in Members(id_vote[pid_id[pid]])
    BY <1>1, <2>1 DEF IndexSound
  <2>3. CASE pid_id[pid] = id
    <3>1. pid \in Members(vote)
      BY <2>1, <2>2, <2>3, <1>9, <1>3
    <3> QED BY <1>4, <1>7, <2>1, <2>3, <3>1
  <2>4. CASE pid_id[pid] # id
    BY <1>4, <1>7, <2>1, <2>2, <2>4
  <2> QED BY <2>3, <2>4
<1>10. IndexSound'
  BY <1>9 DEF IndexSound
<1>11. ASSUME NEW i \in Open', NEW pid \in Members(id_vote'[i]) \ shared'
       PROVE  pid_id'[pid] = i
  <2>1. i \in Open /\ pid \in Members(id_vote[i]) /\ pid \notin shared
    BY <1>4, <1>7
  <2>2. pid_id[pid] = i /\ pid \in Pids
    BY <1>1, <2>1, GoodIsVote DEF MembersIndexed, Good
  <2>3. CASE i = id
    <3>1. ~over /\ pid \in Members(vote)
      BY <1>4, <1>7, <2>3
    <3> QED BY <1>3, <2>2, <3>1
  <2>4. CASE i # id
    <3>1. ids[pid] = pid_id[pid]
      BY <2>2, <2>4
    <3>2. ~(over /\ pid \in Members(vote))
      <4>1. pid \in Members(vote) => pid \in Members(id_vote[id])
        OBVIOUS
      <4>2. pid \in Members(id_vote[id]) => pid_id[pid] = id
        BY <1>1, <2>1 DEF MembersIndexed
      <4> QED BY <2>2, <2>4, <4>1, <4>2
    <3> QED BY <1>3, <2>2, <3>1, <3>2
  <2> QED BY <2>3, <2>4
<1>12. MembersIndexed'
  BY <1>11 DEF MembersIndexed
<1> QED BY <1>5, <1>6, <1>8, <1>10, <1>12 DEF IInv

LEMMA AddVoteInv ==
    ASSUME IInv, NEW e \in Elections, AddVote(e)
    PROVE  IInv'
<1> DEFINE id == voteid + 1
<1> DEFINE vote == [e EXCEPT !.pass_vote = AtMost(@, SumVotes(e))]
<1>1. Types /\ Fresh /\ (\A i \in Open : Good(id_vote[i])) /\ IndexSound /\ MembersIndexed
  BY DEF IInv
<1>2. Good(vote) /\ vote # None
  <2>1. Good(vote)
    BY AddGood
  <2> HIDE DEF vote
  <2> QED BY <2>1, GoodIsVote DEF Good
<1>3. /\ voteid < MaxVotes
      /\ voteid' = id
      /\ id_vote' = [id_vote EXCEPT ![id] = vote]
      /\ pid_id' = [pid \in Pids |-> IF pid \in Members(vote) THEN id ELSE pid_id[pid]]
      /\ shared' = shared \cup UNION {Members(id_vote[i]) \cap Members(vote) : i \in Open}
      /\ expired' = expired /\ unchecked' = unchecked \cup {id}
  BY DEF AddVote
<1> HIDE DEF vote
<1>4. id \in Ids /\ id_vote[id] = None /\ voteid' \in 0..MaxVotes
  BY <1>1, <1>3, VoteAssumption DEF Types, Fresh, Ids
<1>5. /\ \A i \in Ids : i # id => id_vote'[i] = id_vote[i]
      /\ id_vote'[id] = vote
      /\ DOMAIN id_vote' = Ids
  BY <1>1, <1>3, <1>4 DEF Types
<1>6. Open' = Open \cup {id} /\ id \notin Open
  BY <1>2, <1>4, <1>5 DEF Open
<1>7. Members(vote) \subseteq Pids /\ \A i \in Open : Members(id_vote[i]) \subseteq Pids
  BY <1>1, <1>2, GoodIsVote DEF Good
<1>8. Types'
  BY <1>1, <1>3, <1>4, <1>5, <1>7 DEF Types
<1>9. Fresh'
  BY <1>1, <1>3, <1>4, <1>5, VoteAssumption DEF Fresh, Types, Ids
<1>10. \A i \in Open' : Good(id_vote'[i])
  BY <1>1, <1>2, <1>5, <1>6 DEF Open
<1>11. IndexSound'
  BY <1>1, <1>3, <1>5, <1>6 DEF IndexSound, Open
<1>12. ASSUME NEW i \in Open', NEW pid \in Members(id_vote'[i]) \ shared'
       PROVE  pid_id'[pid] = i
  <2>1. CASE i = id
    BY <1>3, <1>5, <1>7, <2>1
  <2>2. CASE i # id
    <3>1. i \in Open /\ pid \in Members(id_vote[i]) /\ pid \in Pids
      BY <1>5, <1>6, <1>7, <2>2 DEF Open
    <3>2. pid \notin Members(vote) /\ pid \notin shared
      BY <1>3, <3>1
    <3> QED BY <1>1, <1>3, <3>1, <3>2 DEF MembersIndexed
  <2> QED BY <2>1, <2>2
<1>13. MembersIndexed'
  BY <1>12 DEF MembersIndexed
<1> QED BY <1>8, <1>9, <1>10, <1>11, <1>13 DEF IInv

\* The vote that a player's id leads to.
LEMMA VoteOfPid ==
    ASSUME IInv, NEW pid \in Pids, InVote(pid)
    PROVE  /\ pid_id[pid] \in Open /\ VoteOf(pid) = id_vote[pid_id[pid]]
           /\ Good(VoteOf(pid)) /\ pid \in Members(VoteOf(pid))
           /\ Members(VoteOf(pid)) \subseteq Pids
           /\ pid_id \in [Pids -> Ids \cup {None}]
<1>1. pid_id[pid] \in Open /\ pid_id[pid] # None
  BY DEF InVote
<1>2. Good(VoteOf(pid))
  BY <1>1 DEF IInv, VoteOf
<1> QED BY <1>1, <1>2, GoodIsVote DEF IInv, Types, IndexSound, VoteOf, Good

LEMMA VotetoInv ==
    ASSUME IInv, NEW pid \in Pids, NEW topid, Voteto(pid, topid)
    PROVE  IInv'
<1> DEFINE vote == VoteOf(pid)
<1> DEFINE new == [vote EXCEPT !.candidate[topid] = @ \cup {pid}]
<1>1. /\ InVote(pid) /\ topid \in DOMAIN vote.candidate
      /\ pid \in Members(vote) \ (vote.giveup_member \cup Voted(vote))
      /\ pid = topid => vote.toself
      /\ Update(pid_id[pid], new, pid_id)
      /\ UNCHANGED <<voteid, expired, shared>>
  BY DEF Voteto
<1>2. /\ pid_id[pid] \in Open /\ vote = id_vote[pid_id[pid]] /\ Good(vote)
      /\ pid_id \in [Pids -> Ids \cup {None}]
  BY <1>1, VoteOfPid
<1>3. Good(new) /\ Members(new) = Members(vote)
  BY <1>1, <1>2, VotetoGood
<1> HIDE DEF new, vote
<1> QED BY <1>1, <1>2, <1>3, UpdateInv

LEMMA GiveupInv ==
    ASSUME IInv, NEW pid \in Pids, GiveupVote(pid)
    PROVE  IInv'
<1> DEFINE vote == VoteOf(pid)
<1> DEFINE new == [vote EXCEPT !.giveup_member = @ \cup {pid}]
<1>1. /\ InVote(pid)
      /\ pid \in Members(vote) \ (vote.giveup_member \cup Voted(vote))
      /\ Update(pid_id[pid], new, pid_id)
      /\ UNCHANGED <<voteid, expired, shared>>
  BY DEF GiveupVote
<1>2. /\ pid_id[pid] \in Open /\ vote = id_vote[pid_id[pid]] /\ Good(vote)
      /\ pid_id \in [Pids -> Ids \cup {None}]
  BY <1>1, VoteOfPid
<1>3. Good(new) /\ Members(new) = Members(vote)
  BY <1>1, <1>2, GiveupGood
<1> HIDE DEF new, vote
<1> QED BY <1>1, <1>2, <1>3, UpdateInv

LEMMA QuitInv ==
    ASSUME IInv, NEW pid \in Pids, QuitVote(pid)
    PROVE  IInv'
<1> DEFINE vote == VoteOf(pid)
<1> DEFINE new == Sunk(Left(vote, pid))
<1> DEFINE ids == [pid_id EXCEPT ![pid] = None]
<1>1. /\ InVote(pid)
      /\ Update(pid_id[pid], new, ids)
      /\ UNCHANGED <<voteid, expired, shared>>
  BY DEF QuitVote, Sunk, Left
<1>2. /\ pid_id[pid] \in Open /\ vote = id_vote[pid_id[pid]] /\ Good(vote)
      /\ pid \in Members(vote) /\ Members(vote) \subseteq Pids
      /\ pid_id \in [Pids -> Ids \cup {None}]
  BY <1>1, VoteOfPid
<1>3. Good(new) /\ Members(new) = Members(vote) \ {pid}
  BY <1>2, QuitGood
<1>4. ids \in [Pids -> Ids \cup {None}] /\ ids[pid] = None
      /\ \A p \in Pids : p # pid => ids[p] = pid_id[p]
  BY <1>2
<1> HIDE DEF new, ids, vote
<1>5. \A p \in Pids :
         \/ ids[p] = pid_id[p] /\ (p \in Members(vote) => p \in Members(new))
         \/ pid_id[p] = pid_id[pid] /\ ids[p] = None /\ p \notin Members(new)
  BY <1>3, <1>4
<1>6. Members(new) \subseteq Members(vote)
  BY <1>3
<1> QED BY <1>1, <1>2, <1>3, <1>4, <1>5, <1>6, UpdateInv

LEMMA CancelInv ==
    ASSUME IInv, NEW pid \in Pids, CancelVoteto(pid)
    PROVE  IInv'
<1> DEFINE vote == VoteOf(pid)
<1> DEFINE id == pid_id[pid]
<1> DEFINE new == [vote EXCEPT !.candidate = Without(vote, pid)]
<1>1. Types /\ Fresh /\ (\A i \in Open : Good(id_vote[i])) /\ IndexSound /\ MembersIndexed
  BY DEF IInv
<1>2. /\ InVote(pid)
      /\ id_vote' = [id_vote EXCEPT ![id].candidate = Without(vote, pid)]
      /\ UNCHANGED <<voteid, pid_id, expired, shared, unchecked>>
  BY DEF CancelVoteto
<1>3. id \in Open /\ vote = id_vote[id] /\ Good(vote) /\ id \in Ids
  BY <1>2, VoteOfPid DEF Open
<1>4. Good(new) /\ Members(new) = Members(vote)
  BY <1>3, WithoutGood
<1>5. id_vote' = [id_vote EXCEPT ![id] = new]
  BY <1>2, <1>3
<1> HIDE DEF new, vote, id
<1>6. /\ \A i \in Ids : i # id => id_vote'[i] = id_vote[i]
      /\ id_vote'[id] = new /\ new # None
      /\ DOMAIN id_vote' = Ids
  BY <1>1, <1>3, <1>4, <1>5, GoodIsVote DEF Types, Good
<1>7. Open' = Open
  BY <1>3, <1>6 DEF Open
<1>8. \A i \in Open : Members(id_vote'[i]) = Members(id_vote[i]) /\ Good(id_vote'[i])
  BY <1>1, <1>3, <1>4, <1>6 DEF Open
<1>9. Types' /\ Fresh'
  BY <1>1, <1>2, <1>3, <1>6 DEF Types, Fresh, Open
<1>10. IndexSound'
  BY <1>1, <1>2, <1>7, <1>8 DEF IndexSound
<1>11. MembersIndexed'
  BY <1>1, <1>2, <1>7, <1>8 DEF MembersIndexed
<1> QED BY <1>7, <1>8, <1>9, <1>10, <1>11 DEF IInv

LEMMA TimeoutInv ==
    ASSUME IInv, CheckTimeout
    PROVE  IInv'
<1>1. Types /\ Fresh /\ (\A i \in Open : Good(id_vote[i])) /\ IndexSound /\ MembersIndexed
  BY DEF IInv
<1>2. PICK over \in SUBSET Open :
        /\ id_vote' = [id \in Ids |-> IF id \in over THEN None ELSE id_vote[id]]
        /\ pid_id' = [pid \in Pids |-> IF \E id \in over : pid \in Members(id_vote[id])
                                       THEN None ELSE pid_id[pid]]
        /\ UNCHANGED <<voteid, expired, shared, unchecked>>
  BY DEF CheckTimeout
<1>3. Open' = Open \ over /\ \A i \in Open' : id_vote'[i] = id_vote[i]
  BY <1>2 DEF Open
<1>4. Types' /\ Fresh'
  BY <1>1, <1>2 DEF Types, Fresh
<1>5. \A i \in Open' : Good(id_vote'[i])
  BY <1>1, <1>3
<1>6. IndexSound'
  BY <1>1, <1>2, <1>3 DEF IndexSound
<1>7. ASSUME NEW i \in Open', NEW pid \in Members(id_vote'[i]) \ shared'
      PROVE  pid_id'[pid] = i
  <2>1. i \in Open \ over /\ pid \in Members(id_vote[i]) /\ pid \notin shared
    BY <1>2, <1>3
  <2>2. pid_id[pid] = i /\ pid \in Pids
    BY <1>1, <2>1, GoodIsVote DEF MembersIndexed, Good
  <2>3. \A id \in over : pid \notin Members(id_vote[id])
    BY <1>1, <2>1, <2>2 DEF MembersIndexed
  <2> QED BY <1>2, <2>2, <2>3
<1>8. MembersIndexed'
  BY <1>7 DEF MembersIndexed
<1> QED BY <1>4, <1>5, <1>6, <1>8 DEF IInv

LEMMA NextInv ==
    ASSUME IInv, [Next]_vars
    PROVE  IInv'
<1>1. ASSUME NEW e \in Elections, AddVote(e) PROVE IInv'
  BY <1>1, AddVoteInv
<1>2. ASSUME NEW pid \in Pids, NEW topid \in Candidates, Voteto(pid, topid) PROVE IInv'
  BY <1>2, VotetoInv
<1>3. ASSUME NEW pid \in Pids, CancelVoteto(pid) PROVE IInv'
  BY <1>3, CancelInv
<1>4. ASSUME NEW pid \in Pids, GiveupVote(pid) PROVE IInv'
  BY <1>4, GiveupInv
<1>5. ASSUME NEW pid \in Pids, QuitVote(pid) PROVE IInv'
  BY <1>5, QuitInv
<1>6. ASSUME NEW id \in Ids, Expire(id) PROVE IInv'
  <2>1. UNCHANGED <<voteid, id_vote, pid_id, shared, unchecked>> /\ expired' = expired \cup {id}
    BY <1>6 DEF Expire
  <2>2. Open' = Open
    BY <2>1 DEF Open
  <2>3. Types' /\ Fresh'
    BY <2>1 DEF IInv, Types, Fresh
  <2>4. IndexSound' /\ MembersIndexed'
    BY <2>1, <2>2 DEF IInv, IndexSound, MembersIndexed
  <2> QED BY <2>1, <2>2, <2>3, <2>4 DEF IInv
<1>7. CASE CheckTimeout
  BY <1>7, TimeoutInv
<1>8. CASE UNCHANGED vars
  BY <1>8 DEF vars, IInv, Types, Fresh, Open, IndexSound, MembersIndexed
<1> QED BY <1>1, <1>2, <1>3, <1>4, <1>5, <1>6, <1>7, <1>8 DEF Next

LEMMA InitInv == ASSUME Init PROVE IInv
BY VoteAssumption DEF Init, IInv, Types, Fresh, Open, IndexSound, MembersIndexed

----------------------------------------------------------------------------
(***************************************************************************)
(* An open vote is undecided.                                              *)
(***************************************************************************)
Undecided(vote) == ~vote.bad => ~Passed(vote) /\ ~Unpassable(vote)

\* Every candidate's votes are a number, and so is their sum.
LEMMA CastNat ==
    ASSUME NEW vote, Good(vote)
    PROVE  /\ \A topid \in DOMAIN vote.candidate : Cast(vote)[topid] \in Nat
           /\ CastVotes(vote) \in Nat
<1>1. ASSUME NEW topid \in DOMAIN vote.candidate
      PROVE  Cast(vote)[topid] \in Nat
  <2>1. vote.candidate[topid] \in SUBSET Members(vote)
    BY DEF Good, BallotsFit, Voted
  <2>2. VotesOf(vote, vote.candidate[topid]) \in Nat
    BY <2>1, GoodIsVote, VotesNat DEF Good, Finite
  <2> QED BY <2>2 DEF Cast
<1>2. SumFunctionOnSet(Cast(vote), DOMAIN vote.candidate) \in Nat
  BY <1>1, SumNat DEF Good, Finite
<1> QED BY <1>1, <1>2, CastSum DEF Good, Finite

\* Taking a vote back adds none: a vote that was not passed is not passed.
LEMMA WithoutUndecided ==
    ASSUME NEW vote, Good(vote), Undecided(vote), NEW pid
    PROVE  Undecided([vote EXCEPT !.candidate = Without(vote, pid)])
<1> DEFINE new == [vote EXCEPT !.candidate = Without(vote, pid)]
           topids == DOMAIN vote.candidate
<1>1. vote \in Votes(Members(vote), topids) /\ Good(new)
  BY GoodIsVote, WithoutGood DEF Good
<1>2. /\ new.candidate = Without(vote, pid) /\ DOMAIN new.candidate = topids
      /\ \A topid \in topids : new.candidate[topid] = vote.candidate[topid] \ {pid}
      /\ new.member_vote = vote.member_vote /\ new.giveup_member = vote.giveup_member
      /\ new.pass_vote = vote.pass_vote /\ new.bad = vote.bad
  BY <1>1 DEF Votes, Without
<1> HIDE DEF new
<1>3. ASSUME NEW topid \in topids
      PROVE  Cast(new)[topid] \in Nat /\ Cast(new)[topid] <= Cast(vote)[topid]
  <2> DEFINE C == vote.candidate[topid]
             h == vote.member_vote
  <2>1. C \in SUBSET Members(vote) /\ IsFiniteSet(C) /\ h \in [Members(vote) -> Nat]
    BY GoodIsVote, FS_Subset DEF Good, BallotsFit, Voted, Finite
  <2>2. SumFunctionOnSet(h, C \ {pid}) <= SumFunctionOnSet(h, C)
    <3>1. C \ {pid} \in SUBSET C /\ \A x \in C : h[x] \in Nat /\ h[x] <= h[x]
      BY <2>1
    <3> HIDE DEF C, h
    <3> QED BY <2>1, <3>1, SumLess
  <2>3. Cast(vote)[topid] = SumFunctionOnSet(h, C)
    BY DEF Cast, VotesOf, SumFunctionOnSet
  <2>4. Cast(new)[topid] = SumFunctionOnSet(h, C \ {pid})
    BY <1>2 DEF Cast, VotesOf, SumFunctionOnSet
  <2>5. Cast(new)[topid] \in Nat
    BY <1>1, <1>2, CastNat
  <2> QED BY <2>2, <2>3, <2>4, <2>5
<1>4. CastVotes(new) <= CastVotes(vote)
  <2>1. /\ CastVotes(vote) = SumFunctionOnSet(Cast(vote), topids)
        /\ CastVotes(new) = SumFunctionOnSet(Cast(new), topids)
    BY <1>1, <1>2, CastSum DEF Good, Finite
  <2>2. IsFiniteSet(topids) /\ topids \in SUBSET topids
        /\ \A x \in topids : Cast(vote)[x] \in Nat
    BY CastNat DEF Good, Finite
  <2> QED BY <1>3, <2>1, <2>2, SumLess
<1>5. CastVotes(new) \in Nat /\ CastVotes(vote) \in Nat /\ vote.pass_vote \in Nat
  BY <1>1, CastNat, GoodIsVote DEF Good
<1>6. Passed(new) => Passed(vote)
  BY <1>2, <1>4, <1>5 DEF Passed
<1>7. Unpassable(new) <=> Unpassable(vote)
  BY <1>2 DEF Unpassable, SumVotes, VotesOf, Members
<1> QED BY <1>2, <1>6, <1>7 DEF Undecided, new

\* check_endvote leaves no vote open that is decided, but for a bad one.
LEMMA UpdateUndecided ==
    ASSUME IInv, OpenUndecided, NEW id \in Open, NEW vote, NEW ids, Update(id, vote, ids)
    PROVE  OpenUndecided'
<1>1. /\ id_vote' = [id_vote EXCEPT ![id] = IF (Passed(vote) \/ Unpassable(vote)) /\ ~vote.bad
                                            THEN None ELSE vote]
      /\ unchecked' = unchecked \ {id}
  BY DEF Update
<1>2. DOMAIN id_vote = Ids /\ id \in Ids
  BY DEF IInv, Types, Open
<1>3. Undecided(vote) \/ id_vote'[id] = None
  BY <1>1, <1>2 DEF Undecided
<1>4. ASSUME NEW i \in Ids \ unchecked', id_vote'[i] # None
      PROVE  Undecided(id_vote'[i])
  <2>1. CASE i = id
    BY <1>1, <1>2, <1>3, <1>4, <2>1
  <2>2. CASE i # id
    <3>1. id_vote'[i] = id_vote[i] /\ i \in Open \ unchecked
      BY <1>1, <1>2, <1>4, <2>2 DEF Open
    <3> QED BY <3>1 DEF OpenUndecided, Undecided
  <2> QED BY <2>1, <2>2
<1> QED BY <1>4 DEF OpenUndecided, Undecided, Open

LEMMA UndecidedStep ==
    ASSUME IInv, OpenUndecided, [Next]_vars
    PROVE  OpenUndecided'
<1>0. /\ \A i \in Open : Good(id_vote[i])
      /\ \A i \in Open \ unchecked : Undecided(id_vote[i])
  BY DEF IInv, OpenUndecided, Undecided
<1>1. ASSUME \A i \in Ids \ unchecked' : id_vote'[i] # None =>
                 \/ i \in Open \ unchecked /\ id_vote'[i] = id_vote[i]
                 \/ Undecided(id_vote'[i])
      PROVE  OpenUndecided'
  <2>1. \A i \in Ids \ unchecked' : id_vote'[i] # None => Undecided(id_vote'[i])
    BY <1>0, <1>1
  <2> QED BY <2>1 DEF OpenUndecided, Undecided, Open
<1>2. ASSUME NEW e \in Elections, AddVote(e)
      PROVE  OpenUndecided'
  <2>1. unchecked' = unchecked \cup {voteid + 1}
    BY <1>2 DEF AddVote
  <2>2. \A i \in Ids : i # voteid + 1 => id_vote'[i] = id_vote[i]
    BY <1>2 DEF AddVote, IInv, Types
  <2> QED BY <1>1, <2>1, <2>2 DEF Open
<1>3. ASSUME NEW pid \in Pids, InVote(pid), NEW vote, NEW ids, Update(pid_id[pid], vote, ids)
      PROVE  OpenUndecided'
  BY <1>3, UpdateUndecided DEF InVote
<1>4. ASSUME NEW pid \in Pids, CancelVoteto(pid)
      PROVE  OpenUndecided'
  <2> DEFINE id == pid_id[pid]
             vote == id_vote[id]
             new == [vote EXCEPT !.candidate = Without(vote, pid)]
  <2>1. id \in Open /\ DOMAIN id_vote = Ids /\ unchecked' = unchecked
    BY <1>4 DEF CancelVoteto, InVote, IInv, Types
  <2>2. id_vote' = [id_vote EXCEPT ![id] = new]
    BY <1>4, <2>1 DEF CancelVoteto, VoteOf, Open
  <2>3. id \in unchecked \/ Undecided(new)
    BY <1>0, <2>1, WithoutUndecided
  <2> HIDE DEF new, id
  <2> QED BY <1>1, <2>1, <2>2, <2>3 DEF Open
<1>5. CASE CheckTimeout
  BY <1>1, <1>5 DEF CheckTimeout, Open
<1>6. CASE UNCHANGED vars \/ \E id \in Ids : Expire(id)
  BY <1>1, <1>6 DEF vars, Expire, Open
<1> QED BY <1>2, <1>3, <1>4, <1>5, <1>6 DEF Next, Voteto, GiveupVote, QuitVote

----------------------------------------------------------------------------
LEMMA Inductive == Spec => []IInv
<1>1. Init => IInv
  BY InitInv
<1>2. IInv /\ [Next]_vars => IInv'
  BY NextInv
<1> QED BY <1>1, <1>2, PTL DEF Spec

LEMMA Consequences == IInv => TypeOK /\ IndexSound /\ BallotsValid /\ MembersIndexed
<1> SUFFICES ASSUME IInv PROVE TypeOK /\ IndexSound /\ BallotsValid /\ MembersIndexed
  OBVIOUS
<1>1. TypeOK
  BY DEF IInv, Types, Good, TypeOK
<1>2. BallotsValid
  BY DEF IInv, Good, BallotsFit, BallotsValid
<1> QED BY <1>1, <1>2 DEF IInv

\* An open vote is whole, whoever quits: its threshold stays a number and its members,
\* candidates and supporters players (newvote, voteto, quit_vote).
THEOREM VoteTypeCorrect == Spec => []TypeOK
BY Inductive, Consequences, PTL

\* The index of players leads to open votes of theirs, however many votes share them and
\* in whatever order they end (addvote, __delvote, check_timeout).
THEOREM IndexAlwaysSound == Spec => []IndexSound
BY Inductive, Consequences, PTL

\* Nobody votes twice, votes and gives up, is counted after quitting, or supports himself
\* where that is not allowed (voteto, giveup_vote, quit_vote), if that is so of the ballots
\* the vote begins with.
THEOREM BallotsAlwaysValid == Spec => []BallotsValid
BY Inductive, Consequences, PTL

\* A member of one open vote can act in it until it ends (addvote, __delvote).
THEOREM MembersAlwaysIndexed == Spec => []MembersIndexed
BY Inductive, Consequences, PTL

\* A vote that is not bad is closed with the call of check_endvote that decides it, and
\* an open one that was looked at once stays undecided also when a vote is taken back
\* (voteto, cancel_voteto, giveup_vote, quit_vote, check_endvote).  Nothing is said of a
\* vote that was only added or cancelled in.
THEOREM OpenAlwaysUndecided == Spec => []OpenUndecided
<1>1. Init => OpenUndecided
  BY VoteAssumption DEF Init, OpenUndecided, Open
<1> QED BY <1>1, Inductive, UndecidedStep, PTL DEF Spec

=============================================================================

----------------------------- MODULE ClaimLedger -----------------------------
(***************************************************************************)
(* The material claims of a dialogue, scripts/council.py: which of those   *)
(* that the proposals name are active, and when one is retired.            *)
(*                                                                         *)
(* Every exchange round assesses every active claim.  What the assessments *)
(* say is only noted when the round closes; claims are retired when a      *)
(* convergence challenge passes, and then for good.  A material challenge, *)
(* or an extension, reopens the exchange, so that several batches of       *)
(* retirements may follow each other with any number of rounds between.    *)
(*                                                                         *)
(* The assessments of one claim by all participants are one verdict here.  *)
(* The ledger keeps the order in which its claims were allocated, which is *)
(* Earlier below, so that a set of claims says what the list does.  What   *)
(* else decides on the phases is in DialogueManifest.                      *)
(***************************************************************************)
EXTENDS Naturals, FiniteSets

CONSTANTS
  N,          \* the participants are 1..N, as _participant_names has them; a dyad takes two
  MaxClaims,  \* bound on the claims of one proposal
  MaxRaw,     \* bound on all claims together
  MaxRounds   \* max_rounds

ASSUME LedgerAssumption ==
  /\ N \in {2, 3}
  /\ {MaxClaims, MaxRaw, MaxRounds} \subseteq Nat \ {0}

VARIABLES
  phase, current_round, authorized_rounds,
  raw_claim_ledger, claim_ledger, parked_claims, retired_claims,
  retirement_pending,
  last_material_challenge_context,  \* whether the manifest has one
  verdicts,    \* what the assessments of the round under challenge say
  streak       \* history: rounds in a row, up to two, with a "free" verdict

ledgerVars == <<phase, current_round, authorized_rounds, raw_claim_ledger, claim_ledger,
                parked_claims, retired_claims, retirement_pending,
                last_material_challenge_context, verdicts, streak>>

-----------------------------------------------------------------------------
\* A claim is known by who made it and its place in the proposal.
Claim == (1..N) \X (1..MaxClaims)
NoClaim == <<>>

Origin(c) == c[1]

\* The order of the ledger: every participant's first claim, then every second one.
Earlier(c, d) == c[2] < d[2] \/ (c[2] = d[2] /\ c[1] < d[1])

\* All assessments of the claim taken together: somebody holds it material; or all
\* call it nonmaterial, with evidence, without any, or as a duplicate of one and
\* the same other claim.
Verdict == [says : {"material", "free", "evidenced"}, of : {NoClaim}]
             \cup [says : {"duplicate"}, of : Claim]

Material == [says |-> "material", of |-> NoClaim]

\* An entry of retirement_pending; round 0 if there is none.
NotPending == [round |-> 0, confirmed |-> FALSE]

Unassessed == [c \in Claim |-> Material]

\* At least two claims from at least two participants.
Debatable(claims) == \E c, d \in claims : Origin(c) # Origin(d)

LedgerInit ==
  /\ phase = "collecting_proposals" /\ current_round = 0
  /\ authorized_rounds \in 1..MaxRounds
  /\ raw_claim_ledger = {} /\ claim_ledger = {}
  /\ parked_claims = {} /\ retired_claims = {}
  /\ retirement_pending = [c \in Claim |-> NotPending]
  /\ last_material_challenge_context = FALSE
  /\ verdicts = Unassessed
  /\ streak = [c \in Claim |-> 0]

-----------------------------------------------------------------------------
(* _build_claim_ledger                                                     *)

\* Participant after participant puts in its next claim, up to the ceiling.
Allocated(claims, ceiling) ==
  {c \in claims : Cardinality({d \in claims : Earlier(d, c)}) < ceiling}

\* The last proposal of a dyad or triad is in.
BuildLedger ==
  /\ phase = "collecting_proposals"
  /\ \E size \in 2..N, ceiling \in 2..MaxRaw : \E contributed \in [1..size -> 1..MaxClaims] :
       /\ raw_claim_ledger' = {c \in (1..size) \X (1..MaxClaims) : c[2] <= contributed[c[1]]}
       /\ Cardinality(raw_claim_ledger') <= MaxRaw
       /\ claim_ledger' = Allocated(raw_claim_ledger', ceiling)
       /\ parked_claims' = raw_claim_ledger' \ claim_ledger'
  /\ phase' = "collecting_exchange" /\ current_round' = 1
  /\ UNCHANGED <<authorized_rounds, retired_claims, retirement_pending,
                 last_material_challenge_context, verdicts, streak>>

-----------------------------------------------------------------------------
(* _apply_safe_retirements: with commit false when an exchange closes, with *)
(* commit true when a challenge passes.                                    *)

\* Mutant: a claim that is pending since any earlier round is confirmed.
Confirmed_EverPending(c) == retirement_pending[c].round # 0

\* An evidence-free verdict is the second in a row, or was found to be.
Confirmed(c) ==
  \/ retirement_pending[c].round # 0 /\ retirement_pending[c].round = current_round - 1
  \/ retirement_pending[c].round = current_round /\ retirement_pending[c].confirmed

\* What is noted of a claim that all call nonmaterial, or not, in this round.
Noted(said) ==
  [c \in Claim |->
     IF c \notin claim_ledger THEN retirement_pending[c]
     ELSE CASE said[c].says = "material" -> NotPending
            [] said[c].says = "free" -> [round |-> current_round, confirmed |-> Confirmed(c)]
            [] OTHER -> retirement_pending[c]]

Unanimous(sort) == {c \in claim_ledger : verdicts[c].says = sort}

Candidates ==
  Unanimous("duplicate") \cup Unanimous("evidenced")
    \cup {c \in Unanimous("free") : Confirmed(c)}

\* Mutant: what others are duplicates of is retired with them.
Protected_Never == {}

Protected == {verdicts[c].of : c \in Unanimous("duplicate")}

\* The batch of a passed challenge.  In the order of the ledger each candidate goes,
\* unless it is protected, or a duplicate of a duplicate or of one that has gone
\* before, or what has not gone before would leave no debate without it.
Retires(gone) ==
  \A c \in claim_ledger :
    LET before == {d \in gone : Earlier(d, c)} IN
    c \in gone <=> /\ c \in Candidates \ Protected
                   /\ verdicts[c].of \notin Unanimous("duplicate") \cup before
                   /\ Debatable(claim_ledger \ (before \cup {c}))

RetiredEntry(c) == [claim |-> c, round |-> current_round, duplicate_of |-> verdicts[c].of]

CommitRetirements ==
  \E gone \in SUBSET claim_ledger :
    /\ Retires(gone)
    /\ retired_claims' = retired_claims \cup {RetiredEntry(c) : c \in gone}
    /\ claim_ledger' = claim_ledger \ gone
    /\ retirement_pending' = [c \in Claim |->
         IF c \in gone THEN NotPending
         ELSE IF c \in Candidates THEN retirement_pending[c] ELSE Noted(verdicts)[c]]

-----------------------------------------------------------------------------
(* submit and extend, where they close or open what the ledger depends on. *)

OpenExchange == phase' = "collecting_exchange" /\ current_round' = current_round + 1

ToSynthesis == phase' = "collecting_synthesis" /\ UNCHANGED current_round

\* Every active claim has its verdict; a duplicate is one of another active claim.
Assessments ==
  {said \in [claim_ledger -> {v \in Verdict : v.of \in claim_ledger \cup {NoClaim}}] :
     \A c \in claim_ledger : said[c].of # c}

Assessed(said) == [c \in Claim |-> IF c \in claim_ledger THEN said[c] ELSE Material]

InARow(said) ==
  [c \in Claim |-> IF said[c].says # "free" THEN 0 ELSE IF streak[c] = 0 THEN 1 ELSE 2]

\* The exchange round closes.  Whether the participants converge depends on more
\* than the verdicts; at the last round it makes no difference.
CloseExchange ==
  /\ phase = "collecting_exchange"
  /\ \E choice \in Assessments :
       LET said == Assessed(choice) IN
       /\ retirement_pending' = Noted(said)
       /\ streak' = InARow(said)
       /\ \/ /\ phase' = "collecting_convergence_challenge" /\ UNCHANGED current_round
             /\ verdicts' = said
          \/ current_round < authorized_rounds /\ OpenExchange /\ verdicts' = Unassessed
  /\ UNCHANGED <<authorized_rounds, raw_claim_ledger, claim_ledger, parked_claims, retired_claims,
                 last_material_challenge_context>>

\* Somebody found a material issue, and reopens a claim.
ChallengeMaterial ==
  /\ phase = "collecting_convergence_challenge"
  /\ IF current_round < authorized_rounds THEN OpenExchange ELSE ToSynthesis
  /\ last_material_challenge_context' = TRUE
  /\ verdicts' = Unassessed
  /\ UNCHANGED <<authorized_rounds, raw_claim_ledger, claim_ledger, parked_claims, retired_claims,
                 retirement_pending, streak>>

ChallengePassed ==
  /\ phase = "collecting_convergence_challenge"
  /\ CommitRetirements
  /\ ToSynthesis
  /\ last_material_challenge_context' = FALSE
  /\ verdicts' = Unassessed
  /\ UNCHANGED <<authorized_rounds, raw_claim_ledger, parked_claims, streak>>

ExtendRounds ==
  /\ phase \in {"collecting_exchange", "collecting_synthesis"}
  /\ \E more \in 1..(MaxRounds - authorized_rounds) : authorized_rounds' = authorized_rounds + more
  /\ IF phase = "collecting_synthesis" THEN OpenExchange ELSE UNCHANGED <<phase, current_round>>
  /\ UNCHANGED <<raw_claim_ledger, claim_ledger, parked_claims, retired_claims, retirement_pending,
                 last_material_challenge_context, verdicts, streak>>

LedgerNext ==
  BuildLedger \/ CloseExchange \/ ChallengeMaterial \/ ChallengePassed \/ ExtendRounds

LedgerSpec == LedgerInit /\ [][LedgerNext]_ledgerVars

-----------------------------------------------------------------------------
(* Properties                                                              *)

LedgerTypeOK ==
  /\ phase \in {"collecting_proposals", "collecting_exchange",
                "collecting_convergence_challenge", "collecting_synthesis"}
  /\ current_round \in 0..MaxRounds /\ authorized_rounds \in 1..MaxRounds
  /\ raw_claim_ledger \subseteq Claim
  /\ claim_ledger \subseteq raw_claim_ledger /\ parked_claims \subseteq raw_claim_ledger
  /\ retired_claims \subseteq [claim : raw_claim_ledger, round : 1..MaxRounds,
                              duplicate_of : raw_claim_ledger \cup {NoClaim}]
  /\ retirement_pending \in [Claim -> [round : 0..MaxRounds, confirmed : BOOLEAN]]
  /\ verdicts \in [Claim -> Verdict]
  /\ last_material_challenge_context \in BOOLEAN
  /\ streak \in [Claim -> 0..2]

RetiredClaims == {r.claim : r \in retired_claims}

\* Every claim of a proposal is active, parked or retired, and only one of these.
Conserved ==
  /\ claim_ledger \cup parked_claims \cup RetiredClaims = raw_claim_ledger
  /\ claim_ledger \cap parked_claims = {}
  /\ RetiredClaims \cap (claim_ledger \cup parked_claims) = {}
  /\ \A r, s \in retired_claims : r.claim = s.claim => r = s

\* What a claim was retired as a duplicate of outlives it: it is active, or was
\* retired in a later round.
DuplicatesLead ==
  \A r \in retired_claims : r.duplicate_of # NoClaim =>
    \/ r.duplicate_of \in claim_ledger
    \/ \E s \in retired_claims : s.claim = r.duplicate_of /\ s.round > r.round

\* Over any number of batches of retirements, with rounds, reopened rounds and
\* extensions between them, no claim is lost or counted twice, a duplicate leads to
\* what it duplicates, and every participant finds a claim of a peer to answer to
\* (protocol.md on claims; I10 of verification-map.md).
LedgerSound ==
  /\ LedgerTypeOK /\ Conserved /\ DuplicatesLead
  /\ phase # "collecting_proposals" => Debatable(claim_ledger)

\* In the round of the passed challenge all agreed that the claim is a duplicate,
\* or nonmaterial for a reason, or said so without one for the second time in a row.
HasEarned(c) ==
  \/ verdicts[c].says \in {"duplicate", "evidenced"}
  \/ verdicts[c].says = "free" /\ streak[c] = 2

\* A claim that others duplicate, or that is the duplicate of one that is itself a
\* duplicate, stays for now.
Kept(c) ==
  \/ \E d \in claim_ledger : verdicts[d].says = "duplicate" /\ verdicts[d].of = c
  \/ verdicts[c].says = "duplicate" /\ verdicts[verdicts[c].of].says = "duplicate"

\* The claims that leave the ledger are those that earned it, and they leave when a
\* challenge of that round has passed.  Then all of them do, however many rounds in
\* a row said so, but those that are kept or without which there would be no debate
\* (protocol.md: retirement never depends on odd or even round count).
RetirementEarned ==
  [][LET leaving == claim_ledger \ claim_ledger'
         passed == /\ phase = "collecting_convergence_challenge"
                   /\ phase' = "collecting_synthesis"
                   /\ ~last_material_challenge_context'
     IN  /\ \A c \in leaving : passed /\ HasEarned(c) /\ ~Kept(c)
         /\ passed => \A c \in claim_ledger : HasEarned(c) =>
              c \in leaving \/ Kept(c) \/ ~Debatable(claim_ledger' \ {c})]_ledgerVars
=============================================================================

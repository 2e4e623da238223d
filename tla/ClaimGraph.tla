------------------------------- MODULE ClaimGraph -------------------------------
(***************************************************************************)
(* Scientific claims and what they rest on (claims.ts).                    *)
(*                                                                         *)
(* A claim is a chain of immutable versions; only its current one is       *)
(* kept here, the others being history.  Every operation is one            *)
(* transaction, so what is hard is not their interleaving but their        *)
(* sequences: proposals, retractions and adjudications of claims that      *)
(* rest on each other, in any order.  A call that names a version which    *)
(* is no longer current is refused, and so is the replay of a request      *)
(* (it returns the version it made): both change nothing.                  *)
(***************************************************************************)
EXTENDS Naturals, FiniteSets

CONSTANTS
  Claim,
  Readable,       \* Readable[c]: the claims that the goal of c may cite
  MaxVersion,     \* versions of a claim that may still be proposed (128)
  LastVersion     \* bound: no operation that makes a later version is taken

VARIABLES
  version,  \* current version of a claim; 0 before it is proposed
  status,
  deps      \* what the current version rests on, with the versions it cited

vars == <<version, status, deps>>

Status   == {"NONE", "PROPOSED", "SUPPORTED", "REFUTED", "RETRACTED", "STALE"}
Citation == [id : Claim, version : Nat]

Init ==
  /\ version = [c \in Claim |-> 0]
  /\ status = [c \in Claim |-> "NONE"]
  /\ deps = [c \in Claim |-> {}]

-----------------------------------------------------------------------------
Known(c)  == version[c] > 0
Usable(c) == status[c] \in {"PROPOSED", "SUPPORTED"}

\* The claims that those of S cite.
Cited(S) == {e.id : e \in UNION {deps[c] : c \in S}}

\* What claims D rest on, themselves included.
Foundation(D) ==
  {c \in Claim : \A S \in SUBSET Claim : D \subseteq S /\ Cited(S) \subseteq S => c \in S}

\* The claims whose current version cites one of S and is still usable.
Dependents(S) == {d \in Claim : Usable(d) /\ \E e \in deps[d] : e.id \in S}

\* Mutant of Affected: only those that cite the claim themselves.
AffectedDirectly(c) == Dependents({c})

\* invalidateDependents: the usable claims that cite c, those that cite them, and so on.
Affected(c) ==
  {d \in Claim : \A S \in SUBSET Claim : Dependents(S \cup {c}) \subseteq S => d \in S}

\* A new version of c is current, and what rests on the former one is stale.
Publish(c, newStatus, newDeps) ==
  LET stale == Affected(c)
  IN  /\ \A d \in stale \cup {c} : version[d] < LastVersion
      /\ version' = [d \in Claim |-> IF d \in stale \cup {c} THEN version[d] + 1 ELSE version[d]]
      /\ status' = [d \in Claim |-> IF d = c THEN newStatus
                                    ELSE IF d \in stale THEN "STALE" ELSE status[d]]
      /\ deps' = [deps EXCEPT ![c] = newDeps]

-----------------------------------------------------------------------------
\* Mutant of NoCycle: only the claims that are cited are looked at.
NoCycleDirectly(c, D) == c \notin D \cup Cited(D)

\* assertNoCycle
NoCycle(c, D) == c \notin Foundation(D)

\* proposeClaim: a first version, or a new one by the goal that owns the claim.  What
\* was supported, or is stale, has to be adjudicated anew.
ProposeClaim(c, D) ==
  /\ version[c] < MaxVersion
  /\ D \subseteq Readable[c]
  /\ \A d \in D : Known(d) /\ Usable(d)
  /\ NoCycle(c, D)
  /\ Publish(c, IF status[c] \in {"SUPPORTED", "STALE"} THEN "STALE" ELSE "PROPOSED",
             {[id |-> d, version |-> version[d]] : d \in D})

RetractClaim(c) ==
  /\ Known(c)
  /\ Publish(c, "RETRACTED", deps[c])

\* What the claim cites is supported, in the version that it cites.
Revalidated(c) ==
  \A e \in deps[c] : version[e.id] = e.version /\ status[e.id] = "SUPPORTED"

\* adjudicateClaim: the verdict of an independent discriminator on exactly this version.
AdjudicateClaim(c, verdict) ==
  /\ Known(c)
  /\ Revalidated(c)
  /\ Publish(c, verdict, deps[c])

-----------------------------------------------------------------------------
Next ==
  \E c \in Claim :
    \/ \E D \in SUBSET Claim : ProposeClaim(c, D)
    \/ RetractClaim(c)
    \/ \E verdict \in {"SUPPORTED", "REFUTED"} : AdjudicateClaim(c, verdict)

Spec == Init /\ [][Next]_vars

-----------------------------------------------------------------------------
(* Properties.                                                             *)

TypeOK ==
  /\ version \in [Claim -> Nat]
  /\ status \in [Claim -> Status]
  /\ deps \in [Claim -> SUBSET Citation]
  /\ \A c \in Claim : Known(c) <=> status[c] # "NONE"

\* No claim rests on itself, over any number of others and whatever their status: among
\* any claims there is one that cites none of them.
Acyclic ==
  \A S \in (SUBSET Claim) \ {{}} : \E c \in S : Cited({c}) \cap S = {}

\* A claim that may be used rests on the current versions of claims that may be used,
\* and a supported one on supported ones, all the way down: no change of a claim leaves
\* a conclusion standing that was drawn from what it said before.
Grounded ==
  \A c \in Claim : Usable(c) => \A e \in deps[c] :
    /\ version[e.id] = e.version
    /\ Usable(e.id)
    /\ status[c] = "SUPPORTED" => status[e.id] = "SUPPORTED"
=============================================================================

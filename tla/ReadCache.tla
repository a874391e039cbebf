------------------------------- MODULE ReadCache -------------------------------
(***************************************************************************)
(* The read cache (src/utils/cache.ts) in front of projects and in front   *)
(* of organizations.  Their keys are apart and neither side reads or       *)
(* deletes those of the other, so a behaviour of this module is one of one *)
(* side with the other at rest.                                            *)
(***************************************************************************)
EXTENDS Projects, OrganizationCache

VARIABLE side   \* environment: the side that is exercised

cacheVars == <<vars, orgVars, side>>

CacheInit ==
    /\ Init /\ OrgInit
    /\ side \in {"projects", "organizations"}
    /\ side = "projects" => ~orderly /\ Cardinality({u \in People : member[u] # NoMembership}) = 1
    /\ side = "organizations" => ~calm

ProjectPart ==
    /\ side = "projects"
    /\ Next
    /\ UNCHANGED <<orgVars, side>>

OrganizationPart ==
    /\ side = "organizations"
    /\ OrgNext
    /\ UNCHANGED <<vars, side>>

CacheNext == ProjectPart \/ OrganizationPart

(* What is at rest is never enabled: each side's fairness is about itself. *)
CacheSpec == CacheInit /\ [][CacheNext]_cacheVars /\ Fairness /\ OrgFairness

-----------------------------------------------------------------------------
(* "sensible TTLs" (UNDERSTANDING.md:12): once rows stop changing the      *)
(* cache ends up, and stays, in agreement with them on both sides,         *)
(* whatever overlapped, was lost, failed, or was never invalidated.        *)
CacheCatchesUp == <>[](ProjectsAgree /\ OrganizationsAgree)
=============================================================================
